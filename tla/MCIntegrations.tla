--------------------------- MODULE MCIntegrations ---------------------------
(* Integrations with model values, and the deployments it is checked in.    *)
EXTENDS Integrations

CONSTANTS t1, t2, i1, i2, a1, a2, g1

Bounds(commands, crashes, faults, turns, moves) ==
  [commands |-> commands, crashes |-> crashes, faults |-> faults, turns |-> turns, moves |-> moves]

Installed(what, tokens, incidents, usergroup, refreshes, bounds) ==
  [type |-> what, tokens |-> tokens, incidents |-> incidents,
   usergroup |-> usergroup, refreshes |-> refreshes,
   commands |-> bounds.commands, crashes |-> bounds.crashes, faults |-> bounds.faults,
   turns |-> bounds.turns, moves |-> bounds.moves]

\* Two edits at once over a card that fails and comes back.
CardsUnderEdits == Installed("slack", {t1}, {g1}, FALSE, FALSE, Bounds(2, 0, 0, 0, 2))

\* One edit whose door breaks or whose instance dies.
CardsUnderFaults == Installed("slack", {t1}, {g1}, FALSE, FALSE, Bounds(1, 1, 1, 0, 1))

\* A change of token, an instance that dies, a turn of duty.
Usergroup == Installed("slack", {t1, t2}, {}, TRUE, FALSE, Bounds(1, 1, 0, 1, 0))

\* Two edits whose effects run in any order.
HooksUnderEdits == Installed("telegram", {t1, t2}, {}, FALSE, FALSE, Bounds(2, 0, 0, 0, 0))

\* One edit, a call that is lost, an instance that dies.
HooksUnderFaults == Installed("telegram", {t1, t2}, {}, FALSE, FALSE, Bounds(1, 1, 1, 0, 0))

\* An edit of the declared silence between what Alertmanager sent and its storage.
Silence == Installed("alertmanager", {t1}, {g1}, FALSE, FALSE, Bounds(1, 0, 0, 0, 2))

\* An edit on one instance, and the caches of both.
Caches == Installed("alertmanager", {t1, t2}, {}, FALSE, TRUE, Bounds(1, 1, 1, 0, 0))

Deployments ==
  {CardsUnderEdits, CardsUnderFaults, Usergroup, HooksUnderEdits, HooksUnderFaults,
   Silence, Caches}
==============================================================================
