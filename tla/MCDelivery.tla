------------------------------ MODULE MCDelivery ------------------------------
(* Instances of Delivery for TLC: which commitments the admission made.     *)
EXTENDS DeliveryContract, TLC

CONSTANTS TheCard, ThePage, TheThread, TheReply, w1, w2

Slots == Permutations(Worker)

\* Production admits every commitment of a group with policy retry; only calls,
\* handovers and webhooks carry a deadline of their own.
Basic(form) ==
  [form |-> form, policy |-> "retry", parent |-> NoParent, thread |-> FALSE, reply |-> FALSE,
   step |-> 1, stops |-> FALSE, awaits |-> {}, deadline |-> "none", due |-> TRUE]

Follows(parent, form) ==
  [Basic(form) EXCEPT !.parent = parent, !.thread = form = "editable", !.reply = form = "one_shot"]

CardPlan == TheCard :> Basic("editable")

\* A card and the direct message that links to it.
LinkedPlan == TheCard :> Basic("editable") @@ ThePage :> [Basic("one_shot") EXCEPT !.awaits = {TheCard}]

\* A page that stops the escalation, and a Slack channel card of a later step with
\* its thread.
StoppingPlan ==
  ThePage :> [Basic("one_shot") EXCEPT !.stops = TRUE] @@
  TheCard :> [Basic("editable") EXCEPT !.step = 2] @@
  TheThread :> [Follows(TheCard, "editable") EXCEPT !.step = 2]

\* A card and the reply that closes its thread.
ReplyPlan == TheCard :> Basic("editable") @@ TheReply :> Follows(TheCard, "one_shot")

==============================================================================
