-------------------------------- MODULE Grid --------------------------------
(***************************************************************************)
(* The shift grid of a rotation layer (src/internal/rotation/grid.go) and  *)
(* the position of a rotation on it (rotation/position.go).                *)
(*                                                                         *)
(* A grid is a time zone and a policy: every day, or every week on one     *)
(* weekday, duty changes hands at one local time.  The local time is       *)
(* resolved to an instant date by date, and that is where the difficulty   *)
(* is: a zone may skip local times, a whole date even, or repeat them.     *)
(*                                                                         *)
(* A zone here is one change of offset: `before' until the instant `at',   *)
(* `after' from it on.  A local time is a number, Day of them to a date,   *)
(* date 0 being weekday 0.  The instants are integers.                     *)
(***************************************************************************)
EXTENDS Integers, FiniteSets

CONSTANTS Day,      \* instants in a local date (24 hours in the code)
          Week      \* dates in a week (7 in the code)

ASSUME GridAssumption == Day \in Nat \ {0} /\ Week \in Nat \ {0}

LeastOf(S) == CHOOSE x \in S : \A y \in S : x <= y

\* -------------------------------------------------------------------------
\* Zones and local times.

OffsetAt(z, t) == IF t < z.at THEN z.before ELSE z.after

LocalAt(z, t) == t + OffsetAt(z, t)

\* The instants that show the local time l: none in a gap, two when the
\* clocks went back over it.
localOccurrences(z, l) ==
    {t \in {l - z.before, l - z.after} : LocalAt(z, t) = l}

gapSize(z) == IF z.after > z.before THEN z.after - z.before ELSE 0

\* A local time in a gap is moved on by the size of the gap.
resolveLocalBoundary(z, l) ==
    IF localOccurrences(z, l) # {}
    THEN LeastOf(localOccurrences(z, l))
    ELSE LeastOf(localOccurrences(z, l + gapSize(z)))

\* -------------------------------------------------------------------------
\* A grid is [zone, step (1 or Week dates), hour, weekday].

\* The hour and the weekday are of a day and of a week, no clock is further
\* than a day from the one that counts the instants, and none is moved by more.
IsGrid(g) ==
    /\ g.zone.at \in Int
    /\ {g.zone.before, g.zone.after, g.zone.after - g.zone.before} \subseteq -Day .. Day
    /\ g.step \in {1, Week} /\ g.hour \in 0 .. (Day - 1) /\ g.weekday \in 0 .. (Week - 1)

Resolve(g, date) == resolveLocalBoundary(g.zone, date * Day + g.hour)

alignDate(g, t) ==
    LET date == LocalAt(g.zone, t) \div Day
    IN  IF g.step = 1 THEN date ELSE date - ((date - g.weekday) % Week)

\* How many dates a change of offset can collapse into one instant.
Reach(g) == 2 + (gapSize(g.zone) \div (g.step * Day))
                + (IF g.zone.before > g.zone.after THEN (g.zone.before - g.zone.after) \div Day ELSE 0)

(***************************************************************************)
(* A boundary is carried with the DATE that produced it: a date that fell  *)
(* into a gap resolves onto another date, and asking an instant for its    *)
(* date again would skip that date or serve it twice.                      *)
(***************************************************************************)
Cursor(g, date) == [date |-> date, at |-> Resolve(g, date)]

\* Mutant: the date of the boundary is asked of its instant, not carried.
nextAfterReDates(g, cur) ==
    Cursor(g, alignDate(g, cur.at) + g.step)

nextAfter(g, cur) ==
    LET k == LeastOf({i \in 1..Reach(g) : Resolve(g, cur.date + i * g.step) > cur.at})
    IN  Cursor(g, cur.date + k * g.step)

\* The boundaries from one on, the i-th of them.
Walk(g, cur, n) ==
    LET step[i \in 0..n] == IF i = 0 THEN cur ELSE nextAfter(g, step[i - 1])
    IN  step

\* Back until a boundary is not after t, then on to the last such one.
slotContaining(g, t) ==
    LET back == LeastOf({k \in 0..Reach(g) : Resolve(g, alignDate(g, t) - k * g.step) <= t})
        walk == Walk(g, Cursor(g, alignDate(g, t) - back * g.step), Reach(g) + 1)
        last == LeastOf({k \in 0..Reach(g) : walk[k + 1].at > t})
    IN  [start |-> walk[last], end |-> walk[last + 1]]

SlotStart(g, t) == slotContaining(g, t).start.at

SlotEnd(g, t) == slotContaining(g, t).end.at

\* The number of turns from one slot start to another, forward or back.
SlotsBetween(g, from, to) ==
    LET low  == IF from <= to THEN from ELSE to
        high == IF from <= to THEN to ELSE from
        bound == high - low
        walk == Walk(g, slotContaining(g, low).start, bound)
        n == LeastOf({k \in 0..bound : walk[k].at >= high})
    IN  IF from <= to THEN n ELSE -n

\* Which of n groups serves the slot that contains t, of a rotation that was
\* at position `start' in the slot that begins at `anchor'.
PositionAt(g, n, start, anchor, t) ==
    (start + SlotsBetween(g, anchor, SlotStart(g, t))) % n

\* -------------------------------------------------------------------------
\* The reference: the boundaries of a grid are what its dates resolve to.

Boundaries(g, Dates) ==
    {Resolve(g, d) : d \in {x \in Dates : g.step = 1 \/ x % Week = g.weekday}}
=============================================================================
