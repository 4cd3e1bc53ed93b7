------------------------------- MODULE MCIntake -------------------------------
EXTENDS Intake

CONSTANTS a, b, u1, u2

\* A step of a policy: a schedule's people or a target by name.
Step(index, provider, shape, target, ref, delay, continues) ==
  [index |-> index, provider |-> provider, shape |-> shape, target |-> target, ref |-> ref,
   delay |-> delay, continues |-> continues]

\* The on-call of the schedule twice in one step index, a card, and a call.
Repeating == <<Step(0, "slack", "dm", "schedule", "primary", 0, TRUE),
               Step(0, "slack", "dm", "schedule", "primary", 1, TRUE),
               Step(1, "slack", "channel", "channel", "room", 1, FALSE)>>

\* A provider nothing delivers through, then a call.
Misspelled == <<Step(2, "pager", "dm", "schedule", "primary", 0, TRUE),
                Step(5, "phone", "call", "schedule", "primary", 1, FALSE)>>

\* A team's own schedule, beside the one the step names; or none.
OwnSchedule(users, stored) == [team |-> TRUE, users |-> users, stored |-> [s \in {"primary"} |-> stored]]
NoSchedule(stored) == [team |-> FALSE, users |-> {}, stored |-> [s \in {"primary"} |-> stored]]

Says(x, y, whole) == [says |-> [z \in {a, b} |-> IF z = a THEN x ELSE y], snapshot |-> whole]

Payloads ==
  {Says("firing", "absent", TRUE), Says("resolved", "firing", FALSE), Says("resolved", "absent", TRUE)}

PassPolicies == {Repeating, Misspelled}
PassFirst == NoSchedule({u1, u2})
PassDuty == {PassFirst, OwnSchedule({}, {u2})}
===============================================================================
