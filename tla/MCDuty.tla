------------------------------- MODULE MCDuty -------------------------------
EXTENDS Handover

CONSTANTS alice, bob, carol

\* A zone whose clocks go forward over the hour at the end of a date, so that
\* its handover falls on the next date, and one whose clocks go back.
Forward == [at |-> 3, before |-> 0, after |-> 1]
Back == [at |-> 3, before |-> 1, after |-> 0]

Daily(z, h) == [zone |-> z, step |-> 1, hour |-> h, weekday |-> 0]
Weekly(z, h, d) == [zone |-> z, step |-> Week, hour |-> h, weekday |-> d]

Group(i, m) == [id |-> i, members |-> m]
Config(gs, g) == [enabled |-> TRUE, groups |-> gs, grid |-> g]

First == Config(<<Group(1, {alice}), Group(2, {bob, carol})>>, Daily(Forward, 1))
Three == Config(<<Group(3, {bob}), Group(1, {alice}), Group(2, {carol})>>, Weekly(Back, 0, 1))
Off   == [Config(<<Group(1, {alice})>>, Daily(Forward, 1)) EXCEPT !.enabled = FALSE]
MCConfigurations == {First, Three, Off}

\* No instance and three commands, one and two, two of them and one.
MCDeployments ==
    {[running |-> {}, commands |-> 3, upsets |-> 0],
     [running |-> {1}, commands |-> 2, upsets |-> 0],
     [running |-> {1, 2}, commands |-> 1, upsets |-> 1]}

MCSpans == {[from |-> 1, to |-> 3], [from |-> 2, to |-> 4]}
=============================================================================
