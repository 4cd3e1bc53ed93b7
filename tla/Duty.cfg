SPECIFICATION FairSpec
CONSTANTS
    alice = alice
    bob = bob
    carol = carol
    Day = 2
    Week = 2
    Users = {alice, bob, carol}
    Admins = {alice, carol}
    Team = {alice, bob, carol}
    Operators = {alice, carol}
    Configurations <- MCConfigurations
    FirstConfiguration <- First
    Spans <- MCSpans
    StandIns = {bob, carol}
    MaxTime = 4
    MaxCommands = 3
    Instances = {1, 2}
    MaxUpsets = 1
    Deployments <- MCDeployments
INVARIANTS
    AssignedAreHere
    ErasedHaveNoWords
    RotationTurns
PROPERTIES
    ServedDutyStands
    EditKeepsTheShift
    NoticeSettles
CHECK_DEADLOCK FALSE
