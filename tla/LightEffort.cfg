\* A turn that follows a read-only one may run with the effort of that one.
SPECIFICATION Spec
CONSTANTS
    Agents = {a1}
    NoModel = NoModel
    Configs <- LightWhenReadOnly
    Profiles <- PlainProfile
    Requests <- AnyMode
    MaxNewSessions = 1
    MaxTurns = 3
INVARIANTS ReadOnlyEffortEnds
CHECK_DEADLOCK FALSE
