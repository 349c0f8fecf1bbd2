\* Two commands that start first after an upgrade: one may fail where it should go on
\* with what the other migrated.
SPECIFICATION Spec
CONSTANTS
    Commands = {"a", "b"}
    Kinds <- ServeOnly
    MaxFaults = 0
    MaxCrashes = 0
INVARIANTS FirstStartsSucceed
CHECK_DEADLOCK FALSE
