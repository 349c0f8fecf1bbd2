SPECIFICATION Spec
CONSTANTS
    Daemons = {d1, d2, d3}
    Clients = {c1, c2}
    Revisions = {old, new}
    RevisionOf <- OneConfiguration
    Faults = {"death"}
    None = None
INVARIANTS OneDaemon
CHECK_DEADLOCK FALSE
