SPECIFICATION MCSpec
CONSTANTS
    c3 = c3  old = old  new = new
    Daemons = {d1, d2, d3}
    Clients = {c1, c3}
    Revisions = {old, new}
    RevisionOf <- MCRevisionOf
    Faults = {"stop", "idle", "timeout"}
    None = None  Asleep = Asleep
    FailingClients = {c3}
    FailingRevisionOf <- MCFailingRevisionOf
    FailingFaults = {"died", "death", "failedStart"}
    MaxCalls = 2
    Keys = {k1, k2}
    AgentOf <- MCAgentOf
    Flaws = {"none", "size", "token"}
    MaxExits = 1  Unsaid = Unsaid
    a1 = a1  m1 = m1  m2 = m2
    TurnAgents = {a1, a2}
    NoModel = NoModel
    Configs <- MCConfigs
    Profiles <- MCProfiles
    Requests <- MCRequests
    MaxNewSessions = 2  MaxTurns = 3
    Regs = {"g1", "g2"}
    Threads = {"t1"}
    NoThread = "none"  MaxChanges = 2  MaxTries = 2
INVARIANTS OneDaemon ReadyIsReachable ReplacementNeverCutsWork AnswersAreTrue SettingsAreOfTheTurn RegistrationsAreTrue
PROPERTIES LiveTurnsAreNotLost
CHECK_DEADLOCK FALSE
