SPECIFICATION MCSpec
CONSTANTS
    r1 = r1  r2 = r2  k1 = k1  s1 = s1
    e1 = e1  e2 = e2  v1 = v1  v2 = v2
    Runs = {r1, r2}
    Keys = {k1}
    KeyOf <- OneKey
    Sessions = {s1}
    SessionOf <- OneSession
    Resumes = {r2}
    Entries = {e1, e2}
    Evictions = {v1, v2}
    None = None  Asleep = Asleep
    a1 = a1  m1 = m1  m2 = m2
    Agents = {"a1", "a2"}
    Dirs = {"d1", "d2"}
    Workspace <- MCWorkspace
    MaxInits = 2  MaxReleases = 2  MaxPrompts = 2  MaxQueries = 2  MaxText = 1
    MaxChildren = 3  MaxSessions = 2  MaxOpencodePrompts = 2
    AcpAgents = {a1}
    Providers = {"grok", "cursor"}
    Models = {m1, m2}
    Endings <- MCEndings
    MaxAcpSessions = 1  MaxQueue = 2  MaxNoise = 1
SYMMETRY Alike
INVARIANTS PoolSparesRuns CloseIsOrderly SandboxIsShared TurnsAreTheirOwn OpencodeKeepsItsOwn AcpTurnsAreTheirOwn
CHECK_DEADLOCK FALSE
