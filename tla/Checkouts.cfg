SPECIFICATION MCSpec
CONSTANTS
    o1 = o1  o2 = o2
    main = main  nested = nested  sibling = sibling
    x = x  y = y  z = z  t1 = t1  build = build
    writer = writer  reader = reader  below = below  beside = beside  shell = shell
    NoAgent = NoAgent  NoThread = NoThread
    Jobs = {writer, reader, below, beside, shell}
    Owners = {o1, o2}
    Roots = {main, nested, sibling}
    Agents = {x, y, z}
    Threads = {t1}
    ResourceKeys = {build}
    Within <- MCWithin
    Request <- MCRequest
    QueueCap = 3  MaxAgents = 3  MaxReaders = 2
    Asleep = Asleep  None = None
    Scopes = {"cv1"}
    Calls = {"c1", "c2", "c3"}
    MaxCached = 1  MaxDirs = 2  MaxSessions = 2
    Pruners = {"g1", "g2"}
    MaxWork = 2  MaxMishaps = 1
INVARIANTS SafeUse OpensAreStable PrunedIsKept
PROPERTIES NoOvertaking ImplementsSourceUse
CHECK_DEADLOCK FALSE
