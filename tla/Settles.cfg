SPECIFICATION FairSpec
CONSTANTS
    o1 = o1  o2 = o2
    main = main  nested = nested  sibling = sibling
    x = x  y = y  z = z  build = build
    writer = writer  reader = reader  below = below  shell = shell
    NoAgent = NoAgent  NoThread = NoThread
    Jobs = {writer, reader, below, shell}
    Owners = {o1, o2}
    Roots = {main, nested, sibling}
    Agents = {x, y, z}
    Threads = {}
    ResourceKeys = {build}
    QueueCap = 3  MaxAgents = 16  MaxReaders = 16
    Daemons = {"d1", "d2", "d3"}
    Clients = {"c1", "c2"}
    Revisions = {old, new}
    Faults = {"died", "stop", "idle"}
    None = None
    Runs = {r1, r2}
    Keys = {k1}
    Sessions = {s1}
    Resumes = {r2}
    Entries = {e1}
    Evictions = {v1}
PROPERTIES WaitersSettle AskGetsDaemon PoolSettles
CHECK_DEADLOCK FALSE
