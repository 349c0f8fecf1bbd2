SPECIFICATION ServicesSpec
CONSTANTS
    Threads = {t1}
    Batches = {b1, b2}
    Requests = {q1, q2}
    Outside = {"turn", "archive", "unarchive"}
    Nobody = Nobody  Orphan = Orphan
    Asleep = Asleep  Unsaid = Unsaid
    y1 = y1  y2 = y2  sc1 = sc1  sc2 = sc2  res = res
    Servers = {y1, y2}
    Clients = {"c1", "c2"}
    HostAllowed = {"c1"}
    Supported = {sc1, sc2}
    Resources = {res}
    Accepts <- MCAccepts
    TokenRequests = {"q1", "q2"}
    MaxCodes = 1  MaxPairs = 3  MaxRevoked = 1  MaxTime = 1
    CodeTtl = 0  AccessTtl = 0  RefreshTtl = 0
    Downloads = {"d1", "d2"}
    FileNames = {"f", "g"}
    Paths <- MCPaths
    Hosts = {"h1", "h2"}
    Trusted = {"h1"}
    OPENAI_FILE_REDIRECT_LIMIT = 1  MAX_STALE_PARTIAL_CLEANUP = 1
    MaxChunks = 1  MaxFiles = 3  MaxOthers = 1  MaxCrashes = 1
    Openers = {"server", "agentd", "old"}
    Latest <- MCLatest
    MaxOpens = 4
    Commands = {"a", "b", "c"}
    Kinds <- MCKinds
    MaxFaults = 1
SYMMETRY Alike
INVARIANTS ArchiveSparesTurns TokensAreGranted MigrationsAreWhole ConfigIsKept
PROPERTIES MovesWhatWasPreviewed DownloadsAreWhole
CHECK_DEADLOCK FALSE
