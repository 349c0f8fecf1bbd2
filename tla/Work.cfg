SPECIFICATION MCSpec
CONSTANTS
    r1 = r1 r2 = r2 c1 = c1 c2 = c2 t1 = t1 e1 = e1 e2 = e2 a1 = a1 k1 = k1
    Runs = {r1, r2}
    Commands = {c1, c2}
    Tools = {t1}
    Turns = {e1, e2}
    Agents = {a1}
    RunOf <- MCRunOf
    KeyOf <- MCKeyOf
    AgentOf <- MCAgentOf
    Reading = {}
    Pty = {c2}
    Reports <- MCReports
    Faults = {"crash", "accounting"}
    None = None  Asleep = Asleep  Unknown = Unknown
    NumTurns = 2  MaxSpent = 2
    TurnFaults = {"late", "timeout", "refused", "dies", "outside"}
    s1 = s1  s2 = s2
    Sessions = {s1, s2}
    Polls = {"p1", "p2"}
    Terminals = {s2}
    MaxCharacters = 3
    Limits = {3, 6}
    MaxCompleted = 1
    MaxWritten <- MCMaxWritten
    Names = {"a", "A", "b"}
    Lower <- MCLower
    Texts <- MCTexts
    TrimmedEnd <- MCTrimmedEnd  Trimmed <- MCTrimmed
    Hunks <- MCHunks
    MaxActions = 2
    Reviews = {"q1", "q2"}
    MaxCommits = 4  MaxWrites = 1
INVARIANTS RunsAreTruthful UsageIsTrue CommandsAreFollowed PatchesAreWhole ReviewsAreComplete
PROPERTIES ReceiptIsFinal
CHECK_DEADLOCK FALSE
