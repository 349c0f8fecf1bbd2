CONSTANTS
    Agents = {a1}
    Tasks = {t1, t2}
    Continues = {}
    Controls = {x1, x2}
    Callers = {}
SPECIFICATION DoneOnceSpec
INVARIANTS ControlSentOnce
PROPERTIES ReceiptsAreTrue DesktopRefusesTurns TurnsSettle
