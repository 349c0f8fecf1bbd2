CONSTANTS
    Agents = {a1}
    Tasks = {t1}
    Continues = {k1}
    Controls = {x1}
    Callers = {c1}
SPECIFICATION Spec
PROPERTIES DesktopRefusesTurns
