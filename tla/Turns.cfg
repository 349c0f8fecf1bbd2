CONSTANTS
    Agents = {a1}
    Tasks = {t1, t2}
    Continues = {k1, k2}
    Controls = {}
    Callers = {c1, c2}
SPECIFICATION Spec
SYMMETRY Alike
INVARIANTS StatusFollowsTurn
PROPERTIES OrphanIsLeftAlone ImplementsHistory
