SPECIFICATION Spec
CONSTANTS
    Threads = {t1, t2, t3, t4}
    Items = {a, b}
    N = 2
    MayThrow = TRUE
    None = None
SYMMETRY Symmetry
CHECK_DEADLOCK FALSE
INVARIANTS TypeOK PermitsConserved SlotsInTurn
PROPERTIES ImplementsFifo
