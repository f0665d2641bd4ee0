SPECIFICATION Spec
CONSTANTS
    Items = {a, b}
    N = 3
    MayThrow = TRUE
    None = None
INVARIANTS NoDataRace
PROPERTIES ImplementsFifo
