SPECIFICATION Spec
CONSTANTS
    N = 13
    alignment = 4
    PtrdiffMax = 31
    HeapPlaces = {13, 60}
INVARIANTS HeapBalance LosesNothing
PROPERTIES IsAnAllocator
