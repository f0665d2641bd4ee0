SPECIFICATION Spec
CONSTANTS
    MaxN = 4
    ChunkSizes = {1, 2}
    Tasks = {1, 2, 3}
    MaxBad = 1
    None = None
INVARIANTS SameAsSequential NoTwoWriters NoTaskOutlives
PROPERTY AllReturn
