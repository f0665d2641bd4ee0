SPECIFICATION Spec
CONSTANTS
    SizeRange = 32
    MaxFrames = 6
    MaxN = 9
INVARIANT SameFunction
