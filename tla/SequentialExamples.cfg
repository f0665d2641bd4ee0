SPECIFICATION ExamplesSpec
CONSTANTS
    Players <- MCPlayers
    Length = 3
    Values = {1, 2, 3, 4}
    MaxSize = 5
    Size = 6
    Numbers = {1, 2, 3}
    Chars = {0, 1}
    MaxLength = 2
    SizeRange = 32
    MaxFrames = 6
    MaxN = 9
INVARIANTS PrintedInOrder AllOrNothing ComparedAsWhole SameFactorial FoundIfThere Logarithmic
