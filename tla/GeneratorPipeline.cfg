SPECIFICATION GeneratorsSpec
CONSTANTS
    Until = 10
    Adder = 3
    Wanted <- MCWanted
    Ids <- MCIds
    Spaces <- MCSpaces
    SeqMax = 14
INVARIANTS ResumedInTurn RoundTrip SeenOnce
PROPERTIES NoValueLost LoopsEnd
