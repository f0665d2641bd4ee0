SPECIFICATION Spec
CONSTANTS
    Players <- MCPlayers
    Length = 3
INVARIANT
    ComparatorOrders
