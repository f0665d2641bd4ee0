SPECIFICATION Spec
CONSTANTS
    Workers <- MCWorkers
    Program <- MCProgram
    Initial <- MCInitial
    Divisors <- MCDivisors
    LatchThreads <- MCLatchThreads
    DiceThreads <- MCDiceThreads
    MaxTurns = 3
    Consumers <- MCConsumers
    Share = 3
    N = 2
    Flips <- MCFlips
    Clients = {c1, c2, c3}
    Permits = 2
    Requests = 2
    None = None
INVARIANTS NoLostUpdate OutcomesArrive PhasesInStep EachOnceInOrder
PROPERTIES EveryExampleReturns
