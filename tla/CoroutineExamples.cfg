SPECIFICATION ExamplesSpec
CONSTANTS
    Body <- MCBody
    MayThrow = TRUE
    TimerMayFail = TRUE
    Clients = {c1, c2}
    MaxCount = 3
    AcceptMayFail = TRUE
INVARIANTS HeldByOne NothingDangles OwnedOnce
PROPERTIES ImplementsCalls EndsWithErrors SocketsAreClosed ClientsAreServed
