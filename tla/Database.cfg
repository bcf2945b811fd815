\* A client with every statement and one that locks its table, results of at most one row, sessions dropped at any time.
SPECIFICATION FairSpec
CONSTANTS
    Clients = {c1, c2}
    Lockers = {c2}
    MaxRows = 1
INVARIANT
    ExactlyOnce
    CursorSafe
PROPERTY
    LockHeldOnReturn
    StatementReturns
    Recovers
