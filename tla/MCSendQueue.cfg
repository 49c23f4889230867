SPECIFICATION Spec
CONSTANTS
    S1 = S1
    S2 = S2
    Senders <- MCSenders
    KindOf <- MCKindOf
    Buffers = {b1, b2}
    Contents = {c1, c2}
    Freed = Freed
    Lost = Lost
    DestinationLists <- MCDestinationLists
    MaxCalls = 2
INVARIANTS
    TypeOK
    OnceAndInOrder
PROPERTIES
    OutboxSpec
