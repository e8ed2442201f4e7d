SPECIFICATION QueueFairSpec
CONSTANTS
    Nodes = {n1, n2, n3}
    Stub = stub
    Null = null
INVARIANTS
    ListInOrder
    OwnersMatch
PROPERTIES
    IsFifo
    PopReturns
    PushedIsPopped
