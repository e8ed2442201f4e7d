SPECIFICATION Spec
CONSTANTS
    Handles = {h1, h2, h3}
    NoProto = none
    Slots = {1, 2}
    Addresses = {a}
    Bindable <- AllUris
    Budgets <- CallsOrPackets
    NoHandle = null
    TaskInReclock = TRUE
SYMMETRY HandleSymmetry
INVARIANT SlotsKeptInReclock
CHECK_DEADLOCK FALSE
