SPECIFICATION Spec
CONSTANTS
    Capacity = 1
    MaxPush = 4
    Waiters = {w1}
    Word = 256
INVARIANTS DepthHonest
