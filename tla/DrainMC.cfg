SPECIFICATION FairSpec
CONSTANTS
    Capacity = 2
    MaxPush = 4
    Waiters = {w1}
    Word = 256
INVARIANTS DrainInv AttestHonest LossHasItsFailure
PROPERTIES WaitsEnd DropCompletes
