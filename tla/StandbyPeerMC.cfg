SPECIFICATION Spec
CONSTANTS
    Budget = 2
    Revised = FALSE
INVARIANTS PeerInv GateFollowsRole OwnerIsClean ProofHonest
PROPERTIES YieldedStaysAside UnownedLineDefers
