SPECIFICATION Spec
CONSTANTS
    Owners = {j1, j2}
    Models = {"m1", "m2"}
    Groups = {"a", "b"}
    GroupsOf <- MCGroupsOf
    Initial <- MCInitial
    Ceiling <- MCCeiling
    Minimum <- MCMinimum
    ExternalSlots <- MCExternal
    Limit = 3
    Quiet = 1
    Cooldown = 1
    MaxCooldown = 2
    HintCeiling = 2
    MaxJitter = 0
    Receipts <- MCReceipts
    MaxInvocations = 3
    MaxTime = 1
    MaxResets = 1
SYMMETRY PoolSymmetry
INVARIANTS AdmissionInv OneLiftingProbe
PROPERTIES ProbeLiftsOwnEpisode PenaltyOncePerInvocation
CHECK_DEADLOCK FALSE
