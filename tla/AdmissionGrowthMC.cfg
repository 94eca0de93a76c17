SPECIFICATION Spec
CONSTANTS
    Owners = {j1, j2, j3}
    Models = {"m1"}
    Groups = {"a"}
    GroupsOf <- MCGroupsOf
    Initial <- MCInitial
    Ceiling <- MCCeiling
    Minimum <- MCMinimum
    ExternalSlots <- MCExternal
    Limit = 3
    Quiet = 3
    Cooldown = 1
    MaxCooldown = 2
    HintCeiling = 2
    MaxJitter = 0
    Receipts <- GrowthReceipts
    MaxInvocations = 3
    MaxTime = 3
    MaxResets = 0
SYMMETRY PoolSymmetry
PROPERTY GrowthAfterQuietWindow

CHECK_DEADLOCK FALSE
