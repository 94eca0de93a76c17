SPECIFICATION Spec
CONSTANTS
    a = a
    b = b
    tA = tA
    tB = tB
    c1 = c1
    c2 = c2
    c3 = c3
    NoToken = NoToken
    NoConn = NoConn
    NoDriver = NoDriver
    Tokens = {tA, tB}
    Conns = {c1, c2, c3}
    Drivers = {a, b}
    Controllers = {a, b}
    Http = {a}
    TokenOf <- PairTokens
    Uses <- PairUses
    MaxFaults = 1
INVARIANTS FencingInv FencingSound ForgottenNeverHolds
PROPERTIES IncumbentKeepsField ImplementsSingleWriter
SYMMETRY ConnSymmetry
