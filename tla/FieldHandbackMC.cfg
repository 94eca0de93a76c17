SPECIFICATION FairHandbackSpec
CONSTANTS
    a = a
    tool = tool
    tA = tA
    tTool = tTool
    NoToken = NoToken
    NoConn = NoConn
    NoDriver = NoDriver
    Tokens = {tA, tTool}
    Conns = {c1, c2, c3}
    Drivers = {a, tool}
    Controllers = {a}
    Http = {}
    TokenOf <- ToolTokens
    Uses <- HandbackUses
    MaxFaults = 1
INVARIANTS HandedBackStaysForgotten ForgottenNeverHolds
PROPERTIES IncumbentKeepsField RecordedTokenResolves
