SPECIFICATION HandbackSpec
CONSTANTS
    a = a
    tool = tool
    tA = tA
    tTool = tTool
    NoToken = NoToken
    NoConn = NoConn
    NoDriver = NoDriver
    Tokens = {tA, tTool}
    Conns = {c1, c2, c3}
    Drivers = {a, tool}
    Controllers = {a}
    Http = {a}
    TokenOf <- ToolTokens
    Uses <- HandbackUses
    MaxFaults = 1
INVARIANTS HandedBackStaysForgotten
