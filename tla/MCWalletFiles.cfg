SPECIFICATION Spec
CONSTANTS
    p1 = p1
    p2 = p2
    p3 = p3
    w1 = w1
    w2 = w2
    Procs <- MCProcs
    Paths <- MCPaths
    Prefixes <- MCPrefixes
    None = None
SYMMETRY Perms
INVARIANTS
    CreatedStays
    SelectionUsable
CHECK_DEADLOCK FALSE
