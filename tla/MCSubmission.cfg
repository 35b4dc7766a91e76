SPECIFICATION Spec
CONSTANTS
    n1 = n1
    n2 = n2
    t1 = t1
    t2 = t2
    Nodes <- MCNodes
    Txs <- MCTxs
    MaxSessions = 3
    MaxCalls = 4
    None = None
INVARIANTS
    OutcomeTrue
    OneInFlight
PROPERTY
    Resolves
CHECK_DEADLOCK FALSE
