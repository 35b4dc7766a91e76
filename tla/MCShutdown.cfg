SPECIFICATION ControlSpec
CONSTANTS
    r1 = r1
    r2 = r2
    r3 = r3
    c1 = c1
    c2 = c2
    Runs <- MCRuns
    Self = r1
    Given = Given
    None = None
    Clients <- MCClients
    Processes <- MCMiner
PROPERTY
    ShutdownCompletes
CHECK_DEADLOCK FALSE
