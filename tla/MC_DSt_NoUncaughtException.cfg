CONSTANTS
    StartPorts <- MCStartPorts
    PortRange <- MCPortRange
    ChurnPorts <- MCChurnPorts
    Built <- MCBuilt
    Volatile <- MCVolatile
    MaxRuns = 2
    MaxDataVer = 1
SPECIFICATION Spec
INVARIANT NoUncaughtException
