CONSTANTS
    Files <- MCFiles
    Mutable <- MCMutable
    Paths <- MCPaths
    Methods <- MCMethods
    Clients = {c1, c2}
    None = None
    Aborted = Aborted
    Reset = Reset
SYMMETRY ClientSymmetry
SPECIFICATION Spec
INVARIANT
    LogClassifiedByStatus
