CONSTANTS
    Files <- MCFiles
    Mutable <- MCMutable
    Paths <- MCLivePaths
    Methods <- MCMethods
    Clients = {c1, c2}
    None = None
    Aborted = Aborted
    Reset = Reset
SPECIFICATION FairSpec
PROPERTY
    OnlySilentClientsStarve
