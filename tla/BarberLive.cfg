\* Three clients that come back, one chair, first-come-first-served semaphores.
CONSTANTS
    Clients <- MCPids
    ClientKey <- MCNames
    Chairs = 1
    Repeats = 2
SPECIFICATION FairSpec
INVARIANTS
    TypeOK
    IInv
PROPERTY EveryoneServed
