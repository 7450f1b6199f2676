\* Four clients, two chairs: queues of two, and clients turned away.
CONSTANTS
    Clients <- MCFourPids
    ClientKey <- MCFourNames
    Chairs = 2
    Repeats = 1
SPECIFICATION Spec
INVARIANTS
    AssertsHold
    MutualExclusion
    NoLostWakeup
    PeekStillTrue
    QueueSound
PROPERTY ImplementsShop
