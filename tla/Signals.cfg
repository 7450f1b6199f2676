\* Four children, two requests; the parent may be sent SIGINT. Ended is the end of the parent.
CONSTANTS
    N = 4
    K = 2
    Interrupts = TRUE
SPECIFICATION FairSpec
INVARIANTS
    PermissionNeedsK
    ParentOutlivesChildren
PROPERTY HandshakeEnds
