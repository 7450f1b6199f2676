\* Both programs: two clients of two requests each, a queue of two messages;
\* clients and server may be interrupted.
CONSTANTS
    Clients = {c1, c2}
    Variants = {TRUE, FALSE}
    Capacity = 2
    Requests = 2
    Interruptible = {c1, c2}
    ServerInterrupts = TRUE
SPECIFICATION FairSpec
INVARIANTS
    RequestAccounted
    NumbersDistinct
    FailsOnlyForLeavers
PROPERTIES
    ImplementsService
    Served
