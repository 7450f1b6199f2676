\* A local and an INET client, two slots; names may clash; the local client may
\* be interrupted, the other be killed or hang.
CONSTANTS
    Clients = {c1, c2}
    Local = {c1}
    Names = {ann, bob}
    NoName = NoName
    NoClient = NoClient
    MaxClients = 2
    Requests = 1
    Interruptible = {c1}
    Killable = {c2}
    Silent = {c2}
    FirstClient = c1
    FirstName = ann
SPECIFICATION MCFairSpec
INVARIANT RegistrySound
PROPERTIES
    FallsOnlyWithCause
    SilentRemoved
    RegistrationAnswered
