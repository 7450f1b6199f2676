\* Two clients and two slots; names may clash; one client may be interrupted.
CONSTANTS
    Clients = {c1, c2}
    Names = {ann, bob}
    NoName = NoName
    NoClient = NoClient
    MaxClients = 2
    Requests = 0
    LeastCount = 0
    Interruptible = {c1}
    Killable = {}
    Silent = {}
SPECIFICATION Spec
SYMMETRY NameSymmetry
INVARIANT RegistrySound
