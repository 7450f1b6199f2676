\* One client to which anything may happen, two slots and two requests.
CONSTANTS
    Clients = {c2}
    Names = {ann}
    NoName = NoName
    NoClient = NoClient
    MaxClients = 2
    Requests = 2
    LeastCount = 0
    Interruptible = {c2}
    Killable = {c2}
    Silent = {c2}
SPECIFICATION FairSpec
PROPERTY SilentRemoved
