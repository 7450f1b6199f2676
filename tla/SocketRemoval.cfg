\* Nobody leaves or stops running: nobody should be removed.
CONSTANTS
    Clients = {c1}
    Names = {ann}
    NoName = NoName
    NoClient = NoClient
    MaxClients = 1
    Requests = 1
    LeastCount = 0
    Interruptible = {}
    Killable = {}
    Silent = {}
SPECIFICATION FairSpec
PROPERTY OnlySilentRemoved
