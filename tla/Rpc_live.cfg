CONSTANTS
    app = app
    cli = cli
    e1 = e1
    e2 = e2
    reply = reply
    Conns = {app}
    SerialClients = {app}
    Emitters = {e1}
    Dispatch = reply
    Silent <- SecondIsSilent
    SendBuffer = 1
    SockRoom = 1
    MaxNotes = 3
    MaxRequests = 3
SPECIFICATION ServerSpec
CHECK_DEADLOCK FALSE
PROPERTIES
    NobodyIsStuck
