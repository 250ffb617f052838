CONSTANTS
    app = app
    cli = cli
    e1 = e1
    e2 = e2
    reply = reply
    Conns = {app, cli}
    SerialClients = {app}
    Emitters = {e1}
    Dispatch = reply
    Silent <- NoRequests
    SendBuffer = 1
    SockRoom = 1
    MaxNotes = 3
    MaxRequests = 1
SPECIFICATION Spec
CHECK_DEADLOCK FALSE
INVARIANTS
    TypeOK
    QueueIsFaithful
    OneReply
