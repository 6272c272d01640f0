\* Two reactors read the replies of one worker.
SPECIFICATION ConnSpec
CONSTANTS
    Subjects = {"replies"}
    MaxWaiting = 2
    None = None
    c1 = c1  c2 = c2  r1 = r1  r2 = r2
    Reactors = {r1, r2}
    Conns = {c1, c2}
    Owner <- OwnerSplit
    Http = {}
    HdrLen = 2
    BodyLen = 1
    PipeCap = 20
    MaxMsgs = 1
    ReactorIds = {0, 1}
    FirstFd = 1
    maxConnect = 1
    Refusals = TRUE
    HttpClients = {1}
    MaxClients = 2
INVARIANTS
    ClientGetsReplies
CHECK_DEADLOCK FALSE
