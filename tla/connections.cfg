\* Two reactors read the replies of one worker from a socketpair that fills up; and
\* two clients come and go in a table whose limit is one connection.
SPECIFICATION ConnSpec
CONSTANTS
    Subjects = {"replies", "table"}
    MaxWaiting = 2
    None = None
    c1 = c1  c2 = c2  r1 = r1  r2 = r2
    Reactors = {r1, r2}
    Conns = {c1, c2}
    Owner <- OwnerSplit
    Http = {c2}
    HdrLen = 1
    BodyLen = 1
    PipeCap = 4
    MaxMsgs = 2
    ReactorIds = {0, 1}
    FirstFd = 1
    maxConnect = 1
    Refusals = TRUE
    HttpClients = {1}
    MaxClients = 2
INVARIANTS
    TypeOK
    WorkerArmed
    DesyncHasCause
    OnlyOverlapsHarm
    
    OnlyCrossingsHarm
    CountRight
CHECK_DEADLOCK FALSE
