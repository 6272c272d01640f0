\* One reactor, every connection announced: the request path through a socketpair
\* that holds less than a message and through one that is never full, and the replies.
SPECIFICATION SoloSpec
CONSTANTS
    Main = Main
    None = None
    c1 = c1  c2 = c2  r1 = r1
    Subjects = {"tight", "roomy", "reply"}
    Reactors = {r1}
    Conns = {c1, c2}
    Owner <- OwnerOne
    Accepted = {c1, c2}
    HdrLen = 2
    BodyLen = 1
    PipeCap = 2
    MaxMsgs = 1
    Roomy = 40
    RoomyMsgs = 2
    ReplyLen = 2
    Inherited = TRUE
INVARIANTS
    PendingIsWatched
    NeverClosed
    ClientGetsReplies
    ClosedAfterReplies
PROPERTIES
    AllDelivered
    SoloStream
    BufferDrains
    AllAnswered
CHECK_DEADLOCK FALSE
