\* Two established connections of two reactors: the socketpair is closed.
SPECIFICATION Spec
CONSTANTS
    Main = Main
    None = None
    c1 = c1  c2 = c2  r1 = r1  r2 = r2
    Reactors = {r1, r2}
    Conns = {c1, c2}
    Owner <- OwnerSplit
    Accepted = {c1, c2}
    HdrLen = 1
    BodyLen = 1
    PipeCap = 6
    MaxMsgs = 1
    Inherited = TRUE
INVARIANT
    NeverClosed
CHECK_DEADLOCK FALSE
