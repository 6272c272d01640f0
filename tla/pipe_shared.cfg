\* Two reactors share the worker that was forked last; c1 is established, c2 arrives during the run.  A
\* behaviour goes on after two sds calls overlapped as long as no message came.
SPECIFICATION Spec
CONSTANTS
    Main = Main
    None = None
    c1 = c1  c2 = c2  r1 = r1  r2 = r2
    Reactors = {r1, r2}
    Conns = {c1, c2}
    Owner <- OwnerSplit
    Accepted = {c1}
    HdrLen = 1
    BodyLen = 1
    PipeCap = 3
    MaxMsgs = 1
    Inherited = FALSE
INVARIANTS
    TypeOK
    LockOwners
    NothingLostUnlessRaced
    DesyncHasCause
    MessagesInOrder
CONSTRAINT UpToOverlap
CHECK_DEADLOCK FALSE
