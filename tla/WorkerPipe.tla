----------------------------- MODULE WorkerPipe -----------------------------
(***************************************************************************)
(* The request path of one worker process: how the main thread and the     *)
(* reactor threads of the master hand the events of client connections to  *)
(* a worker.                                                               *)
(*                                                                         *)
(* A thread that has an event (a connection accepted, bytes received, a    *)
(* connection closed by the client) appends a frame to                     *)
(* servG->workers[w].send_buffer under w_mutex, after arming the writable  *)
(* event of the worker's socketpair on the loop of the reactor that owns   *)
(* the connection.  A reactor whose loop reports the socketpair writable   *)
(* moves bytes from send_buffer to the socketpair under r_mutex.  The      *)
(* worker reads a header and then, for a message, a body.                  *)
(*                                                                         *)
(* Frames, and the units their bytes are abstracted to, are those of       *)
(* PipeFrames; Conns are the connections whose fd % workerNum is the       *)
(* worker.                                                                 *)
(***************************************************************************)
EXTENDS PipeFrames

CONSTANTS
    Main,       \* the thread that runs the main reactor and accepts
    Reactors,   \* the reactor threads
    Owner,      \* Owner[c]: the reactor fd % reactorNum of connection c
    Accepted,   \* connections accepted and announced before the run starts
    PipeCap,    \* units the socketpair holds
    Inherited   \* a worker forked later also holds the master's end of the pair

ASSUME ThreadsAssumption == Main \notin Reactors /\ None \notin Reactors \cup {Main}
ASSUME OwnerAssumption == Owner \in [Conns -> Reactors] /\ Accepted \subseteq Conns
ASSUME PipeAssumption == PipeCap \in Nat \ {0} /\ Inherited \in BOOLEAN

VARIABLES
    conn,       \* state of each connection in the master
    received,   \* messages received so far on each connection
    buf,        \* workers[w].send_buffer
    wlock,      \* holder of workers[w].w_mutex
    rlock,      \* holder of workers[w].r_mutex
    closed,     \* the master closed pipefd[0]
    pc,         \* where each thread is
    cur,        \* the frame a thread is posting
    seen,       \* the send_buffer a thread's sds call works on
    nwritten,   \* what a reactor's last write() returned
    wmask,      \* AE_WRITABLE in events[pipefd[0]].mask of a reactor's loop
    wkern,      \* EPOLLOUT registered for pipefd[0] in a reactor's epoll set
    pipe,       \* units in the socketpair towards the worker
    wpc,        \* where the worker is
    whdr,       \* the frame whose header the worker has read
    delivered,  \* what the worker passed to onConnect, onRecv and onClose
    \* The remaining variables record history; no action tests them.
    log,        \* units committed to send_buffer, in the order of the commits
    consumed,   \* units the worker has read
    raced,      \* two sds calls have overlapped on send_buffer
    cut,        \* a write() has ended inside a frame
    desync      \* the worker has lost the frame boundaries

master == <<conn, received, cur>>
buffer == <<buf, seen, nwritten>>
locks == <<wlock, rlock>>
events == <<wmask, wkern>>
worker == <<wpc, whdr, delivered, consumed, desync>>
vars == <<master, buffer, locks, events, worker, closed, pc, pipe, log, raced, cut>>

-----------------------------------------------------------------------------

Threads == Reactors \cup {Main}

\* The pcs at which a thread holds r_mutex because it drains.
DrainPcs == {"trim", "shift", "test", "unkern", "unmask"}
Pcs == {"idle", "check", "ctl", "mask", "wlock", "store", "rlock"} \cup DrainPcs

Init ==
    /\ conn = [c \in Conns |-> IF c \in Accepted THEN "open" ELSE "new"]
    /\ received = [c \in Conns |-> 0]
    /\ buf = <<>> /\ log = <<>> /\ pipe = <<>> /\ consumed = <<>> /\ delivered = <<>>
    /\ wlock = None /\ rlock = None /\ closed = FALSE
    /\ pc = [t \in Threads |-> "idle"]
    /\ cur = [t \in Threads |-> None]
    /\ seen = [t \in Threads |-> <<>>]
    /\ nwritten = [r \in Reactors |-> 0]
    /\ wmask = [r \in Reactors |-> FALSE] /\ wkern = [r \in Reactors |-> FALSE]
    /\ wpc = "header" /\ whdr = None
    /\ raced = FALSE /\ cut = FALSE /\ desync = FALSE

-----------------------------------------------------------------------------
(* Events of the clients, which start the posting of a frame.              *)

StartPost(t, f) ==
    /\ pc[t] = "idle"
    /\ pc' = [pc EXCEPT ![t] = "check"]
    /\ cur' = [cur EXCEPT ![t] = f]
    /\ UNCHANGED <<buffer, locks, events, worker, closed, pipe, log, raced, cut>>

\* acceptCommonHandler makes the connection readable for its reactor first
\* and posts CONNECT afterwards.
Accept(c) ==
    /\ conn[c] = "new"
    /\ conn' = [conn EXCEPT ![c] = "open"]
    /\ StartPost(Main, [conn |-> c, type |-> "connect", num |-> 0])
    /\ UNCHANGED received

\* Mistake: a connection the client closed is still read.
ClientDataAnyState(c) ==
    /\ received[c] < MaxMsgs
    /\ received' = [received EXCEPT ![c] = @ + 1]
    /\ StartPost(Owner[c], [conn |-> c, type |-> "message", num |-> received[c] + 1])
    /\ UNCHANGED conn

\* onClientReadable, nread > 0: createWorkerTask posts MESSAGE.
ClientData(c) ==
    /\ conn[c] = "open" /\ received[c] < MaxMsgs
    /\ received' = [received EXCEPT ![c] = @ + 1]
    /\ StartPost(Owner[c], [conn |-> c, type |-> "message", num |-> received[c] + 1])
    /\ UNCHANGED conn

\* onClientReadable, nread = 0: onCloseByClient posts CLOSE.
ClientGone(c) ==
    /\ conn[c] = "open"
    /\ StartPost(Owner[c], [conn |-> c, type |-> "close", num |-> 0])
    /\ UNCHANGED <<conn, received>>

-----------------------------------------------------------------------------
(* Posting a frame.                                                        *)

\* A thread is inside sdscatlen or sdsrange, so that sdslen read by another
\* thread may be the old length, the new one, or that of a freed string.
Mutating == \E t \in Threads : pc[t] \in {"shift", "store"}

\* Mistake: the test runs after the append, when the buffer is never empty.
CheckAfterAppend(t) ==
    /\ pc[t] = "check"
    /\ pc' = [pc EXCEPT ![t] = "wlock"]
    /\ UNCHANGED <<master, buffer, locks, events, worker, closed, pipe, log, raced, cut>>

\* setPipeWritable's test, which takes no lock.
CheckEmpty(t) ==
    /\ pc[t] = "check"
    /\ \E empty \in IF Mutating THEN BOOLEAN ELSE {buf = <<>>} :
          pc' = [pc EXCEPT ![t] = IF empty THEN "ctl" ELSE "wlock"]
    /\ UNCHANGED <<master, buffer, locks, events, worker, closed, pipe, log, raced, cut>>

\* aeCreateFileEvent on the loop of the connection's reactor: epoll_ctl ...
ArmKernel(t) ==
    /\ pc[t] = "ctl"
    /\ IF closed
         THEN pc' = [pc EXCEPT ![t] = "wlock"] /\ UNCHANGED wkern  \* EBADF
         ELSE /\ pc' = [pc EXCEPT ![t] = "mask"]
              /\ wkern' = [wkern EXCEPT ![Owner[cur[t].conn]] = TRUE]
    /\ UNCHANGED <<master, buffer, locks, wmask, worker, closed, pipe, log, raced, cut>>

\* Mistake: the loop's own mask is not set.
ArmMaskForgotten(t) ==
    /\ pc[t] = "mask"
    /\ pc' = [pc EXCEPT ![t] = "wlock"]
    /\ UNCHANGED <<master, buffer, locks, events, worker, closed, pipe, log, raced, cut>>

\* ... and then the mask of the loop's own table, with the handler and its
\* argument, which are the same every time.
ArmMask(t) ==
    /\ pc[t] = "mask"
    /\ wmask' = [wmask EXCEPT ![Owner[cur[t].conn]] = TRUE]
    /\ pc' = [pc EXCEPT ![t] = "wlock"]
    /\ UNCHANGED <<master, buffer, locks, wkern, worker, closed, pipe, log, raced, cut>>

\* Mistake: the append does not wait for w_mutex.
LockAppendUnguarded(t) ==
    /\ pc[t] = "wlock"
    /\ wlock' = t
    /\ seen' = [seen EXCEPT ![t] = buf]
    /\ pc' = [pc EXCEPT ![t] = "store"]
    /\ UNCHANGED <<master, buf, nwritten, rlock, events, worker, closed, pipe, log, raced, cut>>

\* pthread_mutex_lock(&w_mutex); sdscatlen starts from the string it finds.
LockAppend(t) ==
    /\ pc[t] = "wlock" /\ wlock = None
    /\ wlock' = t
    /\ seen' = [seen EXCEPT ![t] = buf]
    /\ pc' = [pc EXCEPT ![t] = "store"]
    /\ UNCHANGED <<master, buf, nwritten, rlock, events, worker, closed, pipe, log, raced, cut>>

\* What sdscatlen(s, f) leaves behind when the string was now at its end:
\* the plain concatenation when nobody trimmed it in between; otherwise the
\* trim is undone (the string had been reallocated), or the tail of the old
\* bytes is left in front of f (the length was taken before the trim).
Concatenations(s, now, f) ==
    IF now = s
      THEN {s \o Units(f)}
      ELSE {s \o Units(f), now \o Drop(s, Len(now)) \o Units(f)}

\* sdscatlen's result is stored and w_mutex released; onCloseByClient then
\* frees the connection.
StoreAppend(t) ==
    /\ pc[t] = "store"
    /\ buf' \in Concatenations(seen[t], buf, cur[t])
    /\ raced' = (raced \/ buf # seen[t])
    /\ log' = log \o Units(cur[t])
    /\ wlock' = None
    /\ pc' = [pc EXCEPT ![t] = "idle"]
    /\ cur' = [cur EXCEPT ![t] = None]
    /\ seen' = [seen EXCEPT ![t] = <<>>]
    /\ conn' = IF cur[t].type = "close"
                 THEN [conn EXCEPT ![cur[t].conn] = "closed"]
                 ELSE conn
    /\ UNCHANGED <<received, nwritten, rlock, events, worker, closed, pipe, cut>>

-----------------------------------------------------------------------------
(* Draining send_buffer: onMasterPipeWritable.                             *)

\* Mistake: the handler runs although the socketpair is full.
DispatchWhenFull(r) ==
    /\ pc[r] = "idle"
    /\ wkern[r] /\ wmask[r]
    /\ pc' = [pc EXCEPT ![r] = "rlock"]
    /\ UNCHANGED <<master, buffer, locks, events, worker, closed, pipe, log, raced, cut>>

\* epoll_wait reports the socketpair and aeProcessEvents finds the mask set.
Dispatch(r) ==
    /\ pc[r] = "idle"
    /\ wkern[r] /\ wmask[r] /\ Len(pipe) < PipeCap
    /\ pc' = [pc EXCEPT ![r] = "rlock"]
    /\ UNCHANGED <<master, buffer, locks, events, worker, closed, pipe, log, raced, cut>>

Writable == Least(Len(buf), PipeCap - Len(pipe))

\* write() moves nothing (an empty buffer, or EAGAIN): the handler closes the
\* socketpair and returns with r_mutex held.  The kernel forgets the
\* registrations when no other process holds that end.
LockWriteNothing(r) ==
    /\ pc[r] = "rlock" /\ rlock = None
    /\ Writable = 0
    /\ rlock' = r
    /\ closed' = TRUE
    /\ wkern' = IF Inherited THEN wkern ELSE [q \in Reactors |-> FALSE]
    /\ pc' = [pc EXCEPT ![r] = "idle"]
    /\ UNCHANGED <<master, buffer, wlock, wmask, worker, pipe, log, raced, cut>>

\* write() moves what fits.  During a sdscatlen of another thread it may
\* instead read the string that was reallocated.
LockWrite(r) ==
    LET n == Writable
        appending == wlock # None
    IN /\ pc[r] = "rlock" /\ rlock = None
       /\ n > 0
       /\ rlock' = r
       /\ nwritten' = [nwritten EXCEPT ![r] = n]
       /\ \E out \in {Take(buf, n)}
                       \cup (IF appending THEN {[i \in 1..n |-> Junk]} ELSE {}) :
             pipe' = pipe \o out
       /\ raced' = (raced \/ appending)
       /\ cut' = (cut \/ (buf[n] # Junk /\ buf[n].pos < FrameLen(buf[n].frame)))
       /\ pc' = [pc EXCEPT ![r] = "trim"]
       /\ UNCHANGED <<master, buf, seen, wlock, events, worker, closed, log>>

\* sdsrange starts from the string and length it finds.
StartTrim(r) ==
    /\ pc[r] = "trim"
    /\ seen' = [seen EXCEPT ![r] = buf]
    /\ pc' = [pc EXCEPT ![r] = "shift"]
    /\ UNCHANGED <<master, buf, nwritten, locks, events, worker, closed, pipe, log, raced, cut>>

\* Mistakes: sdsclear in place of sdsrange; a trim of another copy.
TrimsAll(s, now, n) == {<<>>}
TrimsNothing(s, now, n) == {now}

\* What sdsrange(s, n, -1) leaves behind when the string was now at its end:
\* without an append in between, the rest of the string; otherwise the append
\* is lost, the trim is lost (it went to the freed string), or both count.
Trims(s, now, n) ==
    IF now = s THEN {Drop(s, n)} ELSE {Drop(s, n), now, Drop(now, n)}

FinishTrim(r) ==
    /\ pc[r] = "shift"
    /\ buf' \in Trims(seen[r], buf, nwritten[r])
    /\ raced' = (raced \/ buf # seen[r])
    /\ seen' = [seen EXCEPT ![r] = <<>>]
    /\ pc' = [pc EXCEPT ![r] = "test"]
    /\ UNCHANGED <<master, nwritten, locks, events, worker, closed, pipe, log, cut>>

\* Mistake: the event is removed whatever is left.
TestAlwaysRemoves(r) ==
    /\ pc[r] = "test"
    /\ pc' = [pc EXCEPT ![r] = "unkern"]
    /\ UNCHANGED <<master, buffer, locks, events, worker, closed, pipe, log, raced, cut>>

\* if send_buffer no data need send, remove writable event
TestEmpty(r) ==
    /\ pc[r] = "test"
    /\ \E empty \in IF wlock # None THEN BOOLEAN ELSE {buf = <<>>} :
          /\ pc' = [pc EXCEPT ![r] = IF empty THEN "unkern" ELSE "idle"]
          /\ rlock' = IF empty THEN rlock ELSE None
    /\ UNCHANGED <<master, buffer, wlock, events, worker, closed, pipe, log, raced, cut>>

\* aeDeleteFileEvent on the reactor's own loop: epoll_ctl ...
DisarmKernel(r) ==
    /\ pc[r] = "unkern"
    /\ wkern' = [wkern EXCEPT ![r] = FALSE]
    /\ pc' = [pc EXCEPT ![r] = "unmask"]
    /\ UNCHANGED <<master, buffer, locks, wmask, worker, closed, pipe, log, raced, cut>>

\* ... then the mask, and r_mutex is released.
DisarmMask(r) ==
    /\ pc[r] = "unmask"
    /\ wmask' = [wmask EXCEPT ![r] = FALSE]
    /\ rlock' = None
    /\ pc' = [pc EXCEPT ![r] = "idle"]
    /\ UNCHANGED <<master, buffer, wlock, wkern, worker, closed, pipe, log, raced, cut>>

-----------------------------------------------------------------------------
(* The worker: onWorkerPipeReadable and readWorkerBodyFromPipe.            *)

Consume(n) ==
    /\ consumed' = consumed \o Take(pipe, n)
    /\ pipe' = Drop(pipe, n)
    /\ UNCHANGED <<master, buffer, locks, events, closed, pc, log, raced, cut>>

Deliver(f, n) == delivered' = Append(delivered, [frame |-> f, got |-> n])

\* Mistake: the header is read with a buffer larger than a header.
ReadHeaderGreedy ==
    LET f == HeaderOf(Take(pipe, Least(HdrLen, Len(pipe))))
    IN /\ wpc = "header" /\ pipe # <<>>
       /\ f # None
       /\ Consume(Least(HdrLen + 1, Len(pipe)))
       /\ IF f.type = "message"
            THEN wpc' = "body" /\ whdr' = f /\ UNCHANGED delivered
            ELSE Deliver(f, 0) /\ UNCHANGED <<wpc, whdr>>
       /\ UNCHANGED desync

\* A header that starts a frame: CONNECT and CLOSE are delivered at once, the
\* body of a MESSAGE needs another read().
ReadHeader ==
    LET f == HeaderOf(Take(pipe, Least(HdrLen, Len(pipe))))
    IN /\ wpc = "header" /\ pipe # <<>>
       /\ f # None
       /\ Consume(HdrLen)
       /\ IF f.type = "message"
            THEN wpc' = "body" /\ whdr' = f /\ UNCHANGED delivered
            ELSE Deliver(f, 0) /\ UNCHANGED <<wpc, whdr>>
       /\ UNCHANGED desync

\* Fewer bytes than a header are read and dropped; a whole header's worth of
\* other bytes is taken for one: an unknown type that is ignored, or a frame
\* of any type and length.
ReadGarbage ==
    LET k == Least(HdrLen, Len(pipe))
    IN /\ wpc = "header" /\ pipe # <<>>
       /\ HeaderOf(Take(pipe, k)) = None
       /\ \E more \in 0..(IF k < HdrLen THEN 0 ELSE Least(BodyLen, Len(pipe) - k)) :
             Consume(k + more)
       /\ \/ UNCHANGED delivered
          \/ k = HdrLen /\ Deliver(None, 0)
       /\ desync' = TRUE
       /\ UNCHANGED <<wpc, whdr>>

\* One read() for the body, and onRecv whatever it returned.
ReadBody ==
    LET k == Least(BodyLen, Len(pipe))
        whole == Take(pipe, k) = Drop(Units(whdr), HdrLen)
    IN /\ wpc = "body"
       /\ Consume(k)
       /\ Deliver(whdr, k)
       /\ wpc' = "header" /\ whdr' = None
       /\ desync' = (desync \/ ~whole)

\* read() returns 0 once the master's end is closed everywhere.
ReadEof ==
    /\ wpc = "header" /\ pipe = <<>> /\ closed /\ ~Inherited
    /\ wpc' = "eof"
    /\ UNCHANGED <<whdr, delivered, desync, consumed, pipe>>
    /\ UNCHANGED <<master, buffer, locks, events, closed, pc, log, raced, cut>>

-----------------------------------------------------------------------------

Client == \E c \in Conns : Accept(c) \/ ClientData(c) \/ ClientGone(c)

Post(t) == \/ CheckEmpty(t) \/ ArmKernel(t) \/ ArmMask(t)
           \/ LockAppend(t) \/ StoreAppend(t)

Drain(r) == \/ Dispatch(r) \/ LockWriteNothing(r) \/ LockWrite(r)
            \/ StartTrim(r) \/ FinishTrim(r) \/ TestEmpty(r)
            \/ DisarmKernel(r) \/ DisarmMask(r)

WorkerStep == ReadHeader \/ ReadGarbage \/ ReadBody \/ ReadEof

Next == \/ Client
        \/ \E t \in Threads : Post(t)
        \/ \E r \in Reactors : Drain(r)
        \/ WorkerStep

Spec == Init /\ [][Next]_vars

\* Every thread and the worker run their loops; clients promise nothing.
Fairness == /\ \A t \in Threads : WF_vars(Post(t))
            /\ \A r \in Reactors : WF_vars(Drain(r))
            /\ WF_vars(WorkerStep)

FairSpec == Spec /\ Fairness

-----------------------------------------------------------------------------
(* Invariants and action properties of every instance.                     *)

\* Every variable has the type its C counterpart can hold (aeserver.h:66-98).
TypeOK ==
    /\ conn \in [Conns -> {"new", "open", "closed"}]
    /\ received \in [Conns -> 0..MaxMsgs]
    /\ buf \in Seq(Unit) /\ pipe \in Seq(Unit)
    /\ log \in Seq(Unit) /\ consumed \in Seq(Unit)
    /\ wlock \in Threads \cup {None} /\ rlock \in Reactors \cup {None}
    /\ closed \in BOOLEAN
    /\ pc \in [Threads -> Pcs]
    /\ cur \in [Threads -> Frame \cup {None}]
    /\ seen \in [Threads -> Seq(Unit)]
    /\ nwritten \in [Reactors -> Nat]
    /\ wmask \in [Reactors -> BOOLEAN] /\ wkern \in [Reactors -> BOOLEAN]
    /\ wpc \in {"header", "body", "eof"} /\ whdr \in Frame \cup {None}
    /\ delivered \in Seq([frame : Frame \cup {None}, got : Nat])
    /\ raced \in BOOLEAN /\ cut \in BOOLEAN /\ desync \in BOOLEAN

\* w_mutex admits one append at a time and r_mutex one drain; r_mutex is held
\* outside a drain exactly when a failed write() has returned with it held,
\* and that is when the socketpair is closed (aeserver.c:661-678).
LockOwners ==
    /\ \A t \in Threads : pc[t] = "store" <=> wlock = t
    /\ \A r \in Reactors : pc[r] \in DrainPcs => rlock = r
    /\ rlock # None => (closed <=> pc[rlock] \notin DrainPcs)
    /\ closed => rlock # None

\* The bytes of send_buffer that no write() has taken yet: between write()
\* and the end of sdsrange the buffer still begins with what was written.
Unsent ==
    IF rlock # None /\ pc[rlock] \in {"trim", "shift"}
      THEN Drop(buf, nwritten[rlock])
      ELSE buf

\* As long as no two sds calls overlap, no byte is lost, repeated or moved on
\* its way through send_buffer and the socketpair, although appends and
\* drains hold different mutexes and interleave (aeserver.c:141, 207, 408
\* against 661-671).
NothingLostUnlessRaced ==
    ~raced => log = consumed \o pipe \o Unsent

\* The worker can only lose the frame boundaries if a write() stopped inside
\* a frame or two sds calls overlapped: headers and bodies are read with
\* separate read() calls that do not wait for the rest (worker.c:146, 181).
DesyncHasCause == desync => raced \/ cut

\* While neither happened, the worker sees the messages of a connection in
\* the order they were received, and its close after all of them.
MessagesInOrder ==
    ~(raced \/ cut) =>
      \A j \in 1..Len(delivered) : \A i \in 1..j - 1 :
        LET e == delivered[i].frame
            f == delivered[j].frame
        IN  e.conn = f.conn /\ "connect" \notin {e.type, f.type}
              => e.type = "message" /\ (f.type = "message" => e.num < f.num)

\* When no thread is in the middle of a step, bytes that wait in send_buffer
\* have a reactor whose loop watches the socketpair for writing: "if
\* send_buffer no data need send, remove writable event" (aeserver.c:673).
PendingIsWatched ==
    /\ buf # <<>> /\ ~closed
    /\ \A t \in Threads : pc[t] = "idle"
    => \E r \in Reactors : wmask[r] /\ wkern[r]

\* The master's end of the socketpair stays open: the handler closes it for
\* a "pipe fd error" (aeserver.c:663), and no error of the descriptor is
\* among the steps of this module.
NeverClosed == ~closed

-----------------------------------------------------------------------------
(* Liveness and the abstract specification, which hold when every append   *)
(* and every drain run on one thread and the socketpair is never full.     *)

Delivered(f) ==
    \E i \in 1..Len(delivered) : delivered[i] = [frame |-> f, got |-> FrameLen(f) - HdrLen]

\* Bytes never stay in send_buffer for ever, even when the socketpair is
\* full now and then.
BufferDrains == buf # <<>> ~> buf = <<>>

\* The frames that begin in s, in order.
FramesOf(s) ==
    LET begun[n \in 0..Len(s)] == IF n = 0 THEN <<>>
                                  ELSE IF s[n].pos = 1 THEN Append(begun[n - 1], s[n].frame)
                                  ELSE begun[n - 1]
    IN begun[Len(s)]

\* The frame of a callback that got all of it.
Whole(e) == IF e.frame # None /\ e.got = FrameLen(e.frame) - HdrLen THEN e.frame ELSE None

\* The frames that the worker's callbacks got.
Handed == [i \in 1..Len(delivered) |-> Whole(delivered[i])]

\* The request path as a reliable, ordered stream of events.
Stream == INSTANCE EventStream WITH Frames <- Frame, posted <- FramesOf(log), got <- Handed
=============================================================================
