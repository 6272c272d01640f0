----------------------------- MODULE ReplyPipe -----------------------------
(***************************************************************************)
(* The reply path of one worker process.  The worker appends MESSAGE and   *)
(* CLOSE frames to its own send_buffer and writes it to its end of the     *)
(* socketpair.  Every reactor thread of the master watches the other end:  *)
(* whichever wakes reads a header, then the body, appends the body to the  *)
(* connection's send_buffer and arms the writable event of the client's    *)
(* socket on its own loop.  No lock protects any of this.                  *)
(*                                                                         *)
(* Clients neither close nor fail here, and the worker posts nothing for a *)
(* connection after it has posted its CLOSE.                               *)
(***************************************************************************)
EXTENDS PipeFrames

CONSTANTS
    Reactors,   \* the reactor threads
    Owner,      \* Owner[c]: the reactor fd % reactorNum of connection c
    Http,       \* connections whose protoType is HTTP
    PipeCap     \* units the socketpair holds

ASSUME ReactorsAssumption == None \notin Reactors \cup Conns
ASSUME OwnerAssumption == Owner \in [Conns -> Reactors] /\ Http \subseteq Conns
ASSUME PipeAssumption == PipeCap \in Nat \ {0}

VARIABLES
    sent,       \* messages the worker has posted to each connection
    closing,    \* connections the worker has closed
    wbuf,       \* servG->worker->send_buffer
    warmed,     \* AE_WRITABLE registered for pipefd on the worker's loop
    pipe,       \* units in the socketpair towards the master
    rpc,        \* where each reactor is
    at,         \* the connection a reactor works on
    data,       \* the units a reactor has read, or how many it has written
    seen,       \* the send_buffer a reactor's sdscatlen works on
    out,        \* connlist[c].send_buffer
    disable,    \* connlist[c].disable: 0 open, 1 freed, 2 to be freed once sent
    watched,    \* connections whose AE_WRITABLE is registered on a loop
    client,     \* units written to the client's socket
    freed,      \* connections whose buffers freeClient has released
    \* The remaining variables record history; no action tests them.
    owed,       \* units of the messages posted to each connection
    cut,        \* a write() of the worker has ended inside a frame
    mixed,      \* a reactor has read between another's header and body
    desync,     \* bytes were taken for a header or a body that they are not
    overlap,    \* a handler of one reactor has begun within another's
    stale       \* freed connections that a handler has used

workerVars == <<sent, closing, wbuf, warmed, owed, cut>>
threadVars == <<rpc, at, data, seen>>
connVars == <<out, disable, watched, client, freed>>
histVars == <<mixed, overlap, desync, stale>>
vars == <<workerVars, threadVars, connVars, histVars, pipe>>

-----------------------------------------------------------------------------

Init ==
    /\ sent = [c \in Conns |-> 0] /\ closing = {}
    /\ wbuf = <<>> /\ warmed = FALSE /\ pipe = <<>>
    /\ rpc = [r \in Reactors |-> "idle"]
    /\ at = [r \in Reactors |-> None]
    /\ data = [r \in Reactors |-> <<>>]
    /\ seen = [r \in Reactors |-> <<>>]
    /\ out = [c \in Conns |-> <<>>]
    /\ disable = [c \in Conns |-> 0]
    /\ watched = [r \in Reactors |-> {}]
    /\ client = [c \in Conns |-> <<>>]
    /\ owed = [c \in Conns |-> <<>>]
    /\ cut = FALSE /\ mixed = FALSE /\ overlap = FALSE /\ desync = FALSE
    /\ freed = {} /\ stale = {}

Body(f) == Drop(Units(f), HdrLen)

-----------------------------------------------------------------------------
(* The worker.                                                             *)

\* Register the writable event if the buffer is empty, then append.
Post(f) ==
    /\ warmed' = (warmed \/ wbuf = <<>>)
    /\ wbuf' = wbuf \o Units(f)

\* sendMessageToReactor
Reply(c) ==
    LET f == [conn |-> c, type |-> "message", num |-> sent[c] + 1]
    IN /\ c \notin closing /\ sent[c] < MaxMsgs
       /\ sent' = [sent EXCEPT ![c] = @ + 1]
       /\ owed' = [owed EXCEPT ![c] = @ \o Body(f)]
       /\ Post(f)
       /\ UNCHANGED <<closing, cut, threadVars, connVars, pipe, histVars>>

\* sendCloseEventToReactor and send2ReactorThread
Close(c) ==
    /\ c \notin closing
    /\ closing' = closing \cup {c}
    /\ Post([conn |-> c, type |-> "close", num |-> 0])
    /\ UNCHANGED <<sent, owed, cut, threadVars, connVars, pipe, histVars>>

\* Mistake: the event is removed although bytes are left.
WorkerWriteOnce ==
    LET n == Least(Len(wbuf), PipeCap - Len(pipe))
    IN /\ warmed /\ n > 0
       /\ pipe' = pipe \o Take(wbuf, n)
       /\ wbuf' = Drop(wbuf, n)
       /\ warmed' = FALSE
       /\ cut' = (cut \/ wbuf[n].pos < FrameLen(wbuf[n].frame))
       /\ UNCHANGED <<sent, closing, owed, threadVars, connVars, histVars>>

\* onWorkerPipeWritable: a write() that moves nothing changes nothing.
WorkerWrite ==
    LET n == Least(Len(wbuf), PipeCap - Len(pipe))
    IN /\ warmed /\ n > 0
       /\ pipe' = pipe \o Take(wbuf, n)
       /\ wbuf' = Drop(wbuf, n)
       /\ warmed' = (wbuf' # <<>>)
       /\ cut' = (cut \/ wbuf[n].pos < FrameLen(wbuf[n].frame))
       /\ UNCHANGED <<sent, closing, owed, threadVars, connVars, histVars>>

-----------------------------------------------------------------------------
(* A reactor reads the socketpair: onMasterPipeReadable, readBodyFromPipe. *)

Go(r, p, c) == rpc' = [rpc EXCEPT ![r] = p] /\ at' = [at EXCEPT ![r] = c]

\* Another reactor has read a header and not yet its body.
Interrupts(r) == \E q \in Reactors \ {r} : rpc[q] = "body"

\* A handler begins while another reactor is within one.
Begin(r) ==
    /\ rpc[r] = "idle"
    /\ overlap' = (overlap \/ \E q \in Reactors \ {r} : rpc[q] # "idle")

\* Mistake: a header is taken to be a byte shorter than it is sent.
ReadHeaderShort(r) ==
    LET f == HeaderOf(Take(pipe, Least(HdrLen, Len(pipe))))
    IN /\ Begin(r) /\ pipe # <<>>
       /\ f # None
       /\ pipe' = Drop(pipe, HdrLen - 1)
       /\ Go(r, IF f.type = "message" THEN "body" ELSE "close", f.conn)
       /\ data' = [data EXCEPT ![r] = Body(f)]
       /\ mixed' = (mixed \/ Interrupts(r))
       /\ UNCHANGED <<workerVars, connVars, seen, desync, stale>>

\* read() of a header that starts a frame.
ReadHeader(r) ==
    LET f == HeaderOf(Take(pipe, Least(HdrLen, Len(pipe))))
    IN /\ Begin(r) /\ pipe # <<>>
       /\ f # None
       /\ pipe' = Drop(pipe, HdrLen)
       /\ Go(r, IF f.type = "message" THEN "body" ELSE "close", f.conn)
       /\ data' = [data EXCEPT ![r] = Body(f)]
       /\ mixed' = (mixed \/ Interrupts(r))
       /\ UNCHANGED <<workerVars, connVars, seen, desync, stale>>

\* Fewer bytes than a header are dropped; other bytes are taken for a header
\* of an unknown type, which is ignored, or of a message to any connection, or
\* of the close of any.
ReadGarbage(r) ==
    LET k == Least(HdrLen, Len(pipe))
    IN /\ Begin(r) /\ pipe # <<>>
       /\ HeaderOf(Take(pipe, k)) = None
       /\ pipe' = Drop(pipe, k)
       /\ \/ UNCHANGED <<rpc, at>>
          \/ k = HdrLen /\ \E c \in Conns, p \in {"body", "close"} : Go(r, p, c)
       /\ data' = [data EXCEPT ![r] = <<>>]
       /\ mixed' = (mixed \/ Interrupts(r))
       /\ desync' = TRUE
       /\ UNCHANGED <<workerVars, connVars, seen, stale>>

\* sdslen of a send_buffer that another reactor is appending to.
Mutating(r, c) == \E q \in Reactors \ {r} : rpc[q] = "store" /\ at[q] = c

\* What read() may return for the body of the header that was read: as many
\* bytes as data.len says, which is anything when the header was garbage.
BodyRead(r) ==
    IF data[r] # <<>> \/ pipe = <<>>
      THEN {Least(BodyLen, Len(pipe))}
      ELSE 1..Len(pipe)

\* read() the body; if the connection's send_buffer is empty, register its
\* writable event on this reactor's loop.  EAGAIN drops the message.
ReadBody(r) ==
    LET c == at[r]
    IN /\ rpc[r] = "body"
       /\ \E k \in BodyRead(r) :
             /\ pipe' = Drop(pipe, k)
             /\ data' = [data EXCEPT ![r] = Take(pipe, k)]
             /\ desync' = (desync \/ Take(pipe, k) # data[r])
       /\ mixed' = (mixed \/ Interrupts(r))
       /\ \/ pipe = <<>> /\ Go(r, "idle", None) /\ UNCHANGED <<watched, stale>>
          \/ /\ pipe # <<>> /\ c \notin freed
             /\ Go(r, "append", c)
             /\ \E empty \in IF Mutating(r, c) THEN BOOLEAN ELSE {out[c] = <<>>} :
                   watched' = IF empty THEN [watched EXCEPT ![r] = @ \cup {c}] ELSE watched
             /\ UNCHANGED stale
          \/ /\ pipe # <<>> /\ c \in freed
             /\ Go(r, "idle", None)
             /\ stale' = stale \cup {c}
             /\ UNCHANGED watched
       /\ UNCHANGED <<workerVars, out, disable, client, freed, seen, overlap>>

\* sdscatlen starts from the string it finds ...
AppendStart(r) ==
    /\ rpc[r] = "append"
    /\ seen' = [seen EXCEPT ![r] = out[at[r]]]
    /\ rpc' = [rpc EXCEPT ![r] = "store"]
    /\ UNCHANGED <<workerVars, connVars, at, data, pipe, histVars>>

\* ... and stores its result.  If the string changed in between, either call
\* may be the one that is lost.
AppendStore(r) ==
    LET c == at[r]
    IN /\ rpc[r] = "store"
       /\ IF c \in freed
            THEN stale' = stale \cup {c} /\ UNCHANGED out
            ELSE /\ out' \in { [out EXCEPT ![c] = s] :
                                 s \in IF out[c] = seen[r]
                                         THEN {seen[r] \o data[r]}
                                         ELSE {seen[r] \o data[r], out[c] \o data[r], out[c]} }
                 /\ UNCHANGED stale
       /\ Go(r, "idle", None)
       /\ data' = [data EXCEPT ![r] = <<>>]
       /\ seen' = [seen EXCEPT ![r] = <<>>]
       /\ UNCHANGED <<workerVars, disable, watched, client, freed, pipe, mixed, overlap, desync>>

\* freeClient: the events of the owner's loop are deleted, and the kernel
\* forgets those of the others when the descriptor is closed.
Free(c) ==
    /\ disable' = [disable EXCEPT ![c] = 1]
    /\ out' = [out EXCEPT ![c] = <<>>]
    /\ watched' = [r \in Reactors |-> watched[r] \ {c}]
    /\ freed' = freed \cup {c}

\* Mistake: a CLOSE frees the connection whatever is left to send.
TestCloseAtOnce(r) ==
    LET c == at[r]
    IN /\ rpc[r] = "close"
       /\ Free(c)
       /\ Go(r, "idle", None)
       /\ UNCHANGED <<workerVars, client, data, seen, pipe, histVars>>

\* PIPE_EVENT_CLOSE: free the connection if nothing is left to send ...
TestClose(r) ==
    LET c == at[r]
    IN /\ rpc[r] = "close"
       /\ IF c \in freed
            THEN stale' = stale \cup {c} /\ Go(r, "idle", None) /\ UNCHANGED connVars
            ELSE /\ \/ out[c] = <<>> /\ Free(c) /\ Go(r, "idle", None)
                    \/ out[c] # <<>> /\ Go(r, "mark", c) /\ UNCHANGED <<out, disable, watched, freed>>
                 /\ UNCHANGED <<stale, client>>
       /\ UNCHANGED <<workerVars, data, seen, pipe, mixed, overlap, desync>>

\* ... and otherwise leave that to the handler that sends the rest.
MarkClosing(r) ==
    /\ rpc[r] = "mark"
    /\ disable' = [disable EXCEPT ![at[r]] = 2]
    /\ Go(r, "idle", None)
    /\ UNCHANGED <<workerVars, out, watched, client, freed, data, seen, pipe, histVars>>

-----------------------------------------------------------------------------
(* A reactor writes to a client: onClientWritable.                         *)

FlushNothing(r, c) ==
    /\ Begin(r) /\ c \in watched[r] /\ disable[c] # 1
    /\ out[c] = <<>>
    /\ watched' = [watched EXCEPT ![r] = @ \ {c}]
    /\ UNCHANGED <<workerVars, threadVars, out, disable, client, freed, pipe, mixed, desync, stale>>

\* write() to the client's socket, which takes some of the bytes; during a
\* sdscatlen of another reactor it may read the string that was reallocated.
Flush(r, c) ==
    /\ Begin(r) /\ c \in watched[r] /\ disable[c] # 1
    /\ \E n \in 1..Len(out[c]) :
       \E written \in {Take(out[c], n)}
                         \cup (IF Mutating(r, c) THEN {[i \in 1..n |-> Junk]} ELSE {}) :
          /\ client' = [client EXCEPT ![c] = @ \o written]
          /\ data' = [data EXCEPT ![r] = written]
    /\ Go(r, "trim", c)
    /\ UNCHANGED <<workerVars, seen, out, disable, watched, freed, pipe, mixed, desync, stale>>

\* Mistake: the whole buffer is cleared, as the sdsclear of line 173 would.
TrimClears(r) ==
    LET c == at[r]
    IN /\ rpc[r] = "trim"
       /\ out' = [out EXCEPT ![c] = <<>>]
       /\ watched' = [watched EXCEPT ![r] = @ \ {c}]
       /\ Go(r, "idle", None)
       /\ data' = [data EXCEPT ![r] = <<>>]
       /\ UNCHANGED <<workerVars, disable, client, freed, seen, pipe, histVars>>

\* Mistake: a connection to be freed stays open after the last byte.
TrimKeepsOpen(r) ==
    LET c == at[r]
        rest == Drop(out[c], Len(data[r]))
    IN /\ rpc[r] = "trim"
       /\ out' = [out EXCEPT ![c] = rest]
       /\ watched' = IF rest = <<>> THEN [watched EXCEPT ![r] = @ \ {c}] ELSE watched
       /\ Go(r, "idle", None)
       /\ data' = [data EXCEPT ![r] = <<>>]
       /\ UNCHANGED <<workerVars, disable, client, freed, seen, pipe, histVars>>

\* sdsrange; when nothing is left the event is removed, and a connection that
\* was to be closed, or an HTTP connection, is freed.
Trim(r) ==
    LET c == at[r]
        rest == Drop(out[c], Len(data[r]))
    IN /\ rpc[r] = "trim"
       /\ \/ /\ c \in freed
             /\ stale' = stale \cup {c}
             /\ UNCHANGED <<out, disable, watched, freed>>
          \/ /\ c \notin freed /\ rest = <<>>
             /\ IF disable[c] = 2 \/ c \in Http
                  THEN Free(c)
                  ELSE /\ out' = [out EXCEPT ![c] = rest]
                       /\ watched' = [watched EXCEPT ![r] = @ \ {c}]
                       /\ UNCHANGED <<disable, freed>>
             /\ UNCHANGED stale
          \/ /\ c \notin freed /\ rest # <<>>
             /\ out' = [out EXCEPT ![c] = rest]
             /\ UNCHANGED <<disable, watched, freed, stale>>
       /\ Go(r, "idle", None)
       /\ data' = [data EXCEPT ![r] = <<>>]
       /\ UNCHANGED <<workerVars, client, seen, pipe, mixed, overlap, desync>>

-----------------------------------------------------------------------------

Read(r) == \/ ReadHeader(r) \/ ReadGarbage(r) \/ ReadBody(r)
           \/ AppendStart(r) \/ AppendStore(r) \/ TestClose(r) \/ MarkClosing(r)

Write(r, c) == FlushNothing(r, c) \/ Flush(r, c)

Next == \/ \E c \in Conns : Reply(c) \/ Close(c)
        \/ WorkerWrite
        \/ \E r \in Reactors : Read(r) \/ Trim(r) \/ \E c \in Conns : Write(r, c)

Spec == Init /\ [][Next]_vars

\* The worker's loop and the reactors' loops run; an epoll loop serves every
\* descriptor that is ready before it polls again.
Fairness == /\ WF_vars(WorkerWrite)
            /\ \A r \in Reactors : WF_vars(Read(r)) /\ WF_vars(Trim(r))
            /\ \A r \in Reactors, c \in Conns : SF_vars(Write(r, c))

FairSpec == Spec /\ Fairness

-----------------------------------------------------------------------------

TypeOK ==
    /\ sent \in [Conns -> 0..MaxMsgs] /\ closing \subseteq Conns
    /\ wbuf \in Seq(Unit) /\ warmed \in BOOLEAN /\ pipe \in Seq(Unit)
    /\ rpc \in [Reactors -> {"idle", "body", "append", "store", "close", "mark", "trim"}]
    /\ at \in [Reactors -> Conns \cup {None}]
    /\ data \in [Reactors -> Seq(Unit)] /\ seen \in [Reactors -> Seq(Unit)]
    /\ out \in [Conns -> Seq(Unit)]
    /\ disable \in [Conns -> {0, 1, 2}]
    /\ watched \in [Reactors -> SUBSET Conns]
    /\ client \in [Conns -> Seq(Unit)] /\ owed \in [Conns -> Seq(Unit)]
    /\ cut \in BOOLEAN /\ mixed \in BOOLEAN /\ overlap \in BOOLEAN /\ desync \in BOOLEAN
    /\ freed \subseteq Conns /\ stale \subseteq Conns

\* The worker watches its end of the socketpair for writing exactly while
\* bytes are waiting: nothing is forgotten, and the loop does not spin on an
\* empty buffer (worker.c:88-93, 164-168, 269-279).
WorkerArmed == warmed <=> wbuf # <<>>

\* A reactor takes bytes for a header or a body that they are not only if a
\* write() of the worker stopped inside a frame, or if two reactors read the
\* socketpair between each other's header and body (aeserver.c:604-653).
DesyncHasCause == desync => cut \/ mixed

IsPrefix(s, t) == Len(s) <= Len(t) /\ s = Take(t, Len(s))

\* A client receives a prefix of the replies that the worker made to it,
\* whole and in order: "message,close, this way sticky or half packets are
\* prevented" (aeserver.c:613).
ClientGetsReplies == \A c \in Conns : IsPrefix(client[c], owed[c])

\* A connection that the worker closes is freed only after every reply that
\* the worker made to it was written (aeserver.c:175-183, 621-634).
ClosedAfterReplies == \A c \in freed \ Http : client[c] = owed[c]

\* Bytes that wait for a client have a loop that watches its socket: "set
\* writable event to connfd" (aeserver.c:585), unless a reactor is at work.
ReplyIsWatched ==
    (\A r \in Reactors : rpc[r] = "idle") =>
      \A c \in Conns : out[c] # <<>> => \E r \in Reactors : c \in watched[r]

\* What goes wrong on the way to a client goes wrong because the handlers of
\* two reactors overlap or because a frame was cut: a lock around each handler,
\* which the comment of aeserver.c:604 asks about, would rule it out.  HTTP
\* connections are freed with their first reply, so that what the worker still
\* sends for them meets a freed buffer (aeserver.c:179-182, 595, 627).
OnlyOverlapsHarm ==
    \/ overlap
    \/ cut
    \/ /\ ClientGetsReplies /\ ClosedAfterReplies /\ ReplyIsWatched
       /\ stale \subseteq Http
=============================================================================
