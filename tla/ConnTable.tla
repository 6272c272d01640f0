------------------------------ MODULE ConnTable ------------------------------
(***************************************************************************)
(* The table connlist, whose slots are numbered by descriptors that the    *)
(* kernel uses again.  The main thread accepts, the reactor fd %           *)
(* reactorNum reads from a client, any reactor may take the worker's       *)
(* answer from the socketpair and then writes to the client, and whichever *)
(* thread sees the end frees the connection.  Nothing is locked: a step is *)
(* one access to what the threads share.                                   *)
(*                                                                         *)
(* The pipes between the processes, whose own hazards WorkerPipe and       *)
(* ReplyPipe describe, are queues of whole messages here.  A message names *)
(* its connection by descriptor only; "of" is the client it was about.     *)
(* Every descriptor has a slot here, although connlist has maxConnect.     *)
(***************************************************************************)
EXTENDS Integers, Sequences, FiniteSets

CONSTANTS
    ReactorIds,     \* 0..reactorNum - 1
    FirstFd,        \* the first descriptor that clients get
    maxConnect,     \* the limit of connections
    Refusals,       \* whether epoll_ctl may refuse to watch one descriptor more
    HttpClients,    \* clients that send HTTP requests
    MaxClients      \* bound: the clients that connect

ASSUME TableAssumption ==
    /\ IsFiniteSet(ReactorIds) /\ ReactorIds # {} /\ ReactorIds = 0..Cardinality(ReactorIds) - 1
    /\ FirstFd \in Nat \ {0} /\ maxConnect \in Nat \ {0} /\ MaxClients \in Nat
    /\ Refusals \in BOOLEAN

Descriptors == FirstFd..FirstFd + maxConnect
Clients == 1..MaxClients
Nobody == 0
OwnerOf(fd) == fd % Cardinality(ReactorIds)

VARIABLES
    sock,       \* the client at the other end of each open descriptor
    peers,      \* clients that have not connected, that may still send, whose
                \* request waits to be read, that have closed their end
    slot,       \* connlist: disable, protoType = HTTP, which buffers exist,
                \* send_buffer
    mask,       \* mask[r][fd]: events[fd].mask of reactor r's loop
    registered, \* registered[r][fd]: what the kernel has been asked to report to it
    connectNum,
    toWorker, toMaster,
    thread,     \* where a reactor or the main thread is, the descriptor, a number
                \* and the client it works with
    \* The remaining variables record history; no action tests them.
    risk,      \* what has happened that may do harm later
    harm,       \* what has gone wrong in memory or with descriptors
    drift,      \* connections counted though closed at once, less closes of nothing
    miscounted  \* two threads have changed connectNum at once

netVars == <<sock, peers>>
loopVars == <<mask, registered>>
pipeVars == <<toWorker, toMaster>>
tallyVars == <<drift, miscounted>>
tableVars == <<netVars, slot, loopVars, connectNum, pipeVars, thread, risk, harm, tallyVars>>

Main == -1
Threads == ReactorIds \cup {Main}
Idle == [pc |-> "idle", fd |-> 0, num |-> 0, of |-> Nobody]
MoveTo(t, pc) == thread' = [thread EXCEPT ![t].pc = pc]
Done(t) == thread' = [thread EXCEPT ![t] = Idle]
In(t, pc) == thread[t].pc = pc
Fd(t) == thread[t].fd

\* shm_calloc leaves zeroes.
Unused == [disable |-> 0, http |-> FALSE, live |-> {}, out |-> <<>>]

TableInit ==
    /\ sock = [fd \in Descriptors |-> Nobody]
    /\ peers = [new |-> Clients, sending |-> {}, sent |-> {}, gone |-> {}]
    /\ slot = [fd \in Descriptors |-> Unused]
    /\ mask = [r \in ReactorIds |-> [fd \in Descriptors |-> {}]] /\ registered = mask
    /\ connectNum = 0 /\ toWorker = <<>> /\ toMaster = <<>>
    /\ thread = [t \in Threads |-> Idle]
    /\ risk = {} /\ harm = {} /\ drift = 0 /\ miscounted = FALSE

Msg(type, fd, c) == [type |-> type, fd |-> fd, of |-> c]

\* A handler works with the connection of a descriptor, or accept with its slot.
Within(t) == thread[t].pc \notin {"idle", "readable", "writable"}
             /\ (t = Main => thread[t].pc \in {"prepare", "watch"})
Overlaps(t, fd) == \E u \in Threads \ {t} : Within(u) /\ thread[u].fd = fd
Enter(t, fd) == risk' = risk \cup (IF Overlaps(t, fd) THEN {"overlap"} ELSE {})

\* A use of a buffer that has been freed, and what its length then looks like.
Uses(fd, buffer) == harm' = harm \cup (IF buffer \in slot[fd].live THEN {} ELSE {"freed"})
Empty(fd) == IF "send" \in slot[fd].live THEN {slot[fd].out = <<>>} ELSE BOOLEAN

-----------------------------------------------------------------------------
(* The event loops.                                                        *)

Register(r, fd, bit) ==
    /\ mask' = [mask EXCEPT ![r][fd] = @ \cup {bit}]
    /\ registered' = [registered EXCEPT ![r][fd] = mask[r][fd] \cup {bit}]

\* aeCreateFileEvent fails when EPOLL_CTL_MOD meets a descriptor that the kernel
\* has forgotten or EPOLL_CTL_ADD one that is closed, or one too many: the set
\* size, or the kernel's own limit.
Fails(r, fd) ==
    IF mask[r][fd] = {} THEN sock[fd] = Nobody \/ Refusals ELSE registered[r][fd] = {}
Succeeds(r, fd) == IF mask[r][fd] = {} THEN sock[fd] # Nobody ELSE registered[r][fd] # {}

Unregister(r, fd, bit) ==
    /\ mask' = [mask EXCEPT ![r][fd] = @ \ {bit}]
    /\ registered' = [registered EXCEPT ![r][fd] = IF @ = {} THEN {} ELSE mask[r][fd] \ {bit}]

\* close(fd): every epoll forgets the descriptor, no loop's mask does.
Forgotten(fd) == [r \in ReactorIds |-> [registered[r] EXCEPT ![fd] = {}]]
Less(c) == [set \in DOMAIN peers |-> peers[set] \ {c}]

\* epoll_wait returns an event: data, the end, or room to write.
Fire(r, fd, bit) ==
    /\ In(r, "idle") /\ bit \in registered[r][fd]
    /\ bit = "readable" => sock[fd] \in peers.sending \cup peers.sent \cup peers.gone
    /\ peers' = IF bit = "readable" /\ sock[fd] \in peers.sending
                  THEN [peers EXCEPT !.sending = @ \ {sock[fd]}, !.sent = @ \cup {sock[fd]}]
                  ELSE peers
    /\ thread' = [thread EXCEPT ![r] = [Idle EXCEPT !.pc = bit, !.fd = fd]]
    /\ UNCHANGED <<sock, slot, loopVars, connectNum, pipeVars, risk, harm, tallyVars>>

\* aeProcessEvents calls the handler if the loop still has the event.
Dispatch(r) ==
    /\ thread[r].pc \in {"readable", "writable"}
    /\ IF thread[r].pc \in mask[r][Fd(r)]
         THEN MoveTo(r, IF In(r, "readable") THEN "read" ELSE "enabled") /\ Enter(r, Fd(r))
         ELSE Done(r) /\ UNCHANGED risk
    /\ UNCHANGED <<netVars, slot, loopVars, connectNum, pipeVars, harm, tallyVars>>

-----------------------------------------------------------------------------
(* The main thread: onAcceptEvent and acceptCommonHandler.                 *)

\* The lowest free descriptor is accepted.
Accept ==
    LET fd == CHOOSE fd \in Descriptors : sock[fd] = Nobody /\ \A e \in Descriptors : e < fd => sock[e] # Nobody
        c == CHOOSE c \in peers.new : \A e \in peers.new : c <= e
    IN /\ In(Main, "idle") /\ peers.new # {} /\ \E e \in Descriptors : sock[e] = Nobody
       /\ connectNum < maxConnect
       /\ sock' = [sock EXCEPT ![fd] = c]
       /\ peers' = [peers EXCEPT !.new = @ \ {c},
                      !.sending = IF c \in peers.gone THEN @ ELSE @ \cup {c}]
       /\ thread' = [thread EXCEPT ![Main] = [Idle EXCEPT !.pc = "prepare", !.fd = fd]]
       /\ Enter(Main, fd)
       /\ UNCHANGED <<slot, loopVars, connectNum, pipeVars, harm, tallyVars>>

\* The limit is reached: the connection is closed at once.
AcceptOverLimit ==
    /\ In(Main, "idle") /\ connectNum >= maxConnect
    /\ \E c \in peers.new : /\ \A e \in peers.new : c <= e
                            /\ peers' = Less(c)
    /\ UNCHANGED <<sock, slot, loopVars, connectNum, pipeVars, thread, risk, harm, tallyVars>>

Prepare ==
    /\ In(Main, "prepare")
    /\ slot' = [slot EXCEPT ![Fd(Main)] = [Unused EXCEPT !.live = {"send", "recv"}]]
    /\ MoveTo(Main, "watch")
    /\ UNCHANGED <<netVars, loopVars, connectNum, pipeVars, risk, harm, tallyVars>>

Watch ==
    /\ In(Main, "watch") /\ Succeeds(OwnerOf(Fd(Main)), Fd(Main))
    /\ Register(OwnerOf(Fd(Main)), Fd(Main), "readable")
    /\ MoveTo(Main, "load")
    /\ UNCHANGED <<netVars, slot, connectNum, pipeVars, risk, harm, tallyVars>>

\* A loop that cannot watch it has the descriptor closed, and that is all.
Refuse ==
    /\ In(Main, "watch") /\ Fails(OwnerOf(Fd(Main)), Fd(Main))
    /\ sock' = [sock EXCEPT ![Fd(Main)] = Nobody] /\ peers' = Less(sock[Fd(Main)])
    /\ registered' = Forgotten(Fd(Main))
    /\ drift' = IF sock[Fd(Main)] = Nobody THEN drift ELSE drift + 1
    /\ risk' = risk \cup {"refused"}
    /\ MoveTo(Main, "load")
    /\ UNCHANGED <<slot, mask, connectNum, pipeVars, harm, miscounted>>

\* connectNum += 1 and connectNum -= 1 load and store.
Load(t) ==
    /\ In(t, "load")
    /\ thread' = [thread EXCEPT ![t].pc = "store", ![t].num = connectNum]
    /\ miscounted' = (miscounted \/ \E u \in Threads : In(u, "store"))
    /\ UNCHANGED <<netVars, slot, loopVars, connectNum, pipeVars, risk, harm, drift>>

StoreMore ==
    /\ In(Main, "store") /\ connectNum' = thread[Main].num + 1
    /\ MoveTo(Main, "announce")
    /\ UNCHANGED <<netVars, slot, loopVars, pipeVars, risk, harm, tallyVars>>

\* The CONNECT message.
Announce ==
    /\ In(Main, "announce")
    /\ toWorker' = Append(toWorker, Msg("connect", Fd(Main), sock[Fd(Main)]))
    /\ Done(Main)
    /\ UNCHANGED <<netVars, slot, loopVars, connectNum, toMaster, risk, harm, tallyVars>>

-----------------------------------------------------------------------------
(* freeClient.  c->fd is never reset.                                      *)

\* A message of the client of fd is with the worker, or an answer is for it.
Pending(fd) ==
    \/ \E i \in DOMAIN toWorker : toWorker[i].fd = fd /\ toWorker[i].type = "message"
    \/ \E i \in DOMAIN toMaster : toMaster[i].fd = fd

Disable(r) ==
    /\ In(r, "disable")
    /\ slot' = [slot EXCEPT ![Fd(r)].disable = 1]
    /\ risk' = risk \cup (IF Pending(Fd(r)) THEN {"asked"} ELSE {})
                      \cup (IF slot[Fd(r)].out # <<>> THEN {"unsent"} ELSE {})
    /\ MoveTo(r, "unread")
    /\ UNCHANGED <<netVars, loopVars, connectNum, pipeVars, harm, tallyVars>>

\* The events of the owner's loop are deleted, whichever thread this is.
Unread(r) ==
    /\ In(r, "unread") /\ Unregister(OwnerOf(Fd(r)), Fd(r), "readable")
    /\ MoveTo(r, "unwrite")
    /\ UNCHANGED <<netVars, slot, connectNum, pipeVars, risk, harm, tallyVars>>
Unwrite(r) ==
    /\ In(r, "unwrite") /\ Unregister(OwnerOf(Fd(r)), Fd(r), "writable")
    /\ MoveTo(r, "release")
    /\ UNCHANGED <<netVars, slot, connectNum, pipeVars, risk, harm, tallyVars>>

\* sdsfree( send_buffer ), sdsfree( recv_buffer )
Frees(fd, buffer) == harm' = harm \cup (IF buffer \in slot[fd].live THEN {} ELSE {"twice"})
FreeSend(r) ==
    /\ In(r, "release") /\ Frees(Fd(r), "send")
    /\ slot' = [slot EXCEPT ![Fd(r)].live = @ \ {"send"}, ![Fd(r)].out = <<>>]
    /\ MoveTo(r, "releaseRecv")
    /\ UNCHANGED <<netVars, loopVars, connectNum, pipeVars, risk, tallyVars>>
FreeRecv(r) ==
    /\ In(r, "releaseRecv") /\ Frees(Fd(r), "recv")
    /\ slot' = [slot EXCEPT ![Fd(r)].live = @ \ {"recv"}]
    /\ MoveTo(r, "load")
    /\ UNCHANGED <<netVars, loopVars, connectNum, pipeVars, risk, tallyVars>>

\* Mistake: the connection stays counted.
StoreSame(r) ==
    /\ In(r, "store") /\ connectNum' = thread[r].num
    /\ MoveTo(r, "close")
    /\ UNCHANGED <<netVars, slot, loopVars, pipeVars, risk, harm, tallyVars>>
StoreLess(r) ==
    /\ In(r, "store") /\ connectNum' = thread[r].num - 1
    /\ MoveTo(r, "close")
    /\ UNCHANGED <<netVars, slot, loopVars, pipeVars, risk, harm, tallyVars>>

\* close(fd) of a descriptor that is closed fails; it may be another client's by now.
CloseFd(r) ==
    /\ In(r, "close")
    /\ sock' = [sock EXCEPT ![Fd(r)] = Nobody] /\ peers' = Less(sock[Fd(r)])
    /\ registered' = Forgotten(Fd(r))
    /\ drift' = IF sock[Fd(r)] = Nobody THEN drift - 1 ELSE drift
    /\ Done(r)
    /\ UNCHANGED <<slot, mask, connectNum, pipeVars, risk, harm, miscounted>>

-----------------------------------------------------------------------------
(* onClientReadable and onCloseByClient.                                   *)

\* read() returns the request; of a closed descriptor it fails, and is called
\* again and again.
ReadRequest(r) ==
    /\ In(r, "read") /\ sock[Fd(r)] \in peers.sent
    /\ peers' = [peers EXCEPT !.sent = @ \ {sock[Fd(r)]}]
    /\ thread' = [thread EXCEPT ![r].pc = "receive", ![r].of = sock[Fd(r)]]
    /\ UNCHANGED <<sock, slot, loopVars, connectNum, pipeVars, risk, harm, tallyVars>>
ReadAgain(r) ==
    /\ In(r, "read") /\ sock[Fd(r)] \in Clients \ (peers.sent \cup peers.gone)
    /\ Done(r)
    /\ UNCHANGED <<netVars, slot, loopVars, connectNum, pipeVars, risk, harm, tallyVars>>
ReadEnd(r) ==
    /\ In(r, "read") /\ sock[Fd(r)] \in peers.gone \ peers.sent
    /\ thread' = [thread EXCEPT ![r].pc = "hangup", ![r].of = sock[Fd(r)]]
    /\ UNCHANGED <<netVars, slot, loopVars, connectNum, pipeVars, risk, harm, tallyVars>>

\* The bytes go into recv_buffer, and the parser tells the protocol.
Receive(r) ==
    /\ In(r, "receive") /\ Uses(Fd(r), "recv")
    /\ slot' = [slot EXCEPT ![Fd(r)].http = thread[r].of \in HttpClients]
    /\ MoveTo(r, "post")
    /\ UNCHANGED <<netVars, loopVars, connectNum, pipeVars, risk, tallyVars>>
PostMessage(r) ==
    /\ In(r, "post")
    /\ toWorker' = Append(toWorker, Msg("message", Fd(r), thread[r].of))
    /\ MoveTo(r, "trim")
    /\ UNCHANGED <<netVars, slot, loopVars, connectNum, toMaster, risk, harm, tallyVars>>
TrimReceived(r) ==
    /\ In(r, "trim") /\ Uses(Fd(r), "recv") /\ Done(r)
    /\ UNCHANGED <<netVars, slot, loopVars, connectNum, pipeVars, risk, tallyVars>>

PostClose(r) ==
    /\ In(r, "hangup")
    /\ toWorker' = Append(toWorker, Msg("close", Fd(r), thread[r].of))
    /\ MoveTo(r, "disable")
    /\ UNCHANGED <<netVars, slot, loopVars, connectNum, toMaster, risk, harm, tallyVars>>

Hangup(c) ==
    /\ (\E fd \in Descriptors : sock[fd] = c) /\ c \notin peers.gone
    /\ peers' = [peers EXCEPT !.gone = @ \cup {c}, !.sending = @ \ {c}]
    /\ UNCHANGED <<sock, slot, loopVars, connectNum, pipeVars, thread, risk, harm, tallyVars>>

-----------------------------------------------------------------------------
(* onClientWritable.                                                       *)

TestDisabled(r) ==
    /\ In(r, "enabled")
    /\ IF slot[Fd(r)].disable = 1 THEN Done(r) ELSE MoveTo(r, "pending")
    /\ UNCHANGED <<netVars, slot, loopVars, connectNum, pipeVars, risk, harm, tallyVars>>
TestPending(r) ==
    /\ In(r, "pending") /\ Uses(Fd(r), "send")
    /\ \E empty \in Empty(Fd(r)) : MoveTo(r, IF empty THEN "quiet" ELSE "write")
    /\ UNCHANGED <<netVars, slot, loopVars, connectNum, pipeVars, risk, tallyVars>>
Quiet(r) ==
    /\ In(r, "quiet") /\ Unregister(r, Fd(r), "writable") /\ Done(r)
    /\ UNCHANGED <<netVars, slot, connectNum, pipeVars, risk, harm, tallyVars>>

\* A write() takes everything; with a client that has gone it may fail.
WriteOut(r) ==
    LET out == slot[Fd(r)].out
    IN /\ In(r, "write") /\ sock[Fd(r)] # Nobody
       /\ harm' = harm \cup (IF "send" \in slot[Fd(r)].live THEN {} ELSE {"freed"})
                       \cup (IF \E i \in DOMAIN out : out[i] # sock[Fd(r)] THEN {"stranger"} ELSE {})
       /\ thread' = [thread EXCEPT ![r].pc = "range", ![r].num = Len(out)]
       /\ UNCHANGED <<netVars, slot, loopVars, connectNum, pipeVars, risk, tallyVars>>
WriteFails(r) ==
    /\ In(r, "write") /\ sock[Fd(r)] \in peers.gone \cup {Nobody}
    /\ MoveTo(r, "disable")
    /\ UNCHANGED <<netVars, slot, loopVars, connectNum, pipeVars, risk, harm, tallyVars>>

\* sdsrange
DropWritten(r) ==
    /\ In(r, "range") /\ Uses(Fd(r), "send")
    /\ slot' = [slot EXCEPT ![Fd(r)].out = SubSeq(@, thread[r].num + 1, Len(@))]
    /\ MoveTo(r, "left")
    /\ UNCHANGED <<netVars, loopVars, connectNum, pipeVars, risk, tallyVars>>
TestLeft(r) ==
    /\ In(r, "left") /\ Uses(Fd(r), "send")
    /\ \E empty \in Empty(Fd(r)) : IF empty THEN MoveTo(r, "unwatch") ELSE Done(r)
    /\ UNCHANGED <<netVars, slot, loopVars, connectNum, pipeVars, risk, tallyVars>>
Unwatch(r) ==
    /\ In(r, "unwatch") /\ Unregister(r, Fd(r), "writable") /\ MoveTo(r, "ended")
    /\ UNCHANGED <<netVars, slot, connectNum, pipeVars, risk, harm, tallyVars>>

\* A connection that is to be closed now is, and one of HTTP.
TestEnded(r) ==
    /\ In(r, "ended")
    /\ IF slot[Fd(r)].disable = 2 \/ slot[Fd(r)].http THEN MoveTo(r, "disable") ELSE Done(r)
    /\ UNCHANGED <<netVars, slot, loopVars, connectNum, pipeVars, risk, harm, tallyVars>>

-----------------------------------------------------------------------------
(* The worker, and the reactor that takes its answer.                      *)

\* Mistake: a CLOSE is answered by a CLOSE.
WorkEchoesClose(close) ==
    /\ toWorker # <<>>
    /\ toMaster' = IF Head(toWorker).type = "connect" THEN toMaster ELSE Append(toMaster, Head(toWorker))
    /\ toWorker' = Tail(toWorker)
    /\ UNCHANGED <<netVars, slot, loopVars, connectNum, thread, risk, harm, tallyVars>>

\* The user's functions answer a MESSAGE, and close the connection or not.
Work(close) ==
    /\ toWorker # <<>>
    /\ LET m == Head(toWorker)
           end == IF close THEN <<Msg("close", m.fd, m.of)>> ELSE <<>>
       IN toMaster' = IF m.type = "message" THEN toMaster \o <<Msg("message", m.fd, m.of)>> \o end
                      ELSE toMaster
    /\ (close => Head(toWorker).type = "message")
    /\ toWorker' = Tail(toWorker)
    /\ UNCHANGED <<netVars, slot, loopVars, connectNum, thread, risk, harm, tallyVars>>

\* onMasterPipeReadable, on any reactor.
TakeAnswer(r) ==
    LET m == Head(toMaster) IN
    /\ In(r, "idle") /\ toMaster # <<>>
    /\ toMaster' = Tail(toMaster)
    /\ thread' = [thread EXCEPT ![r] = [pc |-> IF m.type = "message" THEN "reply" ELSE "closing",
                                        fd |-> m.fd, num |-> 0, of |-> m.of]]
    /\ Enter(r, m.fd)
    /\ UNCHANGED <<netVars, slot, loopVars, connectNum, toWorker, harm, tallyVars>>

\* readBodyFromPipe: the writable event is registered on this reactor's loop
\* if the buffer is empty, and whether that fails is not looked at.
TestReply(r) ==
    /\ In(r, "reply") /\ Uses(Fd(r), "send")
    /\ \E empty \in Empty(Fd(r)) : MoveTo(r, IF empty THEN "arm" ELSE "append")
    /\ UNCHANGED <<netVars, slot, loopVars, connectNum, pipeVars, risk, tallyVars>>
Arm(r) ==
    /\ In(r, "arm") /\ Succeeds(r, Fd(r))
    /\ Register(r, Fd(r), "writable")
    /\ MoveTo(r, "append")
    /\ UNCHANGED <<netVars, slot, connectNum, pipeVars, risk, harm, tallyVars>>
ArmFails(r) ==
    /\ In(r, "arm") /\ Fails(r, Fd(r))
    /\ harm' = harm \cup (IF "send" \in slot[Fd(r)].live THEN {"unwatched"} ELSE {})
    /\ risk' = risk \cup (IF Succeeds(r, Fd(r)) THEN {"refused"} ELSE {})
    /\ MoveTo(r, "append")
    /\ UNCHANGED <<netVars, slot, loopVars, connectNum, pipeVars, tallyVars>>
AppendReply(r) ==
    /\ In(r, "append") /\ Uses(Fd(r), "send")
    /\ slot' = [slot EXCEPT ![Fd(r)].out = IF "send" \in slot[Fd(r)].live THEN Append(@, thread[r].of) ELSE @]
    /\ Done(r)
    /\ UNCHANGED <<netVars, loopVars, connectNum, pipeVars, risk, tallyVars>>

\* PIPE_EVENT_CLOSE: freed at once, or once everything is written.
TestUnsent(r) ==
    /\ In(r, "closing")
    /\ harm' = harm \cup (IF "send" \in slot[Fd(r)].live THEN {} ELSE {"freed"})
                    \cup (IF sock[Fd(r)] \notin {Nobody, thread[r].of} THEN {"stranger"} ELSE {})
    /\ \E empty \in Empty(Fd(r)) : MoveTo(r, IF empty THEN "disable" ELSE "mark")
    /\ UNCHANGED <<netVars, slot, loopVars, connectNum, pipeVars, risk, tallyVars>>
Mark(r) ==
    /\ In(r, "mark")
    /\ slot' = [slot EXCEPT ![Fd(r)].disable = 2]
    /\ Done(r)
    /\ UNCHANGED <<netVars, loopVars, connectNum, pipeVars, risk, harm, tallyVars>>

-----------------------------------------------------------------------------

MainStep == Accept \/ AcceptOverLimit \/ Prepare \/ Watch \/ Refuse \/ Load(Main) \/ StoreMore \/ Announce
FreeStep(r) ==
    Disable(r) \/ Unread(r) \/ Unwrite(r) \/ FreeSend(r) \/ FreeRecv(r) \/ Load(r) \/ StoreLess(r) \/ CloseFd(r)
ReadStep(r) ==
    ReadRequest(r) \/ ReadAgain(r) \/ ReadEnd(r) \/ Receive(r) \/ PostMessage(r) \/ TrimReceived(r) \/ PostClose(r)
WriteStep(r) ==
    \/ TestDisabled(r) \/ TestPending(r) \/ Quiet(r) \/ WriteOut(r) \/ WriteFails(r) \/ DropWritten(r)
    \/ TestLeft(r) \/ Unwatch(r) \/ TestEnded(r)
AnswerStep(r) ==
    TakeAnswer(r) \/ TestReply(r) \/ Arm(r) \/ ArmFails(r) \/ AppendReply(r) \/ TestUnsent(r) \/ Mark(r)

TableNext ==
    \/ MainStep
    \/ \E r \in ReactorIds : \/ Dispatch(r) \/ FreeStep(r) \/ ReadStep(r) \/ WriteStep(r) \/ AnswerStep(r)
                           \/ \E fd \in Descriptors : \E bit \in {"readable", "writable"} : Fire(r, fd, bit)
    \/ \E c \in Clients : Hangup(c)
    \/ \E close \in BOOLEAN : Work(close)

TableSpec == TableInit /\ [][TableNext]_tableVars

-----------------------------------------------------------------------------

\* A buffer is used after it was freed or freed twice, or a client's answer
\* reaches another client, only if two threads were in handlers of one descriptor
\* at once or a connection was freed while a request of it was with the worker or
\* answered (aeserver.c:109-125, 586, 595, 627, worker.c:86); and an answer is
\* left in the buffer without a loop that watches only after such an overlap,
\* after a connection was freed with bytes unsent, so that another loop than its
\* owner's still believes in its event (aeserver.c:116), or because the kernel
\* refused an event (392, 588).
OnlyCrossingsHarm ==
    /\ harm \cap {"twice", "freed", "stranger"} # {} => risk \cap {"overlap", "asked"} # {}
    /\ "unwatched" \in harm => risk \cap {"overlap", "unsent", "refused"} # {}

TableTypeOK ==
    /\ sock \in [Descriptors -> Clients \cup {Nobody}]
    /\ \A fd \in Descriptors : /\ slot[fd].disable \in 0..2 /\ slot[fd].http \in BOOLEAN
                               /\ slot[fd].live \subseteq {"send", "recv"} /\ slot[fd].out \in Seq(Clients)
    /\ mask \in [ReactorIds -> [Descriptors -> SUBSET {"readable", "writable"}]]
    /\ registered \in [ReactorIds -> [Descriptors -> SUBSET {"readable", "writable"}]]
    /\ connectNum \in Int /\ harm \subseteq {"twice", "freed", "stranger", "unwatched"}


\* connectNum is the number of open connections at every moment, but for the one
\* that is being accepted and those about to be closed, those that were closed at
\* once but counted (aeserver.c:392) and those taken off twice (121), which drift
\* counts, unless two threads have changed it at once (121, 403).
CountRight ==
    ~miscounted =>
      connectNum = Cardinality({fd \in Descriptors : sock[fd] # Nobody}) + drift
                   - Cardinality({r \in ReactorIds : In(r, "close")})
                   - (IF thread[Main].pc \in {"prepare", "watch", "load", "store"} THEN 1 ELSE 0)
=============================================================================
