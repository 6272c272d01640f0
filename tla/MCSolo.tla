------------------------------- MODULE MCSolo -------------------------------
(***************************************************************************)
(* A worker whose connections belong to one reactor.  A behaviour drives   *)
(* its subject: the request path, through a socketpair that holds less     *)
(* than a message ("tight") or one that is never full ("roomy"), or the    *)
(* reply path, through one that is never full ("reply").                   *)
(***************************************************************************)
EXTENDS WorkerPipe, TLC

CONSTANTS
    Roomy,          \* units of a socketpair that is never full
    RoomyMsgs,      \* bound: messages of one connection through it
    ReplyLen,       \* units of the body of a reply
    Subjects,       \* what is to be driven
    c1, c2, r1

VARIABLES
    subject,
    \* those of ReplyPipe; "reply" is put before the names that WorkerPipe has
    sent, closing, wbuf, warmed, replyPipe, rpc, at, data, replySeen, out, disable, watched,
    client, freed, owed, replyCut, mixed, replyDesync, overlap, stale

\* Both connections are owned by the one reactor.
OwnerOne == (c1 :> r1) @@ (c2 :> r1)

Wide == INSTANCE WorkerPipe WITH PipeCap <- Roomy, MaxMsgs <- RoomyMsgs

Replies == INSTANCE ReplyPipe WITH
    Http <- {}, PipeCap <- Roomy, MaxMsgs <- RoomyMsgs, BodyLen <- ReplyLen,
    pipe <- replyPipe, seen <- replySeen, cut <- replyCut, desync <- replyDesync

replyVars == <<sent, closing, wbuf, warmed, replyPipe, rpc, at, data, replySeen, out, disable, watched,
               client, freed, owed, replyCut, mixed, replyDesync, overlap, stale>>

SoloInit == subject \in Subjects /\ Init /\ Replies!Init

SoloNext ==
    /\ \/ subject = "tight" /\ Next /\ UNCHANGED replyVars
       \/ subject = "roomy" /\ Wide!Next /\ UNCHANGED replyVars
       \/ subject = "reply" /\ Replies!Next /\ UNCHANGED vars
    /\ UNCHANGED subject

DrainOf(r) == (subject = "tight" /\ Drain(r)) \/ (subject = "roomy" /\ Wide!Drain(r))

\* The fairness of the module that is driven.
SoloFairness ==
    /\ \A t \in Threads : WF_vars(subject # "reply" /\ Post(t))
    /\ \A r \in Reactors : WF_vars(DrainOf(r))
    /\ WF_vars(subject # "reply" /\ WorkerStep)
    /\ WF_replyVars(subject = "reply" /\ Replies!WorkerWrite)
    /\ \A r \in Reactors : /\ WF_replyVars(subject = "reply" /\ Replies!Read(r))
                           /\ WF_replyVars(subject = "reply" /\ Replies!Trim(r))
    /\ \A r \in Reactors, c \in Conns : SF_replyVars(subject = "reply" /\ Replies!Write(r, c))

SoloSpec == SoloInit /\ [][SoloNext]_<<subject, vars, replyVars>> /\ SoloFairness

-----------------------------------------------------------------------------

\* Through a socketpair that is never full every message received from a client,
\* and the close of its connection, reaches the worker's callbacks
\* (aeserver.c:94-147, 186-209, 656-678; worker.c:172-262).  Nothing that was delivered
\* is undone, and clients send no more than the bound: again and again all is delivered.
AllDelivered ==
    []<>(subject = "roomy" => \A c \in Conns :
           /\ \A m \in 1..received[c] : Delivered([conn |-> c, type |-> "message", num |-> m])
           /\ conn[c] = "closed" => Delivered([conn |-> c, type |-> "close", num |-> 0]))

Events == INSTANCE EventStream WITH
    Frames <- Wide!Frame,
    posted <- IF subject = "roomy" THEN Wide!FramesOf(log) ELSE <<>>,
    got <- IF subject = "roomy" THEN Wide!Handed ELSE <<>>

\* That request path is a reliable, ordered stream of events: what the threads post
\* reaches the callbacks once each, whole and in the order of the posts.
SoloStream == Events!Spec

\* A client receives a prefix of the replies that the worker made to it, whole and in
\* order: "message,close, this way sticky or half packets are prevented"
\* (aeserver.c:613).
ClientGetsReplies == Replies!ClientGetsReplies

\* A connection that the worker closes is freed only after every reply that the worker
\* made to it was written (aeserver.c:175-183, 621-634).
ClosedAfterReplies == Replies!ClosedAfterReplies

\* Every reply is written to its client, and every connection that the worker closes
\* is closed (aeserver.c:150-184, 566-653).
AllAnswered ==
    []<>(\A c \in Conns : Len(client[c]) >= sent[c] * ReplyLen /\ (c \in closing => c \in freed))
=============================================================================
