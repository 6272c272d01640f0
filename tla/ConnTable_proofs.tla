-------------------------- MODULE ConnTable_proofs --------------------------
(***************************************************************************)
(* Theorems about ConnTable for every number of reactors, slots and        *)
(* clients.                                                                *)
(***************************************************************************)
EXTENDS ConnTable, FiniteSetTheorems, SequenceTheorems, WellFoundedInduction, TLAPS

-----------------------------------------------------------------------------
(* Constants and least elements.                                           *)

LEMMA OwnerType == \A fd \in Descriptors : OwnerOf(fd) \in ReactorIds
<1>1. Cardinality(ReactorIds) \in Nat /\ Cardinality(ReactorIds) # 0
  BY TableAssumption, FS_CardinalityType, FS_EmptySet
<1> DEFINE n == Cardinality(ReactorIds)
<1>2. n \in Nat \ {0} /\ ReactorIds = 0..n - 1
  BY <1>1, TableAssumption
<1> HIDE DEF n
<1>3. \A fd \in Descriptors : fd \in Nat
  BY TableAssumption DEF Descriptors
<1>4. \A k \in Nat : k % n \in 0..n - 1
  BY <1>2
<1> QED
  BY <1>2, <1>3, <1>4 DEF OwnerOf, n

LEMMA NobodyIsNoClient == Nobody \notin Clients /\ Main \notin ReactorIds /\ IsFiniteSet(Descriptors)
<1>1. Nobody \notin Clients
  BY TableAssumption DEF Nobody, Clients
<1>2. Main \notin ReactorIds
  <2>1. \A k \in Int : -1 \notin 0..k
    OBVIOUS
  <2>2. Cardinality(ReactorIds) - 1 \in Int
    BY TableAssumption, FS_CardinalityType
  <2>3. -1 \notin 0..Cardinality(ReactorIds) - 1
    BY <2>1, <2>2
  <2> QED
    BY <2>3, TableAssumption DEF Main
<1>3. IsFiniteSet(Descriptors)
  <2>1. FirstFd \in Int /\ FirstFd + maxConnect \in Int
    BY TableAssumption
  <2> QED
    BY <2>1, FS_Interval DEF Descriptors
<1> QED
  BY <1>1, <1>2, <1>3

\* A set of natural numbers has a least element.
LEMMA LeastElement ==
    ASSUME NEW S \in SUBSET Nat, S # {}
    PROVE  \E x \in S : \A y \in S : x <= y
<1> DEFINE R == OpToRel(<, Nat)
<1>1. IsWellFoundedOn(R, Nat)
  BY NatLessThanWellFounded
<1>2. PICK x \in S : \A y \in S : ~(<<y, x>> \in R)
  <2> HIDE DEF R
  <2> QED
    BY <1>1, WFMin
<1>3. \A y \in S : ~(y < x)
  BY <1>2 DEF OpToRel
<1> QED
  BY <1>3

\* The descriptor and the client that Accept chooses.
LEMMA AcceptChoice ==
    ASSUME \E e \in Descriptors : sock[e] = Nobody, peers.new # {}, peers.new \subseteq Clients
    PROVE  LET fd == CHOOSE fd \in Descriptors : sock[fd] = Nobody /\ \A e \in Descriptors : e < fd => sock[e] # Nobody
               c == CHOOSE c \in peers.new : \A e \in peers.new : c <= e
           IN fd \in Descriptors /\ sock[fd] = Nobody /\ c \in peers.new
<1> DEFINE F == {e \in Descriptors : sock[e] = Nobody}
<1>1. Descriptors \subseteq Nat /\ Clients \subseteq Nat
  BY TableAssumption DEF Descriptors, Clients
<1>2. \E fd \in Descriptors : sock[fd] = Nobody /\ \A e \in Descriptors : e < fd => sock[e] # Nobody
  <2>1. PICK x \in F : \A y \in F : x <= y
    <3>1. F # {} /\ F \in SUBSET Nat
      BY <1>1
    <3> HIDE DEF F
    <3> QED
      BY <3>1, LeastElement
  <2>2. \A e \in Descriptors : e < x => sock[e] # Nobody
    <3> SUFFICES ASSUME NEW e \in Descriptors, e < x, sock[e] = Nobody PROVE FALSE
      OBVIOUS
    <3>1. x <= e /\ x \in Nat /\ e \in Nat
      BY <1>1, <2>1
    <3> QED
      BY <3>1
  <2> QED
    BY <2>1, <2>2
<1>3. \E c \in peers.new : \A e \in peers.new : c <= e
  BY <1>1, LeastElement
<1> QED
  BY <1>2, <1>3

-----------------------------------------------------------------------------------------------------------------------------------------------------
(* Type correctness.                                                       *)

Answer == [type : {"message", "close"}, fd : Descriptors, of : Clients]
Message == Answer \cup [type : {"connect"}, fd : Descriptors, of : Clients \cup {Nobody}]
Slot == [disable : 0..2, http : BOOLEAN, live : SUBSET {"send", "recv"}, out : Seq(Clients)]
Peers == [new : SUBSET Clients, sending : SUBSET Clients, sent : SUBSET Clients, gone : SUBSET Clients]
Events == [ReactorIds -> [Descriptors -> SUBSET {"readable", "writable"}]]
Harms == {"twice", "freed", "stranger", "unwatched"}

MainPcs == {"prepare", "watch", "load", "store", "announce"}
FreePcs == {"disable", "unread", "unwrite", "release", "releaseRecv", "load", "store", "close"}
ReadPcs == {"read", "receive", "post", "trim", "hangup"}
WritePcs == {"enabled", "pending", "quiet", "write", "range", "left", "unwatch", "ended"}
AnswerPcs == {"reply", "arm", "append", "closing", "mark"}
EventPcs == {"readable", "writable"}
PcsOf(t) == IF t = Main THEN MainPcs ELSE FreePcs \cup ReadPcs \cup WritePcs \cup AnswerPcs \cup EventPcs

\* Where a thread with something to do can be: a handler that has read a message knows
\* its client.
AllPcs == MainPcs \cup FreePcs \cup ReadPcs \cup WritePcs \cup AnswerPcs \cup EventPcs
Place == [pc : AllPcs, fd : Descriptors, num : Int, of : Clients \cup {Nobody}]
ClientPcs == {"receive", "post", "hangup", "reply", "arm", "append", "closing"}
PlaceOK(t, x) ==
    /\ x \in Place /\ x.pc \in PcsOf(t)
    /\ x.pc = "range" => x.num \in Nat
    /\ x.pc \in ClientPcs => x.of \in Clients

ThreadsOK ==
    /\ thread \in [Threads -> {Idle} \cup Place]
    /\ \A t \in Threads : thread[t] = Idle \/ PlaceOK(t, thread[t])
SlotsOK == slot \in [Descriptors -> Slot]
LoopsOK == mask \in Events /\ registered \in Events
NetOK == sock \in [Descriptors -> Clients \cup {Nobody}] /\ peers \in Peers
PipesOK == toWorker \in Seq(Message) /\ toMaster \in Seq(Answer)
NumbersOK == connectNum \in Int /\ drift \in Int /\ miscounted \in BOOLEAN
HistoryOK == harm \subseteq Harms

TableInv == ThreadsOK /\ SlotsOK /\ LoopsOK /\ NetOK /\ PipesOK /\ NumbersOK /\ HistoryOK

LEMMA InitTable == TableInit => TableInv
<1> SUFFICES ASSUME TableInit PROVE TableInv
  OBVIOUS
<1>1. ThreadsOK
  BY DEF TableInit, ThreadsOK
<1>2. SlotsOK
  BY DEF TableInit, SlotsOK, Slot, Unused
<1>3. LoopsOK
  BY DEF TableInit, LoopsOK, Events
<1>4. NetOK
  BY DEF TableInit, NetOK, Peers
<1>5. PipesOK
  BY DEF TableInit, PipesOK
<1>6. NumbersOK /\ HistoryOK
  <2>1. connectNum = 0 /\ drift = 0 /\ miscounted = FALSE /\ harm = {}
    BY DEF TableInit
  <2>2. connectNum \in Int /\ drift \in Int
    BY <2>1
  <2> QED
    BY <2>1, <2>2 DEF NumbersOK, HistoryOK
<1> QED
  BY <1>1, <1>2, <1>3, <1>4, <1>5, <1>6 DEF TableInv

\* No thread that has something to do is idle, and the main thread is no reactor.
LEMMA Threaded ==
    /\ Idle \notin Place /\ Idle.pc = "idle" /\ \A t : "idle" \notin PcsOf(t)
    /\ Main \in Threads /\ \A r \in ReactorIds : r \in Threads /\ r # Main
    /\ \A r \in ReactorIds : PcsOf(r) = FreePcs \cup ReadPcs \cup WritePcs \cup AnswerPcs \cup EventPcs
    /\ PcsOf(Main) = MainPcs
<1>1. \A r \in ReactorIds : r \in Threads /\ r # Main
  BY NobodyIsNoClient DEF Threads
<1>2. 0 \notin Descriptors
  BY TableAssumption DEF Descriptors
<1>3. Idle \notin Place
  BY <1>2 DEF Idle, Place
<1>4. \A t : "idle" \notin PcsOf(t)
  BY DEF PcsOf, MainPcs, FreePcs, ReadPcs, WritePcs, AnswerPcs, EventPcs
<1>5. PcsOf(Main) = MainPcs
  BY DEF PcsOf
<1>6. \A r \in ReactorIds : PcsOf(r) = FreePcs \cup ReadPcs \cup WritePcs \cup AnswerPcs \cup EventPcs
  BY <1>1 DEF PcsOf
<1>7. Main \in Threads /\ Idle.pc = "idle"
  BY DEF Threads, Idle
<1> QED
  BY <1>1, <1>3, <1>4, <1>5, <1>6, <1>7

\* A thread in the middle of something is at a place.
LEMMA AtWork ==
    ASSUME TableInv, NEW t \in Threads, thread[t].pc # "idle"
    PROVE  /\ thread[t] # Idle /\ PlaceOK(t, thread[t]) /\ thread[t] \in Place
           /\ thread[t].fd \in Descriptors /\ thread[t].num \in Int /\ thread[t].of \in Clients \cup {Nobody}
           /\ thread[t].pc \in PcsOf(t)
<1>1. thread[t] # Idle
  BY Threaded
<1>2. PlaceOK(t, thread[t])
  BY <1>1 DEF TableInv, ThreadsOK
<1> QED
  BY <1>1, <1>2 DEF PlaceOK, Place

\* What a step of a thread does to the threads.
Goes(t, x) == thread'[t] = x /\ \A u \in Threads : u # t => thread'[u] = thread[u]

LEMMA GoesTo ==
    ASSUME TableInv, NEW t \in Threads, NEW x, thread' = [thread EXCEPT ![t] = x],
           x = Idle \/ PlaceOK(t, x)
    PROVE  ThreadsOK' /\ Goes(t, x)
<1>1. x \in {Idle} \cup Place
  BY DEF PlaceOK
<1>2. thread \in [Threads -> {Idle} \cup Place] /\ \A u \in Threads : thread[u] = Idle \/ PlaceOK(u, thread[u])
  BY DEF TableInv, ThreadsOK
<1>3. thread' \in [Threads -> {Idle} \cup Place] /\ Goes(t, x)
  <2> DEFINE P == {Idle} \cup Place
  <2>1. x \in P /\ thread \in [Threads -> P]
    BY <1>1, <1>2
  <2> HIDE DEF P
  <2>2. thread' \in [Threads -> P] /\ Goes(t, x)
    BY <2>1 DEF Goes
  <2> QED
    BY <2>2 DEF P
<1>4. \A u \in Threads : thread'[u] = Idle \/ PlaceOK(u, thread'[u])
  BY <1>2, <1>3 DEF Goes
<1> QED
  BY <1>3, <1>4 DEF ThreadsOK

LEMMA GoesIdle ==
    ASSUME TableInv, NEW t \in Threads, Done(t)
    PROVE  ThreadsOK' /\ Goes(t, Idle)
BY GoesTo DEF Done

\* The same thread, a statement later.
Later(t, p) == [thread[t] EXCEPT !.pc = p]
LEMMA GoesOn ==
    ASSUME TableInv, NEW t \in Threads, thread[t].pc # "idle", NEW p \in PcsOf(t), MoveTo(t, p),
           p = "range" => thread[t].num \in Nat,
           p \in ClientPcs => thread[t].of \in Clients
    PROVE  /\ ThreadsOK' /\ Goes(t, Later(t, p))
           /\ Later(t, p).pc = p /\ Later(t, p).fd = thread[t].fd
           /\ Later(t, p).num = thread[t].num /\ Later(t, p).of = thread[t].of
<1>1. thread[t] \in Place
  BY AtWork
<1>2. p \in AllPcs
  BY DEF PcsOf, AllPcs
<1> DEFINE x == Later(t, p)
<1>3. /\ x \in Place /\ x.pc = p /\ x.fd = thread[t].fd /\ x.num = thread[t].num /\ x.of = thread[t].of
  BY <1>1, <1>2 DEF Place, Later
<1>4. thread' = [thread EXCEPT ![t] = x]
  BY DEF MoveTo, Later
<1> HIDE DEF x
<1>5. PlaceOK(t, x)
  BY <1>3 DEF PlaceOK
<1>6. ThreadsOK' /\ Goes(t, x)
  BY <1>4, <1>5, GoesTo
<1> QED
  BY <1>3, <1>6 DEF x

LEMMA ReactorGoes ==
    ASSUME TableInv, NEW r \in ReactorIds, thread[r].pc # "idle",
           NEW p \in (FreePcs \cup ReadPcs \cup WritePcs \cup AnswerPcs) \ {"range"}, MoveTo(r, p),
           p \in ClientPcs => thread[r].pc \in ClientPcs
    PROVE  /\ ThreadsOK' /\ Goes(r, Later(r, p))
           /\ Later(r, p).pc = p /\ Later(r, p).fd = thread[r].fd
           /\ Later(r, p).num = thread[r].num /\ Later(r, p).of = thread[r].of
<1>1. r \in Threads /\ p \in PcsOf(r) /\ p # "range"
  BY Threaded
<1>2. thread[r].pc \in ClientPcs => thread[r].of \in Clients
  BY <1>1, AtWork DEF PlaceOK
<1> QED
  BY <1>1, <1>2, GoesOn

LEMMA MainGoes ==
    ASSUME TableInv, thread[Main].pc # "idle", NEW p \in MainPcs, MoveTo(Main, p)
    PROVE  /\ ThreadsOK' /\ Goes(Main, Later(Main, p))
           /\ Later(Main, p).pc = p /\ Later(Main, p).fd = thread[Main].fd
           /\ Later(Main, p).num = thread[Main].num /\ Later(Main, p).of = thread[Main].of
<1>1. Main \in Threads /\ p \in PcsOf(Main)
  BY Threaded
<1>2. p # "range" /\ p \notin ClientPcs
  BY DEF MainPcs, ClientPcs
<1> QED
  BY <1>1, <1>2, GoesOn

\* The descriptor and the client that are accepted.
NewFd == CHOOSE fd \in Descriptors : sock[fd] = Nobody /\ \A e \in Descriptors : e < fd => sock[e] # Nobody
NewClient == CHOOSE c \in peers.new : \A e \in peers.new : c <= e
LEMMA AcceptDoes ==
    ASSUME TableInv, Accept
    PROVE  /\ NewFd \in Descriptors /\ sock[NewFd] = Nobody /\ NewClient \in Clients
           /\ In(Main, "idle") /\ sock' = [sock EXCEPT ![NewFd] = NewClient]
           /\ peers' = [peers EXCEPT !.new = @ \ {NewClient},
                          !.sending = IF NewClient \in peers.gone THEN @ ELSE @ \cup {NewClient}]
           /\ thread' = [thread EXCEPT ![Main] = [Idle EXCEPT !.pc = "prepare", !.fd = NewFd]]
           /\ Enter(Main, NewFd)
           /\ UNCHANGED <<slot, loopVars, connectNum, pipeVars, harm, tallyVars>>
<1>1. peers.new # {} /\ peers.new \subseteq Clients /\ \E e \in Descriptors : sock[e] = Nobody
  BY DEF Accept, TableInv, NetOK, Peers
<1>2. NewFd \in Descriptors /\ sock[NewFd] = Nobody /\ NewClient \in peers.new
  BY <1>1, AcceptChoice DEF NewFd, NewClient
<1>3. /\ In(Main, "idle") /\ sock' = [sock EXCEPT ![NewFd] = NewClient]
      /\ peers' = [peers EXCEPT !.new = @ \ {NewClient},
                     !.sending = IF NewClient \in peers.gone THEN @ ELSE @ \cup {NewClient}]
      /\ thread' = [thread EXCEPT ![Main] = [Idle EXCEPT !.pc = "prepare", !.fd = NewFd]]
      /\ Enter(Main, NewFd)
      /\ UNCHANGED <<slot, loopVars, connectNum, pipeVars, harm, tallyVars>>
  BY DEF Accept, NewFd, NewClient
<1> QED
  BY <1>1, <1>2, <1>3

\* Where the threads are after a step that is more than the next statement.
LEMMA ThreadsFire ==
    ASSUME TableInv, NEW r \in ReactorIds, NEW fd \in Descriptors, NEW bit \in EventPcs,
           thread' = [thread EXCEPT ![r] = [Idle EXCEPT !.pc = bit, !.fd = fd]]
    PROVE  ThreadsOK' /\ Goes(r, [Idle EXCEPT !.pc = bit, !.fd = fd])
<1> DEFINE x == [Idle EXCEPT !.pc = bit, !.fd = fd]
<1>1. x.pc = bit /\ x \in Place
  <2>1. bit \in AllPcs /\ 0 \in Int
    BY DEF AllPcs
  <2> QED
    BY <2>1 DEF Idle, Place
<1> HIDE DEF x
<1>2. PlaceOK(r, x) /\ r \in Threads
  BY <1>1, Threaded DEF PlaceOK, EventPcs, ClientPcs
<1> QED
  BY <1>2, GoesTo DEF x

LEMMA ThreadsAccept ==
    ASSUME TableInv, Accept
    PROVE  /\ ThreadsOK' /\ thread'[Main].pc = "prepare" /\ thread'[Main].fd = NewFd
           /\ \A u \in ReactorIds : thread'[u] = thread[u]
<1> DEFINE x == [Idle EXCEPT !.pc = "prepare", !.fd = NewFd]
<1>1. x.pc = "prepare" /\ x.fd = NewFd /\ x \in Place
  <2>1. "prepare" \in AllPcs /\ 0 \in Int
    BY DEF AllPcs, MainPcs
  <2>2. NewFd \in Descriptors
    BY AcceptDoes
  <2> QED
    BY <2>1, <2>2 DEF Idle, Place
<1>2. thread' = [thread EXCEPT ![Main] = x]
  BY AcceptDoes
<1> HIDE DEF x
<1>3. PlaceOK(Main, x) /\ Main \in Threads
  BY <1>1, Threaded DEF PlaceOK, MainPcs, ClientPcs
<1>4. ThreadsOK' /\ Goes(Main, x)
  BY <1>2, <1>3, GoesTo
<1> QED
  BY <1>1, <1>4, Threaded DEF Goes

LEMMA ThreadsLoad ==
    ASSUME TableInv, NEW t \in Threads, Load(t), "store" \in PcsOf(t)
    PROVE  /\ ThreadsOK' /\ thread'[t].pc = "store" /\ thread'[t].num = connectNum
           /\ thread'[t].fd = thread[t].fd /\ \A u \in Threads : u # t => thread'[u] = thread[u]
<1> DEFINE x == [thread[t] EXCEPT !.pc = "store", !.num = connectNum]
<1>1. thread[t] \in Place /\ connectNum \in Int
  BY AtWork DEF Load, In, TableInv, NumbersOK
<1>2. x \in Place /\ x.pc = "store" /\ x.num = connectNum /\ x.fd = thread[t].fd
  <2>1. "store" \in AllPcs
    BY DEF AllPcs, MainPcs
  <2> QED
    BY <1>1, <2>1 DEF Place
<1>3. thread' = [thread EXCEPT ![t] = x]
  BY DEF Load
<1> HIDE DEF x
<1>4. PlaceOK(t, x)
  BY <1>2 DEF PlaceOK, ClientPcs
<1>5. ThreadsOK' /\ Goes(t, x)
  BY <1>3, <1>4, GoesTo
<1> QED
  BY <1>2, <1>5 DEF Goes

LEMMA ThreadsRead ==
    ASSUME TableInv, NEW r \in ReactorIds, thread[r].pc = "read",
           NEW p \in {"receive", "hangup"}, NEW c \in Clients,
           thread' = [thread EXCEPT ![r].pc = p, ![r].of = c]
    PROVE  /\ ThreadsOK' /\ thread'[r].pc = p /\ thread'[r].of = c /\ thread'[r].fd = thread[r].fd
           /\ \A u \in Threads : u # r => thread'[u] = thread[u]
<1> DEFINE x == [thread[r] EXCEPT !.pc = p, !.of = c]
<1>1. thread[r] \in Place
  BY AtWork, Threaded
<1>2. x \in Place /\ x.pc = p /\ x.of = c /\ x.fd = thread[r].fd
  <2>1. p \in AllPcs
    BY DEF AllPcs, ReadPcs
  <2> QED
    BY <1>1, <2>1 DEF Place
<1>3. thread' = [thread EXCEPT ![r] = x]
  OBVIOUS
<1> HIDE DEF x
<1>4. PlaceOK(r, x) /\ r \in Threads
  BY <1>2, Threaded DEF PlaceOK, ReadPcs
<1>5. ThreadsOK' /\ Goes(r, x)
  BY <1>3, <1>4, GoesTo
<1> QED
  BY <1>2, <1>5 DEF Goes

LEMMA ThreadsWrite ==
    ASSUME TableInv, NEW r \in ReactorIds, thread[r].pc = "write", NEW n \in Nat,
           thread' = [thread EXCEPT ![r].pc = "range", ![r].num = n]
    PROVE  /\ ThreadsOK' /\ thread'[r].pc = "range" /\ thread'[r].num = n /\ thread'[r].fd = thread[r].fd
           /\ \A u \in Threads : u # r => thread'[u] = thread[u]
<1> DEFINE x == [thread[r] EXCEPT !.pc = "range", !.num = n]
<1>1. thread[r] \in Place
  BY AtWork, Threaded
<1>2. x \in Place /\ x.pc = "range" /\ x.num = n /\ x.fd = thread[r].fd
  <2>1. "range" \in AllPcs /\ n \in Int
    BY DEF AllPcs, WritePcs
  <2> QED
    BY <1>1, <2>1 DEF Place
<1>3. thread' = [thread EXCEPT ![r] = x]
  OBVIOUS
<1> HIDE DEF x
<1>4. PlaceOK(r, x) /\ r \in Threads
  BY <1>2, Threaded DEF PlaceOK, WritePcs, ClientPcs
<1>5. ThreadsOK' /\ Goes(r, x)
  BY <1>3, <1>4, GoesTo
<1> QED
  BY <1>2, <1>5 DEF Goes

LEMMA ThreadsTake ==
    ASSUME TableInv, NEW r \in ReactorIds, TakeAnswer(r)
    PROVE  LET m == Head(toMaster)
           IN /\ m \in Answer /\ toMaster # <<>> /\ ThreadsOK'
              /\ thread'[r] = [pc |-> IF m.type = "message" THEN "reply" ELSE "closing",
                               fd |-> m.fd, num |-> 0, of |-> m.of]
              /\ \A u \in Threads : u # r => thread'[u] = thread[u]
<1> DEFINE m == Head(toMaster)
           x == [pc |-> IF m.type = "message" THEN "reply" ELSE "closing", fd |-> m.fd, num |-> 0, of |-> m.of]
<1>1. m \in Answer /\ toMaster # <<>>
  <2>1. toMaster \in Seq(Answer) /\ toMaster # <<>>
    BY DEF TakeAnswer, TableInv, PipesOK
  <2> QED
    BY <2>1, HeadTailProperties
<1>2. thread' = [thread EXCEPT ![r] = x]
  BY DEF TakeAnswer
<1> HIDE DEF m
<1>3. x \in Place /\ x.pc \in AnswerPcs /\ x.pc # "range" /\ x.of \in Clients
  <2>1. {"reply", "closing"} \subseteq AllPcs /\ 0 \in Int
    BY DEF AllPcs, AnswerPcs
  <2> QED
    BY <1>1, <2>1 DEF Place, Answer, AnswerPcs
<1> HIDE DEF x
<1>4. PlaceOK(r, x) /\ r \in Threads
  BY <1>3, Threaded DEF PlaceOK
<1>5. ThreadsOK' /\ Goes(r, x)
  BY <1>2, <1>4, GoesTo
<1> QED
  BY <1>1, <1>5 DEF Goes, m, x

LEMMA StepThreads ==
    ASSUME TableInv, [TableNext]_tableVars
    PROVE  ThreadsOK'
<1> USE DEF In
<1>0. ThreadsOK
  BY DEF TableInv
<1>1. CASE UNCHANGED thread
  BY <1>0, <1>1 DEF ThreadsOK, PlaceOK
<1>2. CASE MainStep
  <2>1. CASE Accept
    BY <2>1, ThreadsAccept
  <2>2. CASE AcceptOverLimit
    BY <1>1, <2>2 DEF AcceptOverLimit
  <2>3. CASE Prepare
    BY <2>3, MainGoes DEF Prepare, MainPcs
  <2>4. CASE Watch
    BY <2>4, MainGoes DEF Watch, MainPcs
  <2>5. CASE Refuse
    BY <2>5, MainGoes DEF Refuse, MainPcs
  <2>6. CASE Load(Main)
    BY <2>6, ThreadsLoad, Threaded DEF MainPcs
  <2>7. CASE StoreMore
    BY <2>7, MainGoes DEF StoreMore, MainPcs
  <2>8. CASE Announce
    BY <2>8, GoesIdle, Threaded DEF Announce
  <2> QED
    BY <1>2, <2>1, <2>2, <2>3, <2>4, <2>5, <2>6, <2>7, <2>8 DEF MainStep
<1>3. ASSUME NEW r \in ReactorIds, Dispatch(r) PROVE ThreadsOK'
  <2>1. r \in Threads /\ thread[r].pc # "idle"
    BY <1>3, Threaded DEF Dispatch
  <2>2. Done(r) \/ MoveTo(r, "read") \/ MoveTo(r, "enabled")
    BY <1>3 DEF Dispatch
  <2> QED
    BY <2>1, <2>2, GoesIdle, ReactorGoes DEF ReadPcs, WritePcs, ClientPcs
<1>4. ASSUME NEW r \in ReactorIds, FreeStep(r) PROVE ThreadsOK'
  <2>1. CASE Disable(r) \/ Unread(r) \/ Unwrite(r)
    BY <2>1, ReactorGoes DEF Disable, Unread, Unwrite, FreePcs, ClientPcs
  <2>2. CASE FreeSend(r) \/ FreeRecv(r) \/ StoreLess(r)
    BY <2>2, ReactorGoes DEF FreeSend, FreeRecv, StoreLess, FreePcs, ClientPcs
  <2>3. CASE Load(r)
    BY <2>3, ThreadsLoad, Threaded DEF FreePcs
  <2>4. CASE CloseFd(r)
    BY <2>4, GoesIdle, Threaded DEF CloseFd
  <2> QED
    BY <1>4, <2>1, <2>2, <2>3, <2>4 DEF FreeStep
<1>5. ASSUME NEW r \in ReactorIds, ReadStep(r) PROVE ThreadsOK'
  <2>0. r \in Threads /\ peers \in Peers
    BY Threaded DEF TableInv, NetOK
  <2>1. CASE ReadRequest(r) \/ ReadEnd(r)
    <3>1. sock[thread[r].fd] \in Clients
      BY <2>0, <2>1 DEF ReadRequest, ReadEnd, Peers, Fd
    <3> QED
      BY <2>1, <3>1, ThreadsRead DEF ReadRequest, ReadEnd, Fd
  <2>2. CASE Receive(r) \/ PostMessage(r) \/ PostClose(r)
    BY <2>2, ReactorGoes DEF Receive, PostMessage, PostClose, ReadPcs, FreePcs, ClientPcs
  <2>3. CASE ReadAgain(r) \/ TrimReceived(r)
    BY <2>0, <2>3, GoesIdle DEF ReadAgain, TrimReceived
  <2> QED
    BY <1>5, <2>1, <2>2, <2>3 DEF ReadStep
<1>6. ASSUME NEW r \in ReactorIds, WriteStep(r) PROVE ThreadsOK'
  <2>0. r \in Threads
    BY Threaded
  <2>1. CASE TestDisabled(r) \/ TestPending(r) \/ WriteFails(r)
    BY <2>0, <2>1, GoesIdle, ReactorGoes DEF TestDisabled, TestPending, WriteFails, WritePcs, FreePcs, ClientPcs
  <2>2. CASE DropWritten(r) \/ TestLeft(r) \/ Unwatch(r) \/ TestEnded(r)
    BY <2>0, <2>2, GoesIdle, ReactorGoes DEF DropWritten, TestLeft, Unwatch, TestEnded, WritePcs, FreePcs, ClientPcs
  <2>3. CASE Quiet(r)
    BY <2>0, <2>3, GoesIdle DEF Quiet
  <2>4. CASE WriteOut(r)
    <3>1. thread[r].fd \in Descriptors
      BY <2>0, <2>4, AtWork DEF WriteOut
    <3>2. Len(slot[thread[r].fd].out) \in Nat
      BY <3>1, LenProperties DEF TableInv, SlotsOK, Slot
    <3> QED
      BY <2>4, <3>2, ThreadsWrite DEF WriteOut, Fd
  <2> QED
    BY <1>6, <2>1, <2>2, <2>3, <2>4 DEF WriteStep
<1>7. ASSUME NEW r \in ReactorIds, AnswerStep(r) PROVE ThreadsOK'
  <2>0. r \in Threads
    BY Threaded
  <2>1. CASE TakeAnswer(r)
    BY <2>1, ThreadsTake
  <2>2. CASE TestReply(r) \/ Arm(r) \/ ArmFails(r)
    BY <2>2, ReactorGoes DEF TestReply, Arm, ArmFails, AnswerPcs, ClientPcs
  <2>3. CASE AppendReply(r) \/ Mark(r)
    BY <2>0, <2>3, GoesIdle DEF AppendReply, Mark
  <2>4. CASE TestUnsent(r)
    BY <2>4, ReactorGoes DEF TestUnsent, AnswerPcs, FreePcs, ClientPcs
  <2> QED
    BY <1>7, <2>1, <2>2, <2>3, <2>4 DEF AnswerStep
<1>8. ASSUME NEW r \in ReactorIds, NEW fd \in Descriptors, NEW bit \in {"readable", "writable"},
             Fire(r, fd, bit)
      PROVE  ThreadsOK'
  BY <1>8, ThreadsFire DEF Fire, EventPcs
<1>9. ASSUME NEW c \in Clients, Hangup(c) PROVE ThreadsOK'
  BY <1>1, <1>9 DEF Hangup
<1>10. ASSUME NEW close \in BOOLEAN, Work(close) PROVE ThreadsOK'
  BY <1>1, <1>10 DEF Work
<1>11. CASE UNCHANGED tableVars
  BY <1>1, <1>11 DEF tableVars
<1> QED
  BY <1>2, <1>3, <1>4, <1>5, <1>6, <1>7, <1>8, <1>9, <1>10, <1>11 DEF TableNext

-----------------------------------------------------------------------------
(* What steps do to the slots, the loops, the descriptors and the pipes.   *)

LEMMA AtDescriptor ==
    ASSUME TableInv, NEW t \in Threads, thread[t].pc # "idle"
    PROVE  Fd(t) \in Descriptors /\ slot[Fd(t)] \in Slot /\ sock[Fd(t)] \in Clients \cup {Nobody}
BY AtWork DEF Fd, TableInv, SlotsOK, NetOK

\* A slot as it is after a step.
Becomes(fd, d, h, l, o) ==
    /\ SlotsOK'
    /\ slot'[fd].disable = d /\ slot'[fd].http = h /\ slot'[fd].live = l /\ slot'[fd].out = o
    /\ \A e \in Descriptors : e # fd => slot'[e] = slot[e]

LEMMA SlotSet ==
    ASSUME TableInv, NEW fd \in Descriptors, NEW x \in Slot, slot' = [slot EXCEPT ![fd] = x]
    PROVE  Becomes(fd, x.disable, x.http, x.live, x.out)
<1>1. slot \in [Descriptors -> Slot]
  BY DEF TableInv, SlotsOK
<1>2. slot' \in [Descriptors -> Slot] /\ slot'[fd] = x /\ \A e \in Descriptors : e # fd => slot'[e] = slot[e]
  BY <1>1
<1> QED
  BY <1>2 DEF Becomes, SlotsOK

\* The steps that write to a slot.
LEMMA SlotPrepare ==
    ASSUME TableInv, Prepare
    PROVE  Becomes(Fd(Main), 0, FALSE, {"send", "recv"}, <<>>)
<1>0. PICK none \in Seq(Clients) : none = <<>>
  BY EmptySeq, Zenon
<1> DEFINE x == [Unused EXCEPT !.live = {"send", "recv"}]
<1>1. Fd(Main) \in Descriptors
  BY AtDescriptor, Threaded DEF Prepare, In
<1>2. x.disable = 0 /\ x.http = FALSE /\ x.live = {"send", "recv"} /\ x.out = none /\ x \in Slot
  <2>1. PICK u : u = Unused
    OBVIOUS
  <2>2. u = [disable |-> 0, http |-> FALSE, live |-> {}, out |-> none]
    BY <1>0, <2>1 DEF Unused
  <2>3. x = [u EXCEPT !.live = {"send", "recv"}]
    BY <2>1
  <2> HIDE DEF x
  <2>4. u \in Slot /\ u.disable = 0 /\ u.out = none
    <3>1. {} \in SUBSET {"send", "recv"} /\ 0 \in 0..2 /\ FALSE \in BOOLEAN
      OBVIOUS
    <3> QED
      BY <2>2, <3>1 DEF Slot
  <2>5. u.http = FALSE
    BY <2>2, Zenon
  <2>6. x \in Slot /\ x.live = {"send", "recv"} /\ x.disable = 0 /\ x.out = none /\ x.http = u.http
    BY <2>3, <2>4 DEF Slot
  <2> QED
    BY <2>5, <2>6, Zenon
<1>3. slot' = [slot EXCEPT ![Fd(Main)] = x]
  BY DEF Prepare
<1> HIDE DEF x
<1>4. Becomes(Fd(Main), x.disable, x.http, x.live, x.out)
  BY <1>1, <1>2, <1>3, SlotSet
<1> QED
  BY <1>0, <1>2, <1>4

LEMMA SlotFields ==
    ASSUME TableInv, NEW fd \in Descriptors
    PROVE  /\ slot[fd] = [disable |-> slot[fd].disable, http |-> slot[fd].http,
                          live |-> slot[fd].live, out |-> slot[fd].out]
           /\ slot[fd].disable \in 0..2 /\ slot[fd].http \in BOOLEAN
           /\ slot[fd].live \in SUBSET {"send", "recv"} /\ slot[fd].out \in Seq(Clients)
           /\ slot \in [Descriptors -> Slot]
BY DEF TableInv, SlotsOK, Slot

LEMMA SlotDisable ==
    ASSUME TableInv, NEW fd \in Descriptors, NEW d \in 0..2, slot' = [slot EXCEPT ![fd].disable = d]
    PROVE  Becomes(fd, d, slot[fd].http, slot[fd].live, slot[fd].out)
<1> DEFINE x == [slot[fd] EXCEPT !.disable = d]
<1>1. /\ x \in Slot /\ x.disable = d
      /\ x.http = slot[fd].http /\ x.live = slot[fd].live /\ x.out = slot[fd].out
  BY SlotFields DEF Slot
<1>2. slot' = [slot EXCEPT ![fd] = x]
  OBVIOUS
<1> HIDE DEF x
<1>3. Becomes(fd, x.disable, x.http, x.live, x.out)
  BY <1>1, <1>2, SlotSet
<1> QED
  BY <1>1, <1>3

LEMMA SlotHttp ==
    ASSUME TableInv, NEW fd \in Descriptors, NEW h \in BOOLEAN, slot' = [slot EXCEPT ![fd].http = h]
    PROVE  Becomes(fd, slot[fd].disable, h, slot[fd].live, slot[fd].out)
<1> DEFINE x == [slot[fd] EXCEPT !.http = h]
<1>1. /\ x \in Slot /\ x.http = h
      /\ x.disable = slot[fd].disable /\ x.live = slot[fd].live /\ x.out = slot[fd].out
  BY SlotFields DEF Slot
<1>2. slot' = [slot EXCEPT ![fd] = x]
  OBVIOUS
<1> HIDE DEF x
<1>3. Becomes(fd, x.disable, x.http, x.live, x.out)
  BY <1>1, <1>2, SlotSet
<1> QED
  BY <1>1, <1>3

LEMMA SlotOut ==
    ASSUME TableInv, NEW fd \in Descriptors, NEW o \in Seq(Clients), slot' = [slot EXCEPT ![fd].out = o]
    PROVE  Becomes(fd, slot[fd].disable, slot[fd].http, slot[fd].live, o)
<1> DEFINE x == [slot[fd] EXCEPT !.out = o]
<1>1. /\ x \in Slot /\ x.out = o
      /\ x.disable = slot[fd].disable /\ x.http = slot[fd].http /\ x.live = slot[fd].live
  BY SlotFields DEF Slot
<1>2. slot' = [slot EXCEPT ![fd] = x]
  OBVIOUS
<1> HIDE DEF x
<1>3. Becomes(fd, x.disable, x.http, x.live, x.out)
  BY <1>1, <1>2, SlotSet
<1> QED
  BY <1>1, <1>3

LEMMA SlotFreeSend ==
    ASSUME TableInv, NEW r \in ReactorIds, FreeSend(r)
    PROVE  Becomes(Fd(r), slot[Fd(r)].disable, slot[Fd(r)].http, slot[Fd(r)].live \ {"send"}, <<>>)
<1>1. PICK fd \in Descriptors : fd = Fd(r)
  BY AtDescriptor, Threaded DEF FreeSend, In
<1>0. PICK none \in Seq(Clients) : none = <<>>
  BY EmptySeq, Zenon
<1> DEFINE x == [slot[fd] EXCEPT !.live = @ \ {"send"}, !.out = none]
<1>2. slot' = [slot EXCEPT ![fd] = x]
  BY <1>0, <1>1 DEF FreeSend
<1>3. /\ x \in Slot /\ x.live = slot[fd].live \ {"send"} /\ x.out = none
      /\ x.disable = slot[fd].disable /\ x.http = slot[fd].http
  BY SlotFields DEF Slot
<1> HIDE DEF x
<1>4. Becomes(fd, x.disable, x.http, x.live, x.out)
  BY <1>2, <1>3, SlotSet
<1> QED
  BY <1>0, <1>1, <1>3, <1>4

LEMMA SlotFreeRecv ==
    ASSUME TableInv, NEW r \in ReactorIds, FreeRecv(r)
    PROVE  Becomes(Fd(r), slot[Fd(r)].disable, slot[Fd(r)].http, slot[Fd(r)].live \ {"recv"}, slot[Fd(r)].out)
<1>1. PICK fd \in Descriptors : fd = Fd(r)
  BY AtDescriptor, Threaded DEF FreeRecv, In
<1> DEFINE x == [slot[fd] EXCEPT !.live = @ \ {"recv"}]
<1>2. slot' = [slot EXCEPT ![fd] = x]
  BY <1>1 DEF FreeRecv
<1>3. /\ x \in Slot /\ x.live = slot[fd].live \ {"recv"} /\ x.out = slot[fd].out
      /\ x.disable = slot[fd].disable /\ x.http = slot[fd].http
  BY SlotFields DEF Slot
<1> HIDE DEF x
<1>4. Becomes(fd, x.disable, x.http, x.live, x.out)
  BY <1>2, <1>3, SlotSet
<1> QED
  BY <1>1, <1>3, <1>4

\* What is appended to the buffer and what is left of it.
LEMMA SlotAppend ==
    ASSUME TableInv, NEW r \in ReactorIds, AppendReply(r)
    PROVE  LET o == IF "send" \in slot[Fd(r)].live THEN Append(slot[Fd(r)].out, thread[r].of) ELSE slot[Fd(r)].out
           IN o \in Seq(Clients) /\ Becomes(Fd(r), slot[Fd(r)].disable, slot[Fd(r)].http, slot[Fd(r)].live, o)
<1>1. PICK fd \in Descriptors : fd = Fd(r)
  BY AtDescriptor, Threaded DEF AppendReply, In
<1> DEFINE o == IF "send" \in slot[fd].live THEN Append(slot[fd].out, thread[r].of) ELSE slot[fd].out
<1>2. slot' = [slot EXCEPT ![fd].out = o]
  BY <1>1, SlotFields DEF AppendReply
<1>3. o \in Seq(Clients)
  <2>1. thread[r].of \in Clients
    BY AtWork, Threaded DEF AppendReply, In, PlaceOK, ClientPcs
  <2> QED
    BY <2>1, SlotFields, AppendProperties
<1> HIDE DEF o
<1>4. Becomes(fd, slot[fd].disable, slot[fd].http, slot[fd].live, o)
  BY <1>2, <1>3, SlotOut
<1> QED
  BY <1>1, <1>3, <1>4 DEF o

LEMMA SlotDrop ==
    ASSUME TableInv, NEW r \in ReactorIds, DropWritten(r)
    PROVE  LET old == slot[Fd(r)].out
               o == SubSeq(old, thread[r].num + 1, Len(old))
           IN /\ o \in Seq(Clients) /\ Becomes(Fd(r), slot[Fd(r)].disable, slot[Fd(r)].http, slot[Fd(r)].live, o)
              /\ \A i \in DOMAIN o : \E j \in DOMAIN old : o[i] = old[j]
<1>1. PICK fd \in Descriptors : fd = Fd(r)
  BY AtDescriptor, Threaded DEF DropWritten, In
<1>2. PICK n \in Nat : n = thread[r].num
  BY AtWork, Threaded DEF DropWritten, In, PlaceOK
<1> DEFINE old == slot[fd].out
           o == SubSeq(old, n + 1, Len(old))
<1>3. slot' = [slot EXCEPT ![fd].out = o]
  BY <1>1, <1>2, SlotFields DEF DropWritten
<1>4. o \in Seq(Clients) /\ \A i \in DOMAIN o : \E j \in DOMAIN old : o[i] = old[j]
  <2>1. old \in Seq(Clients)
    BY SlotFields
  <2> HIDE DEF old
  <2>2. Len(old) \in Nat /\ DOMAIN old = 1..Len(old) /\ \A i \in 1..Len(old) : old[i] \in Clients
    BY <2>1, LenProperties, ElementOfSeq
  <2>3. /\ o \in Seq(Clients) /\ Len(o) = IF n + 1 <= Len(old) THEN Len(old) - (n + 1) + 1 ELSE 0
        /\ \A i \in 1..Len(old) - (n + 1) + 1 : o[i] = old[n + 1 + i - 1]
    <3>1. n + 1 \in Int /\ Len(old) \in Int /\ \A i \in n + 1..Len(old) : old[i] \in Clients
      BY <2>2
    <3> QED
      BY <3>1, SubSeqProperties
  <2> HIDE DEF o
  <2>4. DOMAIN o = 1..Len(o)
    BY <2>3, LenProperties
  <2>5. ASSUME NEW i \in DOMAIN o PROVE \E j \in DOMAIN old : o[i] = old[j]
    <3> DEFINE k == Len(old)
    <3>0. k \in Nat /\ i \in 1..(IF n + 1 <= k THEN k - (n + 1) + 1 ELSE 0)
      BY <2>2, <2>3, <2>4
    <3>1. i \in 1..k - (n + 1) + 1 /\ n + i \in 1..k /\ n + 1 + i - 1 = n + i
      <4> HIDE DEF k
      <4> QED
        BY <3>0
    <3>2. o[i] = old[n + i]
      BY <2>3, <3>1
    <3> QED
      BY <2>2, <3>1, <3>2
  <2> QED
    BY <2>3, <2>5
<1> HIDE DEF o
<1>5. Becomes(fd, slot[fd].disable, slot[fd].http, slot[fd].live, o)
  BY <1>3, <1>4, SlotOut
<1> QED
  BY <1>1, <1>2, <1>4, <1>5 DEF o

\* The steps that leave every slot alone.
LEMMA SlotSteps ==
    ASSUME [TableNext]_tableVars, UNCHANGED slot => FALSE
    PROVE  \/ Prepare
           \/ \E r \in ReactorIds : \/ Disable(r) \/ FreeSend(r) \/ FreeRecv(r) \/ Receive(r) \/ DropWritten(r)
                                  \/ AppendReply(r) \/ Mark(r)
<1>1. ~ UNCHANGED tableVars
  BY DEF tableVars
<1>2. MainStep => Prepare
  BY DEF MainStep, Accept, AcceptOverLimit, Watch, Refuse, Load, StoreMore, Announce
<1>3. \A r \in ReactorIds : ~Dispatch(r) /\ \A fd \in Descriptors : \A bit \in {"readable", "writable"} : ~Fire(r, fd, bit)
  BY DEF Dispatch, Fire
<1>4. \A r \in ReactorIds : FreeStep(r) => Disable(r) \/ FreeSend(r) \/ FreeRecv(r)
  BY DEF FreeStep, Unread, Unwrite, Load, StoreLess, CloseFd
<1>5. \A r \in ReactorIds : ReadStep(r) => Receive(r)
  BY DEF ReadStep, ReadRequest, ReadAgain, ReadEnd, PostMessage, TrimReceived, PostClose
<1>6. \A r \in ReactorIds : WriteStep(r) => DropWritten(r)
  BY DEF WriteStep, TestDisabled, TestPending, Quiet, WriteOut, WriteFails, TestLeft, Unwatch, TestEnded
<1>7. \A r \in ReactorIds : AnswerStep(r) => AppendReply(r) \/ Mark(r)
  BY DEF AnswerStep, TakeAnswer, TestReply, Arm, ArmFails, TestUnsent
<1>8. /\ \A c \in Clients : ~Hangup(c)
      /\ \A close \in BOOLEAN : ~Work(close)
  BY DEF Hangup, Work
<1>9. TableNext
  BY <1>1
<1> QED
  BY <1>2, <1>3, <1>4, <1>5, <1>6, <1>7, <1>8, <1>9 DEF TableNext

LEMMA StepSlots ==
    ASSUME TableInv, [TableNext]_tableVars
    PROVE  SlotsOK'
<1>0. \A r \in ReactorIds : thread[r].pc # "idle" => Fd(r) \in Descriptors
  BY AtDescriptor, Threaded
<1>1. CASE UNCHANGED slot
  BY <1>1 DEF TableInv, SlotsOK
<1>2. CASE Prepare
  BY <1>2, SlotPrepare DEF Becomes
<1>3. ASSUME NEW r \in ReactorIds, Disable(r) \/ Mark(r) PROVE SlotsOK'
  <2>1. Fd(r) \in Descriptors /\ \E d \in 0..2 : slot' = [slot EXCEPT ![Fd(r)].disable = d]
    BY <1>0, <1>3 DEF Disable, Mark, In
  <2> QED
    BY <2>1, SlotDisable DEF Becomes
<1>4. ASSUME NEW r \in ReactorIds, FreeSend(r) \/ FreeRecv(r) PROVE SlotsOK'
  BY <1>4, SlotFreeSend, SlotFreeRecv DEF Becomes
<1>5. ASSUME NEW r \in ReactorIds, Receive(r) PROVE SlotsOK'
  <2> DEFINE h == thread[r].of \in HttpClients
  <2>1. Fd(r) \in Descriptors /\ slot' = [slot EXCEPT ![Fd(r)].http = h] /\ h \in BOOLEAN
    BY <1>0, <1>5 DEF Receive, In
  <2> HIDE DEF h
  <2> QED
    BY <2>1, SlotHttp DEF Becomes
<1>6. ASSUME NEW r \in ReactorIds, DropWritten(r) \/ AppendReply(r) PROVE SlotsOK'
  BY <1>6, SlotDrop, SlotAppend DEF Becomes
<1> QED
  BY <1>1, <1>2, <1>3, <1>4, <1>5, <1>6, SlotSteps

\* What registering and removing an event do.
LEMMA RegisterDoes ==
    ASSUME mask \in Events, registered \in Events, NEW r \in ReactorIds, NEW fd \in Descriptors,
           NEW bit \in {"readable", "writable"}, Register(r, fd, bit)
    PROVE  /\ mask' \in Events /\ registered' \in Events
           /\ \A q \in ReactorIds : \A d \in Descriptors :
                /\ mask'[q][d] = IF q = r /\ d = fd THEN mask[r][fd] \cup {bit} ELSE mask[q][d]
                /\ registered'[q][d] = IF q = r /\ d = fd THEN mask[r][fd] \cup {bit} ELSE registered[q][d]
<1> DEFINE x == mask[r][fd] \cup {bit}
<1>1. x \in SUBSET {"readable", "writable"}
  BY DEF Events
<1>2. mask' = [mask EXCEPT ![r][fd] = x] /\ registered' = [registered EXCEPT ![r][fd] = x]
  BY DEF Register, Events
<1> HIDE DEF x
<1>3. /\ mask' \in Events
      /\ \A q \in ReactorIds : \A d \in Descriptors :
           mask'[q][d] = IF q = r /\ d = fd THEN x ELSE mask[q][d]
  BY <1>1, <1>2 DEF Events
<1>4. /\ registered' \in Events
      /\ \A q \in ReactorIds : \A d \in Descriptors :
           registered'[q][d] = IF q = r /\ d = fd THEN x ELSE registered[q][d]
  BY <1>1, <1>2 DEF Events
<1> QED
  BY <1>3, <1>4 DEF x

LEMMA UnregisterDoes ==
    ASSUME mask \in Events, registered \in Events, NEW r \in ReactorIds, NEW fd \in Descriptors,
           NEW bit \in {"readable", "writable"}, Unregister(r, fd, bit)
    PROVE  LET x == mask[r][fd] \ {bit}
               y == IF registered[r][fd] = {} THEN {} ELSE x
           IN /\ mask' \in Events /\ registered' \in Events
              /\ \A q \in ReactorIds : \A d \in Descriptors :
                   /\ mask'[q][d] = IF q = r /\ d = fd THEN x ELSE mask[q][d]
                   /\ registered'[q][d] = IF q = r /\ d = fd THEN y ELSE registered[q][d]
<1> DEFINE x == mask[r][fd] \ {bit}
           y == IF registered[r][fd] = {} THEN {} ELSE x
<1>1. x \in SUBSET {"readable", "writable"} /\ y \in SUBSET {"readable", "writable"}
  BY DEF Events
<1>2. mask' = [mask EXCEPT ![r][fd] = x] /\ registered' = [registered EXCEPT ![r][fd] = y]
  BY DEF Unregister, Events
<1> HIDE DEF x, y
<1>3. /\ mask' \in Events
      /\ \A q \in ReactorIds : \A d \in Descriptors :
           mask'[q][d] = IF q = r /\ d = fd THEN x ELSE mask[q][d]
  BY <1>1, <1>2 DEF Events
<1>4. /\ registered' \in Events
      /\ \A q \in ReactorIds : \A d \in Descriptors :
           registered'[q][d] = IF q = r /\ d = fd THEN y ELSE registered[q][d]
  BY <1>1, <1>2 DEF Events
<1> QED
  BY <1>3, <1>4 DEF x, y


LEMMA ForgottenDoes ==
    ASSUME registered \in Events, NEW fd, registered' = Forgotten(fd)
    PROVE  /\ registered' \in Events
           /\ \A q \in ReactorIds : \A d \in Descriptors :
                registered'[q][d] = IF d = fd THEN {} ELSE registered[q][d]
<1> DEFINE Row(q) == [registered[q] EXCEPT ![fd] = {}]
           B == SUBSET {"readable", "writable"}
<1>1. {} \in B
  OBVIOUS
<1>2. \A q \in ReactorIds : registered[q] \in [Descriptors -> B]
  BY DEF Events
<1> HIDE DEF B
<1>3. \A q \in ReactorIds : Row(q) \in [Descriptors -> B] /\ \A d \in Descriptors : Row(q)[d] = IF d = fd THEN {} ELSE registered[q][d]
  BY <1>1, <1>2
<1>4. registered' = [q \in ReactorIds |-> Row(q)]
  BY DEF Forgotten
<1> HIDE DEF Row
<1>5. registered' \in [ReactorIds -> [Descriptors -> B]] /\ \A q \in ReactorIds : registered'[q] = Row(q)
  BY <1>3, <1>4
<1> QED
  BY <1>3, <1>5 DEF Events, B

LEMMA LoopSteps ==
    ASSUME [TableNext]_tableVars, UNCHANGED loopVars => FALSE
    PROVE  \/ Watch \/ Refuse
           \/ \E r \in ReactorIds : Unread(r) \/ Unwrite(r) \/ CloseFd(r) \/ Quiet(r) \/ Unwatch(r) \/ Arm(r)
<1>1. ~ UNCHANGED tableVars
  BY DEF tableVars
<1>2. MainStep => Watch \/ Refuse
  BY DEF MainStep, Accept, AcceptOverLimit, Prepare, Load, StoreMore, Announce
<1>3. \A r \in ReactorIds : ~Dispatch(r) /\ \A fd \in Descriptors : \A bit \in {"readable", "writable"} : ~Fire(r, fd, bit)
  BY DEF Dispatch, Fire
<1>4. \A r \in ReactorIds : FreeStep(r) => Unread(r) \/ Unwrite(r) \/ CloseFd(r)
  BY DEF FreeStep, Disable, FreeSend, FreeRecv, Load, StoreLess
<1>5. \A r \in ReactorIds : ~ReadStep(r)
  BY DEF ReadStep, ReadRequest, ReadAgain, ReadEnd, Receive, PostMessage, TrimReceived, PostClose
<1>6. \A r \in ReactorIds : WriteStep(r) => Quiet(r) \/ Unwatch(r)
  BY DEF WriteStep, TestDisabled, TestPending, WriteOut, WriteFails, DropWritten, TestLeft, TestEnded
<1>7. \A r \in ReactorIds : AnswerStep(r) => Arm(r)
  BY DEF AnswerStep, TakeAnswer, TestReply, ArmFails, AppendReply, TestUnsent, Mark
<1>8. /\ \A c \in Clients : ~Hangup(c)
      /\ \A close \in BOOLEAN : ~Work(close)
  BY DEF Hangup, Work
<1>9. TableNext
  BY <1>1
<1> QED
  BY <1>2, <1>3, <1>4, <1>5, <1>6, <1>7, <1>8, <1>9 DEF TableNext

LEMMA StepLoops ==
    ASSUME TableInv, [TableNext]_tableVars
    PROVE  LoopsOK'
<1>0. mask \in Events /\ registered \in Events
  BY DEF TableInv, LoopsOK
<1>1. \A t \in Threads : thread[t].pc # "idle" => Fd(t) \in Descriptors /\ OwnerOf(Fd(t)) \in ReactorIds
  BY AtDescriptor, OwnerType
<1>2. CASE UNCHANGED loopVars
  BY <1>0, <1>2 DEF LoopsOK, loopVars
<1>3. CASE Watch
  <2>1. Main \in Threads /\ thread[Main].pc # "idle" /\ Register(OwnerOf(Fd(Main)), Fd(Main), "readable")
    BY <1>3, Threaded DEF Watch, In
  <2> QED
    BY <1>0, <1>1, <2>1, RegisterDoes DEF LoopsOK
<1>4. CASE Refuse
  BY <1>0, <1>4, ForgottenDoes DEF Refuse, LoopsOK
<1>5. ASSUME NEW r \in ReactorIds, CloseFd(r) PROVE LoopsOK'
  BY <1>0, <1>5, ForgottenDoes DEF CloseFd, LoopsOK
<1>6. ASSUME NEW r \in ReactorIds, Unread(r) \/ Unwrite(r) \/ Quiet(r) \/ Unwatch(r) PROVE LoopsOK'
  <2>1. r \in Threads /\ thread[r].pc # "idle"
    BY <1>6, Threaded DEF Unread, Unwrite, Quiet, Unwatch, In
  <2>2. \E q \in {r, OwnerOf(Fd(r))} : \E bit \in {"readable", "writable"} : Unregister(q, Fd(r), bit)
    BY <1>6 DEF Unread, Unwrite, Quiet, Unwatch
  <2> QED
    BY <1>0, <1>1, <2>1, <2>2, UnregisterDoes DEF LoopsOK
<1>7. ASSUME NEW r \in ReactorIds, Arm(r) PROVE LoopsOK'
  <2>1. r \in Threads /\ thread[r].pc # "idle" /\ Register(r, Fd(r), "writable")
    BY <1>7, Threaded DEF Arm, In
  <2> QED
    BY <1>0, <1>1, <2>1, RegisterDoes DEF LoopsOK
<1> QED
  BY <1>2, <1>3, <1>4, <1>5, <1>6, <1>7, LoopSteps

\* A client that is forgotten, and the records of the clients.
LEMMA LessPeers ==
    ASSUME peers \in Peers, NEW c
    PROVE  Less(c) \in Peers
BY DEF Less, Peers

LEMMA StepNet ==
    ASSUME TableInv, [TableNext]_tableVars
    PROVE  NetOK'
<1>0. peers \in Peers /\ sock \in [Descriptors -> Clients \cup {Nobody}]
  BY DEF TableInv, NetOK
<1>1. CASE UNCHANGED netVars
  BY <1>0, <1>1 DEF NetOK, netVars
<1>2. CASE MainStep
  <2>1. CASE Accept
    <3>1. /\ peers' = [peers EXCEPT !.new = @ \ {NewClient},
                         !.sending = IF NewClient \in peers.gone THEN @ ELSE @ \cup {NewClient}]
          /\ sock' = [sock EXCEPT ![NewFd] = NewClient] /\ NewClient \in Clients
      BY <2>1, AcceptDoes
    <3>2. peers' \in Peers
      BY <1>0, <3>1 DEF Peers
    <3> QED
      BY <1>0, <3>1, <3>2 DEF NetOK
  <2>2. CASE AcceptOverLimit
    BY <1>0, <2>2, LessPeers DEF AcceptOverLimit, NetOK
  <2>3. CASE Refuse
    BY <1>0, <2>3, LessPeers DEF Refuse, NetOK
  <2>4. CASE Prepare \/ Watch \/ Load(Main) \/ StoreMore \/ Announce
    BY <1>1, <2>4 DEF Prepare, Watch, Load, StoreMore, Announce
  <2> QED
    BY <1>2, <2>1, <2>2, <2>3, <2>4 DEF MainStep
<1>3. ASSUME NEW r \in ReactorIds, Dispatch(r) PROVE NetOK'
  BY <1>1, <1>3 DEF Dispatch
<1>4. ASSUME NEW r \in ReactorIds, FreeStep(r) PROVE NetOK'
  <2>1. CASE CloseFd(r)
    BY <1>0, <2>1, LessPeers DEF CloseFd, NetOK
  <2>2. CASE Disable(r) \/ Unread(r) \/ Unwrite(r) \/ FreeSend(r) \/ FreeRecv(r) \/ Load(r) \/ StoreLess(r)
    BY <1>1, <2>2 DEF Disable, Unread, Unwrite, FreeSend, FreeRecv, Load, StoreLess
  <2> QED
    BY <1>4, <2>1, <2>2 DEF FreeStep
<1>5. ASSUME NEW r \in ReactorIds, ReadStep(r) PROVE NetOK'
  <2>1. CASE ReadRequest(r)
    <3>1. peers' = [peers EXCEPT !.sent = @ \ {sock[Fd(r)]}] /\ sock' = sock
      BY <2>1 DEF ReadRequest
    <3>2. peers' \in Peers
      BY <1>0, <3>1 DEF Peers
    <3> QED
      BY <1>0, <3>1, <3>2 DEF NetOK
  <2>2. CASE ReadAgain(r) \/ ReadEnd(r) \/ Receive(r) \/ PostMessage(r) \/ TrimReceived(r) \/ PostClose(r)
    BY <1>1, <2>2 DEF ReadAgain, ReadEnd, Receive, PostMessage, TrimReceived, PostClose
  <2> QED
    BY <1>5, <2>1, <2>2 DEF ReadStep
<1>6. ASSUME NEW r \in ReactorIds, WriteStep(r) PROVE NetOK'
  BY <1>1, <1>6 DEF WriteStep, TestDisabled, TestPending, Quiet, WriteOut, WriteFails, DropWritten, TestLeft, Unwatch, TestEnded
<1>7. ASSUME NEW r \in ReactorIds, AnswerStep(r) PROVE NetOK'
  BY <1>1, <1>7 DEF AnswerStep, TakeAnswer, TestReply, Arm, ArmFails, AppendReply, TestUnsent, Mark
<1>8. ASSUME NEW r \in ReactorIds, NEW fd \in Descriptors, NEW bit \in {"readable", "writable"},
             Fire(r, fd, bit)
      PROVE  NetOK'
  <2>1. sock' = sock /\ sock[fd] \in Clients \cup {Nobody}
    BY <1>0, <1>8 DEF Fire
  <2>2. CASE peers' = peers
    BY <1>0, <2>1, <2>2 DEF NetOK
  <2>3. CASE peers' = [peers EXCEPT !.sending = @ \ {sock[fd]}, !.sent = @ \cup {sock[fd]}]
             /\ sock[fd] \in peers.sending
    <3>1. sock[fd] \in Clients
      BY <1>0, <2>3 DEF Peers
    <3>2. peers' \in Peers
      BY <1>0, <2>3, <3>1 DEF Peers
    <3> QED
      BY <1>0, <2>1, <3>2 DEF NetOK
  <2> QED
    BY <1>8, <2>2, <2>3 DEF Fire
<1>9. ASSUME NEW c \in Clients, Hangup(c) PROVE NetOK'
  <2>1. peers' = [peers EXCEPT !.gone = @ \cup {c}, !.sending = @ \ {c}] /\ sock' = sock
    BY <1>9 DEF Hangup
  <2>2. peers' \in Peers
    BY <1>0, <2>1 DEF Peers
  <2> QED
    BY <1>0, <2>1, <2>2 DEF NetOK
<1>10. ASSUME NEW close \in BOOLEAN, Work(close) PROVE NetOK'
  BY <1>1, <1>10 DEF Work
<1>11. CASE UNCHANGED tableVars
  BY <1>1, <1>11 DEF tableVars
<1> QED
  BY <1>2, <1>3, <1>4, <1>5, <1>6, <1>7, <1>8, <1>9, <1>10, <1>11 DEF TableNext

\* The messages of a queue that one is added to and of one that its first is taken from.
LEMMA Queued ==
    ASSUME NEW S, NEW s \in Seq(S), NEW x \in S
    PROVE  /\ Append(s, x) \in Seq(S)
           /\ \A i \in DOMAIN Append(s, x) : (i \in DOMAIN s /\ Append(s, x)[i] = s[i]) \/ Append(s, x)[i] = x
<1>1. /\ Append(s, x) \in Seq(S) /\ Len(Append(s, x)) = Len(s) + 1
      /\ \A i \in 1..Len(s) : Append(s, x)[i] = s[i]
      /\ Append(s, x)[Len(s) + 1] = x
  BY AppendProperties
<1>2. DOMAIN s = 1..Len(s) /\ DOMAIN Append(s, x) = 1..Len(s) + 1 /\ Len(s) \in Nat
  BY <1>1, LenProperties
<1>3. \A i \in 1..Len(s) + 1 : i \in 1..Len(s) \/ i = Len(s) + 1
  BY <1>2
<1> QED
  BY <1>1, <1>2, <1>3

LEMMA Unqueued ==
    ASSUME NEW S, NEW s \in Seq(S), s # <<>>
    PROVE  /\ Tail(s) \in Seq(S) /\ Head(s) \in S
           /\ 1 \in DOMAIN s /\ Head(s) = s[1]
           /\ \A i \in DOMAIN Tail(s) : i + 1 \in DOMAIN s /\ Tail(s)[i] = s[i + 1]
<1>1. /\ Tail(s) \in Seq(S) /\ Head(s) \in S /\ Len(Tail(s)) = Len(s) - 1
      /\ \A i \in 1..Len(Tail(s)) : Tail(s)[i] = s[i + 1]
  BY HeadTailProperties
<1>2. DOMAIN s = 1..Len(s) /\ DOMAIN Tail(s) = 1..Len(Tail(s)) /\ Len(s) \in Nat \ {0}
  BY <1>1, LenProperties, EmptySeq
<1>3. 1 \in 1..Len(s) /\ \A i \in 1..Len(Tail(s)) : i + 1 \in 1..Len(s)
  BY <1>1, <1>2
<1>4. Head(s) = s[1]
  BY DEF Head
<1> QED
  BY <1>1, <1>2, <1>3, <1>4

LEMMA MsgType ==
    ASSUME NEW fd \in Descriptors, NEW c \in Clients \cup {Nobody}
    PROVE  /\ Msg("connect", fd, c) \in Message
           /\ \A type \in {"message", "close"} : c \in Clients => Msg(type, fd, c) \in Answer
           /\ \A type : Msg(type, fd, c).type = type /\ Msg(type, fd, c).fd = fd /\ Msg(type, fd, c).of = c
BY DEF Msg, Message, Answer

\* What the worker does with the first message.
LEMMA WorkDoes ==
    ASSUME TableInv, NEW close \in BOOLEAN, Work(close)
    PROVE  LET m == Head(toWorker)
           IN /\ toWorker # <<>> /\ toWorker' = Tail(toWorker)
              /\ m \in Message
              /\ \/ m.type # "message" /\ toMaster' = toMaster
                 \/ /\ m.type = "message" /\ m \in Answer
                    /\ \/ toMaster' = Append(toMaster, Msg("message", m.fd, m.of))
                       \/ toMaster' = Append(Append(toMaster, Msg("message", m.fd, m.of)), Msg("close", m.fd, m.of))
<1> DEFINE m == Head(toWorker)
           a == Msg("message", m.fd, m.of)
           b == Msg("close", m.fd, m.of)
<1>1. toWorker # <<>> /\ toWorker' = Tail(toWorker) /\ toWorker \in Seq(Message) /\ toMaster \in Seq(Answer)
  BY DEF Work, TableInv, PipesOK
<1>2. m \in Message
  BY <1>1, HeadTailProperties
<1>3. m.type = "message" => m \in Answer
  BY <1>2 DEF Message, Answer
<1>4. m.type # "message" => toMaster' = toMaster
  BY DEF Work
<1>5. ASSUME m.type = "message"
      PROVE  toMaster' = Append(toMaster, a) \/ toMaster' = Append(Append(toMaster, a), b)
  <2>1. toMaster' = toMaster \o <<a>> \o (IF close THEN <<b>> ELSE <<>>)
    BY <1>5 DEF Work
  <2>2. m.fd \in Descriptors /\ m.of \in Clients
    BY <1>3, <1>5 DEF Answer
  <2>3. a \in Answer /\ b \in Answer
    BY <2>2, MsgType
  <2> HIDE DEF a, b, m
  <2>4. Append(toMaster, a) = toMaster \o <<a>> /\ Append(toMaster, a) \in Seq(Answer)
    BY <1>1, <2>3, AppendIsConcat, AppendProperties
  <2>5. Append(Append(toMaster, a), b) = Append(toMaster, a) \o <<b>>
    BY <2>3, <2>4, AppendIsConcat
  <2>6. Append(toMaster, a) \o <<>> = Append(toMaster, a)
    BY <2>4, ConcatEmptySeq
  <2>7. CASE close
    <3>1. toMaster' = toMaster \o <<a>> \o <<b>>
      BY <2>1, <2>7, Zenon
    <3> QED
      BY <2>4, <2>5, <3>1, Zenon
  <2>8. CASE ~close
    <3>1. toMaster' = toMaster \o <<a>> \o <<>>
      BY <2>1, <2>8, Zenon
    <3> QED
      BY <2>4, <2>6, <3>1, Zenon
  <2> QED
    BY <2>7, <2>8
<1> QED
  BY <1>1, <1>2, <1>3, <1>4, <1>5

LEMMA PipeSteps ==
    ASSUME [TableNext]_tableVars, UNCHANGED pipeVars => FALSE
    PROVE  \/ Announce
           \/ \E r \in ReactorIds : PostMessage(r) \/ PostClose(r) \/ TakeAnswer(r)
           \/ \E close \in BOOLEAN : Work(close)
<1>1. ~ UNCHANGED tableVars
  BY DEF tableVars
<1>2. MainStep => Announce
  BY DEF MainStep, Accept, AcceptOverLimit, Prepare, Watch, Refuse, Load, StoreMore
<1>3. \A r \in ReactorIds : ~Dispatch(r) /\ \A fd \in Descriptors : \A bit \in {"readable", "writable"} : ~Fire(r, fd, bit)
  BY DEF Dispatch, Fire
<1>4. \A r \in ReactorIds : ~FreeStep(r)
  BY DEF FreeStep, Disable, Unread, Unwrite, FreeSend, FreeRecv, Load, StoreLess, CloseFd
<1>5. \A r \in ReactorIds : ReadStep(r) => PostMessage(r) \/ PostClose(r)
  BY DEF ReadStep, ReadRequest, ReadAgain, ReadEnd, Receive, TrimReceived
<1>6. \A r \in ReactorIds : ~WriteStep(r)
  BY DEF WriteStep, TestDisabled, TestPending, Quiet, WriteOut, WriteFails, DropWritten, TestLeft, Unwatch, TestEnded
<1>7. \A r \in ReactorIds : AnswerStep(r) => TakeAnswer(r)
  BY DEF AnswerStep, TestReply, Arm, ArmFails, AppendReply, TestUnsent, Mark
<1>8. \A c \in Clients : ~Hangup(c)
  BY DEF Hangup
<1>9. TableNext
  BY <1>1
<1> QED
  BY <1>2, <1>3, <1>4, <1>5, <1>6, <1>7, <1>8, <1>9 DEF TableNext

LEMMA StepPipes ==
    ASSUME TableInv, [TableNext]_tableVars
    PROVE  PipesOK'
<1>0. toWorker \in Seq(Message) /\ toMaster \in Seq(Answer)
  BY DEF TableInv, PipesOK
<1>1. CASE UNCHANGED pipeVars
  BY <1>0, <1>1 DEF PipesOK, pipeVars
<1>2. CASE Announce
  <2>1. Fd(Main) \in Descriptors /\ sock[Fd(Main)] \in Clients \cup {Nobody}
    BY <1>2, AtDescriptor, Threaded DEF Announce, In
  <2>2. Msg("connect", Fd(Main), sock[Fd(Main)]) \in Message
    BY <2>1, MsgType
  <2> QED
    BY <1>0, <1>2, <2>2, Queued DEF Announce, PipesOK
<1>3. ASSUME NEW r \in ReactorIds, PostMessage(r) \/ PostClose(r) PROVE PipesOK'
  <2>1. Fd(r) \in Descriptors /\ thread[r].of \in Clients
    BY <1>3, AtDescriptor, AtWork, Threaded DEF PostMessage, PostClose, In, PlaceOK, ClientPcs
  <2>2. PICK type \in {"message", "close"} : toWorker' = Append(toWorker, Msg(type, Fd(r), thread[r].of)) /\ toMaster' = toMaster
    BY <1>3 DEF PostMessage, PostClose
  <2>3. Msg(type, Fd(r), thread[r].of) \in Message
    BY <2>1, MsgType DEF Message
  <2> QED
    BY <1>0, <2>2, <2>3, Queued DEF PipesOK
<1>4. ASSUME NEW r \in ReactorIds, TakeAnswer(r) PROVE PipesOK'
  BY <1>0, <1>4, Unqueued DEF TakeAnswer, PipesOK
<1>5. ASSUME NEW close \in BOOLEAN, Work(close) PROVE PipesOK'
  <2> DEFINE m == Head(toWorker)
             a == Msg("message", m.fd, m.of)
             b == Msg("close", m.fd, m.of)
  <2>1. /\ toWorker # <<>> /\ toWorker' = Tail(toWorker)
        /\ \/ toMaster' = toMaster
           \/ m \in Answer /\ (toMaster' = Append(toMaster, a) \/ toMaster' = Append(Append(toMaster, a), b))
    BY <1>5, WorkDoes
  <2>2. m \in Answer => a \in Answer /\ b \in Answer
    BY MsgType DEF Answer
  <2> HIDE DEF a, b, m
  <2>3. m \in Answer => Append(toMaster, a) \in Seq(Answer)
    BY <1>0, <2>2, Queued
  <2>4. m \in Answer => Append(Append(toMaster, a), b) \in Seq(Answer)
    BY <2>2, <2>3, Queued
  <2>5. toWorker' \in Seq(Message)
    BY <1>0, <2>1, Unqueued
  <2> QED
    BY <1>0, <2>1, <2>3, <2>4, <2>5 DEF PipesOK
<1> QED
  BY <1>1, <1>2, <1>3, <1>4, <1>5, PipeSteps

LEMMA StepNumbers ==
    ASSUME TableInv, [TableNext]_tableVars
    PROVE  NumbersOK'
<1>0. connectNum \in Int /\ drift \in Int /\ miscounted \in BOOLEAN
  BY DEF TableInv, NumbersOK
<1>1. CASE UNCHANGED <<connectNum, tallyVars>>
  BY <1>0, <1>1 DEF NumbersOK, tallyVars
<1>2. \A t \in Threads : thread[t].pc # "idle" => thread[t].num \in Int
  BY AtWork
<1>3. CASE MainStep
  <2>1. CASE StoreMore
    BY <1>0, <1>2, <2>1, Threaded DEF StoreMore, In, NumbersOK, tallyVars
  <2>2. CASE Refuse
    BY <1>0, <2>2 DEF Refuse, NumbersOK
  <2>3. CASE Load(Main)
    BY <1>0, <2>3 DEF Load, NumbersOK
  <2>4. CASE Accept \/ AcceptOverLimit \/ Prepare \/ Watch \/ Announce
    BY <1>1, <2>4 DEF Accept, AcceptOverLimit, Prepare, Watch, Announce
  <2> QED
    BY <1>3, <2>1, <2>2, <2>3, <2>4 DEF MainStep
<1>4. ASSUME NEW r \in ReactorIds, FreeStep(r) PROVE NumbersOK'
  <2>1. CASE StoreLess(r)
    BY <1>0, <1>2, <2>1, Threaded DEF StoreLess, In, NumbersOK, tallyVars
  <2>2. CASE CloseFd(r)
    BY <1>0, <2>2 DEF CloseFd, NumbersOK
  <2>3. CASE Load(r)
    BY <1>0, <2>3 DEF Load, NumbersOK
  <2>4. CASE Disable(r) \/ Unread(r) \/ Unwrite(r) \/ FreeSend(r) \/ FreeRecv(r)
    BY <1>1, <2>4 DEF Disable, Unread, Unwrite, FreeSend, FreeRecv
  <2> QED
    BY <1>4, <2>1, <2>2, <2>3, <2>4 DEF FreeStep
<1>5. ASSUME NEW r \in ReactorIds, Dispatch(r) \/ ReadStep(r) PROVE NumbersOK'
  BY <1>1, <1>5 DEF Dispatch, ReadStep, ReadRequest, ReadAgain, ReadEnd, Receive, PostMessage, TrimReceived, PostClose
<1>6. ASSUME NEW r \in ReactorIds, WriteStep(r) PROVE NumbersOK'
  BY <1>1, <1>6 DEF WriteStep, TestDisabled, TestPending, Quiet, WriteOut, WriteFails, DropWritten, TestLeft, Unwatch, TestEnded
<1>7. ASSUME NEW r \in ReactorIds, AnswerStep(r) PROVE NumbersOK'
  BY <1>1, <1>7 DEF AnswerStep, TakeAnswer, TestReply, Arm, ArmFails, AppendReply, TestUnsent, Mark
<1>8. ASSUME NEW r \in ReactorIds, NEW fd \in Descriptors, NEW bit \in {"readable", "writable"},
             Fire(r, fd, bit)
      PROVE  NumbersOK'
  BY <1>1, <1>8 DEF Fire
<1>9. ASSUME NEW c \in Clients, Hangup(c) PROVE NumbersOK'
  BY <1>1, <1>9 DEF Hangup
<1>10. ASSUME NEW close \in BOOLEAN, Work(close) PROVE NumbersOK'
  BY <1>1, <1>10 DEF Work
<1>11. CASE UNCHANGED tableVars
  BY <1>1, <1>11 DEF tableVars
<1> QED
  BY <1>3, <1>4, <1>5, <1>6, <1>7, <1>8, <1>9, <1>10, <1>11 DEF TableNext

LEMMA StepHistory ==
    ASSUME TableInv, [TableNext]_tableVars
    PROVE  HistoryOK' /\ risk \subseteq risk'
<1>0. harm \subseteq Harms
  BY DEF TableInv, HistoryOK
<1>1. CASE UNCHANGED <<harm, risk>>
  BY <1>0, <1>1 DEF HistoryOK
<1>2. CASE MainStep
  BY <1>0, <1>2 DEF MainStep, Accept, AcceptOverLimit, Prepare, Watch, Refuse, Load, StoreMore, Announce, Enter, HistoryOK
<1>3. ASSUME NEW r \in ReactorIds, Dispatch(r) PROVE HistoryOK' /\ risk \subseteq risk'
  BY <1>0, <1>3 DEF Dispatch, Enter, HistoryOK
<1>4. ASSUME NEW r \in ReactorIds, FreeStep(r) PROVE HistoryOK' /\ risk \subseteq risk'
  BY <1>0, <1>4 DEF FreeStep, Disable, Unread, Unwrite, FreeSend, FreeRecv, Load, StoreLess, CloseFd, Frees, HistoryOK, Harms
<1>5. ASSUME NEW r \in ReactorIds, ReadStep(r) PROVE HistoryOK' /\ risk \subseteq risk'
  BY <1>0, <1>5 DEF ReadStep, ReadRequest, ReadAgain, ReadEnd, Receive, PostMessage, TrimReceived, PostClose, Uses, HistoryOK, Harms
<1>6. ASSUME NEW r \in ReactorIds, WriteStep(r) PROVE HistoryOK' /\ risk \subseteq risk'
  BY <1>0, <1>6 DEF WriteStep, TestDisabled, TestPending, Quiet, WriteOut, WriteFails, DropWritten, TestLeft, Unwatch, TestEnded,
                    Uses, HistoryOK, Harms
<1>7. ASSUME NEW r \in ReactorIds, AnswerStep(r) PROVE HistoryOK' /\ risk \subseteq risk'
  BY <1>0, <1>7 DEF AnswerStep, TakeAnswer, TestReply, Arm, ArmFails, AppendReply, TestUnsent, Mark, Uses, Enter, HistoryOK, Harms
<1>8. ASSUME NEW r \in ReactorIds, NEW fd \in Descriptors, NEW bit \in {"readable", "writable"},
             Fire(r, fd, bit)
      PROVE  HistoryOK' /\ risk \subseteq risk'
  BY <1>1, <1>8 DEF Fire
<1>9. ASSUME NEW c \in Clients, Hangup(c) PROVE HistoryOK' /\ risk \subseteq risk'
  BY <1>1, <1>9 DEF Hangup
<1>10. ASSUME NEW close \in BOOLEAN, Work(close) PROVE HistoryOK' /\ risk \subseteq risk'
  BY <1>1, <1>10 DEF Work
<1>11. CASE UNCHANGED tableVars
  BY <1>1, <1>11 DEF tableVars
<1> QED
  BY <1>2, <1>3, <1>4, <1>5, <1>6, <1>7, <1>8, <1>9, <1>10, <1>11 DEF TableNext

LEMMA StepTable ==
    ASSUME TableInv, [TableNext]_tableVars
    PROVE  TableInv'
BY StepThreads, StepSlots, StepLoops, StepNet, StepPipes, StepNumbers, StepHistory DEF TableInv

-----------------------------------------------------------------------------
(* The number of connections.                                              *)

\* A thread's next statement, and the end of what it had to do.
LEMMA Moves ==
    ASSUME TableInv, NEW t \in Threads, thread[t].pc # "idle", NEW p, MoveTo(t, p)
    PROVE  /\ thread'[t].pc = p /\ thread'[t].fd = thread[t].fd
           /\ thread'[t].num = thread[t].num /\ thread'[t].of = thread[t].of
           /\ \A u \in Threads : u # t => thread'[u] = thread[u]
<1>1. thread[t] \in Place /\ thread \in [Threads -> {Idle} \cup Place]
  BY AtWork DEF TableInv, ThreadsOK
<1> DEFINE x == [thread[t] EXCEPT !.pc = p]
<1>2. x.pc = p /\ x.fd = thread[t].fd /\ x.num = thread[t].num /\ x.of = thread[t].of
  BY <1>1 DEF Place
<1>3. thread' = [thread EXCEPT ![t] = x]
  BY DEF MoveTo
<1> HIDE DEF x
<1>4. thread'[t] = x /\ \A u \in Threads : u # t => thread'[u] = thread[u]
  BY <1>1, <1>3
<1> QED
  BY <1>2, <1>4

LEMMA Ends ==
    ASSUME TableInv, NEW t \in Threads, Done(t)
    PROVE  thread'[t].pc = "idle" /\ \A u \in Threads : u # t => thread'[u] = thread[u]
BY GoesIdle, Threaded DEF Goes

Opened == {fd \in Descriptors : sock[fd] # Nobody}
Counting == {t \in Threads : In(t, "store")}
Closing == {r \in ReactorIds : In(r, "close")}
Ahead == IF thread[Main].pc \in {"prepare", "watch", "load", "store"} THEN 1 ELSE 0

\* Until two threads change the number at once, the one that is changing it has loaded
\* what it still is.
CountInv ==
    /\ ~miscounted => \A t \in Counting : thread[t].num = connectNum /\ Counting = {t}
    /\ ~miscounted => connectNum = Cardinality(Opened) + drift - Cardinality(Closing) - Ahead

LEMMA CountFinite ==
    /\ IsFiniteSet(Opened) /\ Cardinality(Opened) \in Int
    /\ IsFiniteSet(Closing) /\ Cardinality(Closing) \in Int
    /\ Ahead \in 0..1
<1>1. Opened \subseteq Descriptors /\ Closing \subseteq ReactorIds
  BY DEF Opened, Closing
<1>2. IsFiniteSet(Descriptors) /\ IsFiniteSet(ReactorIds)
  BY NobodyIsNoClient, TableAssumption
<1>3. IsFiniteSet(Opened) /\ IsFiniteSet(Closing)
  BY <1>1, <1>2, FS_Subset
<1>4. Cardinality(Opened) \in Nat /\ Cardinality(Closing) \in Nat
  BY <1>3, FS_CardinalityType
<1> QED
  BY <1>3, <1>4 DEF Ahead

LEMMA InitCount == TableInit => CountInv
<1> SUFFICES ASSUME TableInit PROVE CountInv
  OBVIOUS
<1>1. \A t \in Threads : thread[t].pc = "idle"
  BY DEF TableInit, Idle
<1>2. Opened = {}
  BY DEF TableInit, Opened
<1>3. Closing = {} /\ Counting = {} /\ Ahead = 0
  BY <1>1, Threaded DEF Closing, Counting, Ahead, In
<1>4. connectNum = 0 /\ drift = 0 /\ Cardinality({}) = 0
  BY FS_EmptySet DEF TableInit
<1> QED
  BY <1>2, <1>3, <1>4 DEF CountInv

\* Steps by which nothing of this changes.
LEMMA CountKept ==
    ASSUME TableInv, CountInv, UNCHANGED <<sock, connectNum, drift, miscounted>>, NEW t \in Threads,
           t \in ReactorIds => {thread[t].pc, thread'[t].pc} \cap {"store", "close"} = {},
           t = Main => /\ {thread[t].pc, thread'[t].pc} \cap {"store"} = {}
                       /\ Ahead' = Ahead,
           \A u \in Threads : u # t => thread'[u] = thread[u]
    PROVE  CountInv'
<1>1. Opened' = Opened
  BY DEF Opened
<1>2. Counting' = Counting /\ t \notin Counting
  BY DEF Counting, In, Threads
<1>3. Closing' = Closing
  BY Threaded DEF Closing, In, Threads
<1>4. Ahead' = Ahead
  BY Threaded DEF Ahead, Threads
<1>5. \A u \in Counting : thread'[u] = thread[u]
  BY <1>2 DEF Counting
<1> QED
  BY <1>1, <1>2, <1>3, <1>4, <1>5 DEF CountInv

LEMMA CountSame ==
    ASSUME CountInv, UNCHANGED <<sock, connectNum, tallyVars, thread>>
    PROVE  CountInv'
<1>1. UNCHANGED <<Opened, Counting, Closing, Ahead, connectNum, drift, miscounted>>
  BY DEF Opened, Counting, Closing, Ahead, In, tallyVars
<1> QED
  BY <1>1 DEF CountInv

\* One descriptor more and one less that is open.
LEMMA OpenedMore ==
    ASSUME TableInv, NEW fd \in Descriptors, NEW c \in Clients,
           sock[fd] = Nobody, sock' = [sock EXCEPT ![fd] = c]
    PROVE  Cardinality(Opened') = Cardinality(Opened) + 1
<1>1. Opened' = Opened \cup {fd} /\ fd \notin Opened
  BY NobodyIsNoClient DEF Opened, TableInv, NetOK
<1> QED
  BY <1>1, CountFinite, FS_AddElement

LEMMA OpenedLess ==
    ASSUME TableInv, NEW fd \in Descriptors, sock' = [sock EXCEPT ![fd] = Nobody]
    PROVE  Cardinality(Opened') = IF sock[fd] = Nobody THEN Cardinality(Opened) ELSE Cardinality(Opened) - 1
<1>1. Opened' = Opened \ {fd} /\ (fd \in Opened <=> sock[fd] # Nobody)
  BY DEF Opened, TableInv, NetOK
<1>2. fd \in Opened => Cardinality(Opened \ {fd}) = Cardinality(Opened) - 1
  BY CountFinite, FS_RemoveElement
<1>3. fd \notin Opened => Opened \ {fd} = Opened
  OBVIOUS
<1> QED
  BY <1>1, <1>2, <1>3

LEMMA CountAccept ==
    ASSUME TableInv, CountInv, Accept
    PROVE  CountInv'
<1>1. /\ thread'[Main].pc = "prepare" /\ \A u \in ReactorIds : thread'[u] = thread[u]
      /\ thread[Main].pc = "idle"
  BY ThreadsAccept, AcceptDoes DEF In
<1>2. UNCHANGED <<connectNum, drift, miscounted>>
  BY AcceptDoes DEF tallyVars
<1>3. Cardinality(Opened') = Cardinality(Opened) + 1
  BY AcceptDoes, OpenedMore
<1>4. Counting' = Counting /\ \A u \in Counting : thread'[u] = thread[u]
  BY <1>1 DEF Counting, In, Threads
<1>5. Closing' = Closing
  BY <1>1 DEF Closing, In
<1>6. Ahead' = 1 /\ Ahead = 0
  BY <1>1 DEF Ahead
<1>7. connectNum \in Int /\ drift \in Int
  BY DEF TableInv, NumbersOK
<1> QED
  BY <1>2, <1>3, <1>4, <1>5, <1>6, <1>7, CountFinite DEF CountInv

LEMMA CountRefuse ==
    ASSUME TableInv, CountInv, Refuse
    PROVE  CountInv'
<1>1. Fd(Main) \in Descriptors /\ Main \in Threads /\ thread[Main].pc = "watch"
  BY AtDescriptor, Threaded DEF Refuse, In
<1>2. /\ thread'[Main].pc = "load" /\ \A u \in Threads : u # Main => thread'[u] = thread[u]
  BY <1>1, Moves DEF Refuse
<1>3. /\ sock' = [sock EXCEPT ![Fd(Main)] = Nobody]
      /\ drift' = (IF sock[Fd(Main)] = Nobody THEN drift ELSE drift + 1)
      /\ UNCHANGED <<connectNum, miscounted>>
  BY DEF Refuse
<1>4. Counting' = Counting /\ \A u \in Counting : thread'[u] = thread[u]
  BY <1>1, <1>2 DEF Counting, In
<1>5. Closing' = Closing /\ Ahead' = Ahead
  BY <1>1, <1>2, Threaded DEF Closing, Ahead, In
<1>6. Cardinality(Opened') + drift' = Cardinality(Opened) + drift
  <2>1. Cardinality(Opened') = IF sock[Fd(Main)] = Nobody THEN Cardinality(Opened) ELSE Cardinality(Opened) - 1
    BY <1>1, <1>3, OpenedLess
  <2>2. drift \in Int
    BY DEF TableInv, NumbersOK
  <2> QED
    BY <1>3, <2>1, <2>2, CountFinite
<1>7. connectNum \in Int /\ drift \in Int /\ drift' \in Int
  BY <1>3 DEF TableInv, NumbersOK
<1>8. Cardinality(Opened) \in Int /\ Cardinality(Closing) \in Int /\ Ahead \in Int /\ Cardinality(Opened') \in Int
  <2>1. Cardinality(Opened) \in Int /\ Cardinality(Closing) \in Int /\ Ahead \in Int
    BY CountFinite
  <2>2. Cardinality(Opened') = IF sock[Fd(Main)] = Nobody THEN Cardinality(Opened) ELSE Cardinality(Opened) - 1
    BY <1>1, <1>3, OpenedLess
  <2> QED
    BY <2>1, <2>2
<1>9. Cardinality(Opened) + drift - Cardinality(Closing) - Ahead
      = Cardinality(Opened') + drift' - Cardinality(Closing') - Ahead'
  BY <1>5, <1>6, <1>7, <1>8
<1> QED
  BY <1>3, <1>4, <1>9 DEF CountInv

LEMMA CountLoad ==
    ASSUME TableInv, CountInv, NEW t \in Threads, Load(t), "store" \in PcsOf(t)
    PROVE  CountInv'
<1>1. /\ thread'[t].pc = "store" /\ thread'[t].num = connectNum /\ thread[t].pc = "load"
      /\ \A u \in Threads : u # t => thread'[u] = thread[u]
  BY ThreadsLoad DEF Load, In
<1>2. /\ miscounted' = (miscounted \/ Counting # {}) /\ UNCHANGED <<sock, connectNum, drift>>
  <2>1. (\E u \in Threads : In(u, "store")) <=> Counting # {}
    BY DEF Counting
  <2> QED
    BY <2>1 DEF Load, netVars
<1>3. Counting = {} => Counting' = {t}
  BY <1>1 DEF Counting, In
<1>4. Opened' = Opened
  BY <1>2 DEF Opened
<1>5. Closing' = Closing
  BY <1>1, Threaded DEF Closing, In
<1>6. Ahead' = Ahead
  BY <1>1, Threaded DEF Ahead
<1> QED
  BY <1>1, <1>2, <1>3, <1>4, <1>5, <1>6 DEF CountInv

LEMMA CountStore ==
    ASSUME TableInv, CountInv, NEW t \in Threads, thread[t].pc = "store",
           t = Main => StoreMore, t \in ReactorIds => StoreLess(t)
    PROVE  CountInv'
<1>1. t \in Counting /\ (t = Main \/ t \in ReactorIds)
  BY DEF Counting, In, Threads
<1>2. ~miscounted => Counting = {t} /\ thread[t].num = connectNum
  BY <1>1 DEF CountInv
<1>3. UNCHANGED <<sock, drift, miscounted>>
  BY <1>1 DEF StoreMore, StoreLess, netVars, tallyVars
<1>4. /\ \A u \in Threads : u # t => thread'[u] = thread[u]
      /\ thread'[t].pc = IF t = Main THEN "announce" ELSE "close"
  BY <1>1, Moves, Threaded DEF StoreMore, StoreLess
<1>5. Counting = {t} => Counting' = {}
  BY <1>4 DEF Counting, In
<1>6. Opened' = Opened
  BY <1>3 DEF Opened
<1>7. connectNum \in Int /\ drift \in Int
  BY DEF TableInv, NumbersOK
<1>8. CASE t = Main
  <2>1. Closing' = Closing
    BY <1>4, <1>8, Threaded DEF Closing, In
  <2>2. Ahead' = 0 /\ Ahead = 1
    BY <1>4, <1>8 DEF Ahead
  <2>3. connectNum' = thread[t].num + 1
    BY <1>8, Threaded DEF StoreMore
  <2> QED
    BY <1>2, <1>3, <1>5, <1>6, <1>7, <2>1, <2>2, <2>3, CountFinite DEF CountInv
<1>9. CASE t \in ReactorIds
  <2>1. Closing' = Closing \cup {t} /\ t \notin Closing
    BY <1>4, <1>9, Threaded DEF Closing, In
  <2>2. Cardinality(Closing') = Cardinality(Closing) + 1
    BY <2>1, CountFinite, FS_AddElement
  <2>3. Ahead' = Ahead
    BY <1>4, <1>9, Threaded DEF Ahead
  <2>4. connectNum' = thread[t].num - 1
    BY <1>9, Threaded DEF StoreLess
  <2> QED
    BY <1>2, <1>3, <1>5, <1>6, <1>7, <2>2, <2>3, <2>4, CountFinite DEF CountInv
<1> QED
  BY <1>1, <1>8, <1>9

LEMMA CountClose ==
    ASSUME TableInv, CountInv, NEW r \in ReactorIds, CloseFd(r)
    PROVE  CountInv'
<1>1. Fd(r) \in Descriptors /\ r \in Threads /\ thread[r].pc = "close"
  BY AtDescriptor, Threaded DEF CloseFd, In
<1>2. thread'[r].pc = "idle" /\ \A u \in Threads : u # r => thread'[u] = thread[u]
  BY <1>1, Ends DEF CloseFd
<1>3. /\ sock' = [sock EXCEPT ![Fd(r)] = Nobody]
      /\ drift' = (IF sock[Fd(r)] = Nobody THEN drift - 1 ELSE drift)
      /\ UNCHANGED <<connectNum, miscounted>>
  BY DEF CloseFd
<1>4. Counting' = Counting /\ \A u \in Counting : thread'[u] = thread[u]
  BY <1>1, <1>2 DEF Counting, In
<1>5. Closing' = Closing \ {r} /\ r \in Closing /\ Ahead' = Ahead
  BY <1>1, <1>2, Threaded DEF Closing, Ahead, In
<1>6. Cardinality(Closing') = Cardinality(Closing) - 1
  BY <1>5, CountFinite, FS_RemoveElement
<1>7. Cardinality(Opened') + drift' = Cardinality(Opened) + drift - 1
  <2>1. Cardinality(Opened') = IF sock[Fd(r)] = Nobody THEN Cardinality(Opened) ELSE Cardinality(Opened) - 1
    BY <1>1, <1>3, OpenedLess
  <2>2. drift \in Int
    BY DEF TableInv, NumbersOK
  <2> QED
    BY <1>3, <2>1, <2>2, CountFinite
<1>8. connectNum \in Int /\ drift \in Int /\ drift' \in Int
  BY <1>3 DEF TableInv, NumbersOK
<1>9. Cardinality(Opened) \in Int /\ Cardinality(Closing) \in Int /\ Ahead \in Int /\ Cardinality(Opened') \in Int
  <2>1. Cardinality(Opened) \in Int /\ Cardinality(Closing) \in Int /\ Ahead \in Int
    BY CountFinite
  <2>2. Cardinality(Opened') = IF sock[Fd(r)] = Nobody THEN Cardinality(Opened) ELSE Cardinality(Opened) - 1
    BY <1>1, <1>3, OpenedLess
  <2> QED
    BY <2>1, <2>2
<1>10. Cardinality(Opened) + drift - Cardinality(Closing) - Ahead
       = Cardinality(Opened') + drift' - Cardinality(Closing') - Ahead'
  BY <1>5, <1>6, <1>7, <1>8, <1>9
<1> QED
  BY <1>3, <1>4, <1>10 DEF CountInv

LEMMA StepCount ==
    ASSUME TableInv, CountInv, [TableNext]_tableVars
    PROVE  CountInv'
<1> DEFINE Plain(p) == p \notin {"store", "close"}
           Neutral(t) == /\ UNCHANGED <<sock, connectNum, drift, miscounted>>
                         /\ Plain(thread[t].pc) /\ Plain(thread'[t].pc)
                         /\ \A u \in Threads : u # t => thread'[u] = thread[u]
<1>0. \A r \in ReactorIds : Neutral(r) => CountInv'
  BY CountKept, Threaded
<1>1. CASE MainStep
  <2>1. CASE Accept
    BY <2>1, CountAccept
  <2>2. CASE Refuse
    BY <2>2, CountRefuse
  <2>3. CASE Load(Main)
    BY <2>3, CountLoad, Threaded DEF MainPcs
  <2>4. CASE StoreMore
    <3>1. thread[Main].pc = "store"
      BY <2>4 DEF StoreMore, In
    <3> QED
      BY <2>4, <3>1, CountStore, Threaded
  <2>5. CASE AcceptOverLimit
    BY <2>5, CountSame DEF AcceptOverLimit
  <2>6. CASE Prepare \/ Watch \/ Announce
    <3>1. /\ UNCHANGED <<sock, connectNum, drift, miscounted>> /\ \A u \in Threads : u # Main => thread'[u] = thread[u]
          /\ \/ thread[Main].pc = "prepare" /\ thread'[Main].pc = "watch"
             \/ thread[Main].pc = "watch" /\ thread'[Main].pc = "load"
             \/ thread[Main].pc = "announce" /\ thread'[Main].pc = "idle"
      BY <2>6, Moves, Ends, Threaded DEF Prepare, Watch, Announce, In, netVars, tallyVars
    <3>2. Ahead' = Ahead
      BY <3>1 DEF Ahead
    <3> QED
      BY <3>1, <3>2, CountKept, Threaded
  <2> QED
    BY <1>1, <2>1, <2>2, <2>3, <2>4, <2>5, <2>6 DEF MainStep
<1>2. ASSUME NEW r \in ReactorIds, Dispatch(r) PROVE CountInv'
  <2>1. r \in Threads
    BY Threaded
  <2>2. Neutral(r)
    BY <1>2, <2>1, Moves, Ends DEF Dispatch, netVars, tallyVars
  <2> QED
    BY <1>0, <2>2
<1>3. ASSUME NEW r \in ReactorIds, FreeStep(r) PROVE CountInv'
  <2>0. r \in Threads
    BY Threaded
  <2>1. CASE Load(r)
    BY <2>0, <2>1, CountLoad, Threaded DEF FreePcs
  <2>2. CASE StoreLess(r)
    <3>1. thread[r].pc = "store"
      BY <2>2 DEF StoreLess, In
    <3> QED
      BY <2>0, <2>2, <3>1, CountStore, Threaded
  <2>3. CASE CloseFd(r)
    BY <2>3, CountClose
  <2>4. CASE Disable(r) \/ Unread(r) \/ Unwrite(r) \/ FreeSend(r) \/ FreeRecv(r)
    <3>1. Neutral(r)
      BY <2>0, <2>4, Moves DEF Disable, Unread, Unwrite, FreeSend, FreeRecv, In, netVars, tallyVars
    <3> QED
      BY <1>0, <3>1
  <2> QED
    BY <1>3, <2>1, <2>2, <2>3, <2>4 DEF FreeStep
<1>4. ASSUME NEW r \in ReactorIds, ReadStep(r) PROVE CountInv'
  <2>0. r \in Threads /\ peers \in Peers
    BY Threaded DEF TableInv, NetOK
  <2>1. CASE ReadRequest(r) \/ ReadEnd(r)
    <3>1. sock[thread[r].fd] \in Clients /\ thread[r].pc = "read"
      BY <2>0, <2>1 DEF ReadRequest, ReadEnd, Peers, Fd, In
    <3>2. Neutral(r)
      BY <2>1, <3>1, ThreadsRead DEF ReadRequest, ReadEnd, Fd, netVars, tallyVars
    <3> QED
      BY <1>0, <3>2
  <2>2. CASE ReadAgain(r) \/ Receive(r) \/ PostMessage(r) \/ TrimReceived(r) \/ PostClose(r)
    <3>1. Neutral(r)
      BY <2>0, <2>2, Moves, Ends DEF ReadAgain, Receive, PostMessage, TrimReceived, PostClose, In, netVars, tallyVars
    <3> QED
      BY <1>0, <3>1
  <2> QED
    BY <1>4, <2>1, <2>2 DEF ReadStep
<1>5. ASSUME NEW r \in ReactorIds, WriteStep(r) PROVE CountInv'
  <2>0. r \in Threads
    BY Threaded
  <2>1. CASE TestDisabled(r) \/ TestPending(r) \/ Quiet(r) \/ WriteFails(r)
    <3>1. Neutral(r)
      BY <2>0, <2>1, Moves, Ends DEF TestDisabled, TestPending, Quiet, WriteFails, In, netVars, tallyVars
    <3> QED
      BY <1>0, <3>1
  <2>2. CASE DropWritten(r) \/ TestLeft(r) \/ Unwatch(r) \/ TestEnded(r)
    <3>1. Neutral(r)
      BY <2>0, <2>2, Moves, Ends DEF DropWritten, TestLeft, Unwatch, TestEnded, In, netVars, tallyVars
    <3> QED
      BY <1>0, <3>1
  <2>3. CASE WriteOut(r)
    <3>1. thread[r].fd \in Descriptors
      BY <2>0, <2>3, AtWork DEF WriteOut, In
    <3>2. Len(slot[thread[r].fd].out) \in Nat
      BY <3>1, LenProperties DEF TableInv, SlotsOK, Slot
    <3>3. Neutral(r)
      BY <2>3, <3>2, ThreadsWrite DEF WriteOut, Fd, In, netVars, tallyVars
    <3> QED
      BY <1>0, <3>3
  <2> QED
    BY <1>5, <2>1, <2>2, <2>3 DEF WriteStep
<1>6. ASSUME NEW r \in ReactorIds, AnswerStep(r) PROVE CountInv'
  <2>0. r \in Threads
    BY Threaded
  <2>1. CASE TakeAnswer(r)
    <3>1. PICK p \in {"reply", "closing"} : \E fd, c : thread'[r] = [pc |-> p, fd |-> fd, num |-> 0, of |-> c]
      BY <2>1, ThreadsTake
    <3>2. thread'[r].pc \in {"reply", "closing"}
      BY <3>1
    <3>3. \A u \in Threads : u # r => thread'[u] = thread[u]
      BY <2>1, ThreadsTake
    <3>4. thread[r].pc = "idle" /\ UNCHANGED <<sock, connectNum, drift, miscounted>>
      BY <2>1 DEF TakeAnswer, In, netVars, tallyVars
    <3>5. Neutral(r)
      BY <3>2, <3>3, <3>4
    <3> QED
      BY <1>0, <3>5
  <2>2. CASE TestReply(r) \/ Arm(r) \/ ArmFails(r) \/ AppendReply(r) \/ TestUnsent(r) \/ Mark(r)
    <3>1. Neutral(r)
      BY <2>0, <2>2, Moves, Ends DEF TestReply, Arm, ArmFails, AppendReply, TestUnsent, Mark, In, netVars, tallyVars
    <3> QED
      BY <1>0, <3>1
  <2> QED
    BY <1>6, <2>1, <2>2 DEF AnswerStep
<1>7. ASSUME NEW r \in ReactorIds, NEW fd \in Descriptors, NEW bit \in {"readable", "writable"},
             Fire(r, fd, bit)
      PROVE  CountInv'
  <2>1. thread[r].pc = "idle" /\ UNCHANGED <<sock, connectNum, drift, miscounted>>
        /\ Goes(r, [Idle EXCEPT !.pc = bit, !.fd = fd])
    BY <1>7, ThreadsFire DEF Fire, In, EventPcs, netVars, tallyVars
  <2>2. [Idle EXCEPT !.pc = bit, !.fd = fd].pc = bit
    BY DEF Idle
  <2>3. Neutral(r)
    BY <2>1, <2>2 DEF Goes
  <2> QED
    BY <1>0, <2>3
<1>8. ASSUME NEW c \in Clients, Hangup(c) PROVE CountInv'
  BY <1>8, CountSame DEF Hangup
<1>9. ASSUME NEW close \in BOOLEAN, Work(close) PROVE CountInv'
  BY <1>9, CountSame DEF Work, netVars
<1>10. CASE UNCHANGED tableVars
  BY <1>10, CountSame DEF tableVars, netVars
<1> QED
  BY <1>1, <1>2, <1>3, <1>4, <1>5, <1>6, <1>7, <1>8, <1>9, <1>10 DEF TableNext

-----------------------------------------------------------------------------
(* The properties.                                                         *)

LEMMA CountAlways == TableSpec => [](TableInv /\ CountInv)
<1>1. TableInit => TableInv /\ CountInv
  BY InitTable, InitCount
<1>2. TableInv /\ CountInv /\ [TableNext]_tableVars => (TableInv /\ CountInv)'
  BY StepTable, StepCount
<1> QED
  BY <1>1, <1>2, PTL DEF TableSpec

\* At every moment connectNum is the number of open connections, but for those that the
\* threads are about to count, to close or have closed uncounted or counted twice, unless
\* two threads have changed it at once.
THEOREM CountRightCorrect == TableSpec => []CountRight
<1>1. CountInv => CountRight
  BY DEF CountInv, CountRight, Opened, Closing, Ahead
<1> QED
  BY <1>1, CountAlways, PTL
=============================================================================
