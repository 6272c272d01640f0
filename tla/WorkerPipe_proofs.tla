------------------------- MODULE WorkerPipe_proofs -------------------------
(***************************************************************************)
(* Theorems about WorkerPipe for every number of reactors and connections, *)
(* every size of header, body and socketpair.                              *)
(***************************************************************************)
EXTENDS WorkerPipe, PipeFrames_proofs, WellFoundedInduction

-----------------------------------------------------------------------------
(* Type correctness.                                                       *)

\* Needed for TypeOK to be inductive: a thread that posts has a frame, and
\* the worker that waits for a body has read that frame's header.
FramesInHand ==
    /\ \A t \in Threads :
          pc[t] \in {"check", "ctl", "mask", "wlock", "store"} => cur[t] \in Frame
    /\ wpc = "body" => whdr \in Frame

TypeInv == TypeOK /\ FramesInHand

\* Every variable that an action group leaves alone.
LEMMA StutterType ==
    TypeInv /\ UNCHANGED vars => TypeInv'
BY DEF TypeInv, TypeOK, FramesInHand, vars, master, buffer, locks, events, worker

LEMMA InitType == Init => TypeInv
<1> SUFFICES ASSUME Init PROVE TypeInv
  OBVIOUS
<1>1. conn \in [Conns -> {"new", "open", "closed"}]
  BY DEF Init
<1>2. received \in [Conns -> 0..MaxMsgs] /\ nwritten \in [Reactors -> Nat]
  BY SizesAssumption DEF Init
<1>3. /\ buf \in Seq(Unit) /\ pipe \in Seq(Unit)
      /\ log \in Seq(Unit) /\ consumed \in Seq(Unit)
      /\ delivered \in Seq([frame : Frame \cup {None}, got : Nat])
  BY DEF Init
<1>4. seen \in [Threads -> Seq(Unit)]
  BY DEF Init
<1>5. pc \in [Threads -> Pcs] /\ cur \in [Threads -> Frame \cup {None}]
  BY DEF Init, Pcs
<1>6. wmask \in [Reactors -> BOOLEAN] /\ wkern \in [Reactors -> BOOLEAN]
  BY DEF Init
<1>7. TypeOK
  BY <1>1, <1>2, <1>3, <1>4, <1>5, <1>6 DEF Init, TypeOK
<1>8. FramesInHand
  BY DEF Init, FramesInHand
<1> QED
  BY <1>7, <1>8 DEF TypeInv

\* A client's event puts a frame of its connection in a thread's hands.
LEMMA ClientType ==
    ASSUME TypeInv, Client
    PROVE  TypeInv'
<1> USE DEF Pcs, master, buffer, locks, events, worker, StartPost
<1>1. PICK c \in Conns : Accept(c) \/ ClientData(c) \/ ClientGone(c)
  BY DEF Client
<1>2. Owner[c] \in Threads /\ Main \in Threads
  BY OwnerAssumption DEF Threads
<1>3. CASE Accept(c)
  <2>1. [conn |-> c, type |-> "connect", num |-> 0] \in Frame
    BY SizesAssumption DEF Frame
  <2> QED
    BY <1>2, <1>3, <2>1 DEF Accept, TypeInv, TypeOK, FramesInHand
<1>4. CASE ClientData(c)
  <2>1. received[c] + 1 \in 0..MaxMsgs
    BY <1>4, SizesAssumption DEF ClientData, TypeInv, TypeOK
  <2>2. [conn |-> c, type |-> "message", num |-> received[c] + 1] \in Frame
    BY <2>1 DEF Frame
  <2> QED
    BY <1>2, <1>4, <2>1, <2>2 DEF ClientData, TypeInv, TypeOK, FramesInHand
<1>5. CASE ClientGone(c)
  <2>1. [conn |-> c, type |-> "close", num |-> 0] \in Frame
    BY SizesAssumption DEF Frame
  <2> QED
    BY <1>2, <1>5, <2>1 DEF ClientGone, TypeInv, TypeOK, FramesInHand
<1> QED
  BY <1>1, <1>3, <1>4, <1>5

\* Posting a frame: the interesting step stores a concatenation.
LEMMA PostType ==
    ASSUME TypeInv, NEW t \in Threads, Post(t)
    PROVE  TypeInv'
<1> USE DEF Pcs, master, buffer, locks, events, worker
<1>1. CASE CheckEmpty(t)
  BY <1>1 DEF CheckEmpty, TypeInv, TypeOK, FramesInHand
<1>2. CASE ArmKernel(t)
  BY <1>2 DEF ArmKernel, TypeInv, TypeOK, FramesInHand
<1>3. CASE ArmMask(t)
  BY <1>3 DEF ArmMask, TypeInv, TypeOK, FramesInHand
<1>4. CASE LockAppend(t)
  BY <1>4 DEF LockAppend, TypeInv, TypeOK, FramesInHand
<1>5. CASE StoreAppend(t)
  <2>1. cur[t] \in Frame /\ seen[t] \in Seq(Unit) /\ buf \in Seq(Unit)
    BY <1>5 DEF StoreAppend, TypeInv, TypeOK, FramesInHand
  <2>2. Units(cur[t]) \in Seq(Unit)
    BY <2>1, UnitsType
  <2>3. Drop(seen[t], Len(buf)) \in Seq(Unit)
    <3>1. Len(buf) \in Nat
      BY <2>1
    <3> QED
      BY <2>1, <3>1, DropType
  <2>4. buf' \in Seq(Unit)
    <3>1. seen[t] \o Units(cur[t]) \in Seq(Unit)
      BY <2>1, <2>2
    <3>2. buf \o Drop(seen[t], Len(buf)) \o Units(cur[t]) \in Seq(Unit)
      BY <2>1, <2>2, <2>3
    <3> QED
      BY <1>5, <3>1, <3>2 DEF StoreAppend, Concatenations
  <2>5. log' \in Seq(Unit)
    BY <1>5, <2>2 DEF StoreAppend, TypeInv, TypeOK
  <2>6. conn' \in [Conns -> {"new", "open", "closed"}]
    BY <1>5, <2>1 DEF StoreAppend, TypeInv, TypeOK
  <2>7. seen' \in [Threads -> Seq(Unit)] /\ raced' \in BOOLEAN
    BY <1>5 DEF StoreAppend, TypeInv, TypeOK
  <2> QED
    BY <1>5, <2>4, <2>5, <2>6, <2>7 DEF StoreAppend, TypeInv, TypeOK, FramesInHand
<1> QED
  BY <1>1, <1>2, <1>3, <1>4, <1>5 DEF Post

\* Draining: the interesting steps write to the socketpair and trim.
LEMMA DrainType ==
    ASSUME TypeInv, NEW r \in Reactors, Drain(r)
    PROVE  TypeInv'
<1> USE DEF Pcs, DrainPcs, master, buffer, locks, events, worker
<1>0. r \in Threads
  BY DEF Threads
<1>1. CASE Dispatch(r)
  BY <1>0, <1>1 DEF Dispatch, TypeInv, TypeOK, FramesInHand
<1>2. CASE LockWriteNothing(r)
  BY <1>0, <1>2 DEF LockWriteNothing, TypeInv, TypeOK, FramesInHand
<1>3. CASE LockWrite(r)
  <2> DEFINE n == Writable
  <2>1. n \in Nat /\ n <= Len(buf)
    BY <1>3, PipeAssumption DEF LockWrite, Writable, Least, TypeInv, TypeOK
  <2>2. Take(buf, n) \in Seq(Unit)
    BY <2>1, TakeDrop DEF TypeInv, TypeOK
  <2>3. [i \in 1..n |-> Junk] \in Seq(Unit)
    BY <2>1, SizesAssumption DEF Junk, Unit
  <2>4. pipe' \in Seq(Unit)
    <3>1. PICK out : /\ out = Take(buf, n) \/ out = [i \in 1..n |-> Junk]
                     /\ pipe' = pipe \o out
      BY <1>3, Zenon DEF LockWrite
    <3>2. out \in Seq(Unit) /\ pipe \in Seq(Unit)
      BY <2>2, <2>3, <3>1 DEF TypeInv, TypeOK
    <3> QED
      BY <3>1, <3>2
  <2>5. raced' \in BOOLEAN /\ cut' \in BOOLEAN
    <3> DEFINE inside == buf[n] # Junk /\ buf[n].pos < FrameLen(buf[n].frame)
               appending == wlock # None
    <3>1. raced' = (raced \/ appending) /\ cut' = (cut \/ inside)
      BY <1>3 DEF LockWrite
    <3> HIDE DEF inside, appending
    <3> QED
      BY <3>1, Zenon
  <2>6. nwritten' \in [Reactors -> Nat]
    BY <1>3, <2>1 DEF LockWrite, TypeInv, TypeOK
  <2> QED
    BY <1>0, <1>3, <2>4, <2>5, <2>6 DEF LockWrite, TypeInv, TypeOK, FramesInHand
<1>4. CASE StartTrim(r)
  BY <1>0, <1>4 DEF StartTrim, TypeInv, TypeOK, FramesInHand
<1>5. CASE FinishTrim(r)
  <2>1. seen[r] \in Seq(Unit) /\ buf \in Seq(Unit) /\ nwritten[r] \in Nat
    BY <1>0 DEF TypeInv, TypeOK
  <2>2. Drop(seen[r], nwritten[r]) \in Seq(Unit) /\ Drop(buf, nwritten[r]) \in Seq(Unit)
    BY <2>1, DropType
  <2>3. buf' \in Seq(Unit)
    BY <1>5, <2>1, <2>2 DEF FinishTrim, Trims
  <2> QED
    BY <1>0, <1>5, <2>3 DEF FinishTrim, TypeInv, TypeOK, FramesInHand
<1>6. CASE TestEmpty(r)
  BY <1>0, <1>6 DEF TestEmpty, TypeInv, TypeOK, FramesInHand
<1>7. CASE DisarmKernel(r)
  BY <1>0, <1>7 DEF DisarmKernel, TypeInv, TypeOK, FramesInHand
<1>8. CASE DisarmMask(r)
  BY <1>0, <1>8 DEF DisarmMask, TypeInv, TypeOK, FramesInHand
<1> QED
  BY <1>1, <1>2, <1>3, <1>4, <1>5, <1>6, <1>7, <1>8 DEF Drain

\* A read() that takes n units leaves sequences of units.
LEMMA ConsumeType ==
    ASSUME TypeInv, NEW n \in 0..Len(pipe), Consume(n)
    PROVE  pipe' \in Seq(Unit) /\ consumed' \in Seq(Unit)
<1>1. pipe \in Seq(Unit) /\ consumed \in Seq(Unit)
  BY DEF TypeInv, TypeOK
<1>2. Take(pipe, n) \in Seq(Unit) /\ Drop(pipe, n) \in Seq(Unit)
  BY <1>1, TakeDrop
<1> QED
  BY <1>1, <1>2 DEF Consume

\* What the worker's callbacks were given stays a sequence of events.
LEMMA DeliverType ==
    ASSUME TypeInv, NEW f \in Frame \cup {None}, NEW n \in Nat
    PROVE  Append(delivered, [frame |-> f, got |-> n])
             \in Seq([frame : Frame \cup {None}, got : Nat])
<1> DEFINE E == [frame : Frame \cup {None}, got : Nat]
           e == [frame |-> f, got |-> n]
<1>1. delivered \in Seq(E) /\ e \in E
  BY DEF TypeInv, TypeOK
<1> HIDE DEF E, e
<1>2. Append(delivered, e) \in Seq(E)
  BY <1>1, AppendProperties
<1> QED
  BY <1>2 DEF E, e

LEMMA WorkerType ==
    ASSUME TypeInv, WorkerStep
    PROVE  TypeInv'
<1> USE DEF master, buffer, locks, events
<1>0. pipe \in Seq(Unit) /\ Len(pipe) \in Nat /\ HdrLen \in Nat /\ BodyLen \in Nat
  BY SizesAssumption DEF TypeInv, TypeOK
<1>1. CASE ReadHeader
  <2> DEFINE k == Least(HdrLen, Len(pipe))
             f == HeaderOf(Take(pipe, k))
  <2>1. k \in 0..Len(pipe)
    BY <1>0 DEF Least
  <2>2. f \in Frame /\ k = HdrLen
    BY <1>0, <1>1, <2>1, HeaderProperties DEF ReadHeader
  <2>3. pipe' \in Seq(Unit) /\ consumed' \in Seq(Unit)
    BY <1>1, <2>1, <2>2, ConsumeType DEF ReadHeader
  <2>4. delivered' \in Seq([frame : Frame \cup {None}, got : Nat])
    <3>1. delivered' = delivered \/ delivered' = Append(delivered, [frame |-> f, got |-> 0])
      BY <1>1 DEF ReadHeader, Deliver
    <3> QED
      BY <2>2, <3>1, DeliverType DEF TypeInv, TypeOK
  <2>5. wpc' \in {"header", "body", "eof"} /\ whdr' \in Frame \cup {None}
        /\ (wpc' = "body" => whdr' \in Frame)
    BY <1>1, <2>2 DEF ReadHeader, TypeInv, TypeOK, FramesInHand
  <2> QED
    BY <1>1, <2>3, <2>4, <2>5 DEF ReadHeader, Consume, TypeInv, TypeOK, FramesInHand
<1>2. CASE ReadGarbage
  <2> DEFINE k == Least(HdrLen, Len(pipe))
  <2>1. PICK more \in 0..(IF k < HdrLen THEN 0 ELSE Least(BodyLen, Len(pipe) - k)) :
           Consume(k + more)
    BY <1>2 DEF ReadGarbage
  <2>2. k + more \in 0..Len(pipe)
    BY <1>0, <2>1 DEF Least
  <2>3. pipe' \in Seq(Unit) /\ consumed' \in Seq(Unit)
    BY <2>1, <2>2, ConsumeType
  <2>4. delivered' \in Seq([frame : Frame \cup {None}, got : Nat])
    <3>1. delivered' = delivered \/ delivered' = Append(delivered, [frame |-> None, got |-> 0])
      BY <1>2 DEF ReadGarbage, Deliver
    <3> QED
      BY <3>1, DeliverType DEF TypeInv, TypeOK
  <2> QED
    BY <1>2, <2>1, <2>3, <2>4 DEF ReadGarbage, Consume, TypeInv, TypeOK, FramesInHand
<1>3. CASE ReadBody
  <2> DEFINE k == Least(BodyLen, Len(pipe))
  <2>1. k \in 0..Len(pipe)
    BY <1>0 DEF Least
  <2>2. pipe' \in Seq(Unit) /\ consumed' \in Seq(Unit)
    BY <1>3, <2>1, ConsumeType DEF ReadBody
  <2>3. delivered' \in Seq([frame : Frame \cup {None}, got : Nat])
    <3>1. delivered' = Append(delivered, [frame |-> whdr, got |-> k])
      BY <1>3 DEF ReadBody, Deliver
    <3>2. k \in Nat /\ whdr \in Frame \cup {None}
      BY <2>1 DEF TypeInv, TypeOK
    <3> QED
      BY <3>1, <3>2, DeliverType
  <2>4. desync' \in BOOLEAN
    BY <1>3, Zenon DEF ReadBody, TypeInv, TypeOK
  <2> QED
    BY <1>3, <2>2, <2>3, <2>4 DEF ReadBody, Consume, TypeInv, TypeOK, FramesInHand
<1>4. CASE ReadEof
  BY <1>4 DEF ReadEof, TypeInv, TypeOK, FramesInHand
<1> QED
  BY <1>1, <1>2, <1>3, <1>4 DEF WorkerStep

LEMMA StepType == TypeInv /\ [Next]_vars => TypeInv'
BY StutterType, ClientType, PostType, DrainType, WorkerType DEF Next

\* Every variable keeps its type in every behaviour.
THEOREM TypeCorrect == Spec => []TypeOK
<1>1. Init => TypeInv
  BY InitType
<1>2. TypeInv /\ [Next]_vars => TypeInv'
  BY StepType
<1>3. TypeInv => TypeOK
  BY DEF TypeInv
<1> QED
  BY <1>1, <1>2, <1>3, PTL DEF Spec

-----------------------------------------------------------------------------
(* The two mutexes.                                                        *)

LEMMA InitLocks == Init => LockOwners
BY ThreadsAssumption DEF Init, LockOwners, Threads, DrainPcs

\* A step that moves threads between pcs outside a critical section keeps
\* the owners; only the five steps below take or release a mutex.
LEMMA StepLocks ==
    ASSUME TypeOK, LockOwners, [Next]_vars
    PROVE  LockOwners'
<1> USE DEF LockOwners, TypeOK, DrainPcs, master, buffer, locks, events, worker
<1>1. CASE UNCHANGED vars
  BY <1>1 DEF vars
<1>2. CASE Client
  <2>1. PICK t \in Threads : /\ pc[t] = "idle" /\ pc' = [pc EXCEPT ![t] = "check"]
                             /\ UNCHANGED <<wlock, rlock, closed>>
    BY <1>2, OwnerAssumption
       DEF Client, Accept, ClientData, ClientGone, StartPost, Threads
  <2> QED
    BY <2>1, ThreadsAssumption DEF Threads
<1>3. ASSUME NEW t \in Threads, Post(t)
      PROVE  LockOwners'
  <2>1. CASE CheckEmpty(t)
    BY <2>1, ThreadsAssumption DEF CheckEmpty, Threads
  <2>2. CASE ArmKernel(t)
    BY <2>2, ThreadsAssumption DEF ArmKernel, Threads
  <2>3. CASE ArmMask(t)
    BY <2>3, ThreadsAssumption DEF ArmMask, Threads
  <2>4. CASE LockAppend(t)
    BY <2>4, ThreadsAssumption DEF LockAppend, Threads
  <2>5. CASE StoreAppend(t)
    BY <2>5, ThreadsAssumption DEF StoreAppend, Threads
  <2> QED
    BY <1>3, <2>1, <2>2, <2>3, <2>4, <2>5 DEF Post
<1>4. ASSUME NEW r \in Reactors, Drain(r)
      PROVE  LockOwners'
  <2>0. r \in Threads
    BY DEF Threads
  <2>1. CASE Dispatch(r)
    BY <2>0, <2>1, ThreadsAssumption DEF Dispatch, Threads
  <2>2. CASE LockWriteNothing(r)
    BY <2>0, <2>2, ThreadsAssumption DEF LockWriteNothing, Threads
  <2>3. CASE LockWrite(r)
    BY <2>0, <2>3, ThreadsAssumption DEF LockWrite, Threads
  <2>4. CASE StartTrim(r)
    BY <2>0, <2>4, ThreadsAssumption DEF StartTrim, Threads
  <2>5. CASE FinishTrim(r)
    BY <2>0, <2>5, ThreadsAssumption DEF FinishTrim, Threads
  <2>6. CASE TestEmpty(r)
    BY <2>0, <2>6, ThreadsAssumption DEF TestEmpty, Threads
  <2>7. CASE DisarmKernel(r)
    BY <2>0, <2>7, ThreadsAssumption DEF DisarmKernel, Threads
  <2>8. CASE DisarmMask(r)
    BY <2>0, <2>8, ThreadsAssumption DEF DisarmMask, Threads
  <2> QED
    BY <1>4, <2>1, <2>2, <2>3, <2>4, <2>5, <2>6, <2>7, <2>8 DEF Drain
<1>5. CASE WorkerStep
  BY <1>5 DEF WorkerStep, ReadHeader, ReadGarbage, ReadBody, ReadEof, Consume
<1> QED
  BY <1>1, <1>2, <1>3, <1>4, <1>5 DEF Next

\* w_mutex and r_mutex do what they are for, and r_mutex leaks exactly when
\* the socketpair is closed.
THEOREM LockOwnersCorrect == Spec => []LockOwners
<1>1. Init => TypeInv /\ LockOwners
  BY InitType, InitLocks
<1>2. TypeInv /\ LockOwners /\ [Next]_vars => (TypeInv /\ LockOwners)'
  BY StepType, StepLocks DEF TypeInv
<1> QED
  BY <1>1, <1>2, PTL DEF Spec

-----------------------------------------------------------------------------
(* The stream of bytes.                                                    *)

\* A read() moves units from the pipe to what the worker has consumed.
LEMMA ConsumeKeepsStream ==
    ASSUME TypeOK, NEW n \in 0..Len(pipe), Consume(n)
    PROVE  consumed' \o pipe' = consumed \o pipe
<1>1. consumed \in Seq(Unit) /\ pipe \in Seq(Unit)
  BY DEF TypeOK
<1>2. /\ Take(pipe, n) \in Seq(Unit) /\ Drop(pipe, n) \in Seq(Unit)
      /\ Take(pipe, n) \o Drop(pipe, n) = pipe
  BY <1>1, TakeDrop
<1>3. (consumed \o Take(pipe, n)) \o Drop(pipe, n)
        = consumed \o (Take(pipe, n) \o Drop(pipe, n))
  <2> DEFINE front == Take(pipe, n)
             back == Drop(pipe, n)
  <2>1. front \in Seq(Unit) /\ back \in Seq(Unit)
    BY <1>2
  <2> HIDE DEF front, back
  <2>2. (consumed \o front) \o back = consumed \o (front \o back)
    BY <1>1, <2>1, UnitsAssociative
  <2> QED
    BY <2>2 DEF front, back
<1> QED
  BY <1>2, <1>3 DEF Consume

\* No step of the worker changes what has entered the pipe, nor anything of
\* the master.
LEMMA WorkerKeepsStream ==
    ASSUME TypeInv, WorkerStep
    PROVE  /\ consumed' \o pipe' = consumed \o pipe
           /\ UNCHANGED <<buf, seen, nwritten, wlock, rlock, pc, log, raced, closed>>
<1> USE DEF master, buffer, locks, events, worker
<1>0. /\ TypeOK /\ pipe \in Seq(Unit) /\ Len(pipe) \in Nat
      /\ HdrLen \in Nat /\ BodyLen \in Nat
  BY SizesAssumption DEF TypeInv, TypeOK
<1>1. CASE ReadHeader
  <2> DEFINE k == Least(HdrLen, Len(pipe))
  <2>1. k \in 0..Len(pipe)
    BY <1>0 DEF Least
  <2>2. k = HdrLen /\ Consume(k)
    BY <1>0, <1>1, <2>1, HeaderProperties DEF ReadHeader
  <2> QED
    BY <1>0, <2>1, <2>2, ConsumeKeepsStream DEF Consume
<1>2. CASE ReadGarbage
  <2> DEFINE k == Least(HdrLen, Len(pipe))
  <2>1. PICK more \in 0..(IF k < HdrLen THEN 0 ELSE Least(BodyLen, Len(pipe) - k)) :
           Consume(k + more)
    BY <1>2 DEF ReadGarbage
  <2>2. k + more \in 0..Len(pipe)
    BY <1>0, <2>1 DEF Least
  <2> QED
    BY <1>0, <2>1, <2>2, ConsumeKeepsStream DEF Consume
<1>3. CASE ReadBody
  <2> DEFINE k == Least(BodyLen, Len(pipe))
  <2>1. k \in 0..Len(pipe)
    BY <1>0 DEF Least
  <2> QED
    BY <1>0, <1>3, <2>1, ConsumeKeepsStream DEF ReadBody, Consume
<1>4. CASE ReadEof
  BY <1>4 DEF ReadEof
<1> QED
  BY <1>1, <1>2, <1>3, <1>4 DEF WorkerStep

\* The inductive form of NothingLostUnlessRaced: between write() and the end
\* of sdsrange, the bytes that were written are still the first of the buffer.
StreamInv ==
    ~raced =>
      /\ log = consumed \o pipe \o Unsent
      /\ rlock # None /\ pc[rlock] \in {"trim", "shift"}
           => nwritten[rlock] \in 0..Len(buf)

LEMMA InitStream == Init => StreamInv
<1> SUFFICES ASSUME Init PROVE StreamInv
  OBVIOUS
<1>1. Unsent = <<>> /\ log = <<>> /\ consumed = <<>> /\ pipe = <<>> /\ rlock = None
  BY DEF Init, Unsent
<1>2. <<>> \in Seq(Unit)
  OBVIOUS
<1> QED
  BY <1>1, <1>2, ConcatEmptySeq DEF StreamInv

\* A step that leaves the bytes alone and neither enters nor leaves the part
\* of a drain between write() and the end of sdsrange.
LEMMA QuietStream ==
    ASSUME StreamInv,
           UNCHANGED <<buf, nwritten, pipe, consumed, log>>,
           raced' = raced,
           rlock' # None /\ pc'[rlock'] \in {"trim", "shift"}
             <=> rlock # None /\ pc[rlock] \in {"trim", "shift"},
           rlock # None /\ pc[rlock] \in {"trim", "shift"} => rlock' = rlock
    PROVE  StreamInv'
BY DEF StreamInv, Unsent

\* An append that no other sds call overlaps adds its frame behind the bytes
\* that are waiting, whether or not a drain is between write() and sdsrange.
LEMMA StoreStream ==
    ASSUME TypeInv, LockOwners, StreamInv, NEW t \in Threads, StoreAppend(t)
    PROVE  StreamInv'
<1> DEFINE u == Units(cur[t])
           draining == rlock # None /\ pc[rlock] \in {"trim", "shift"}
<1> SUFFICES ASSUME ~raced' PROVE StreamInv'
  BY DEF StreamInv
<1>1. ~raced /\ buf = seen[t] /\ buf' = buf \o u /\ log' = log \o u
  BY DEF StoreAppend, Concatenations
<1>2. /\ buf \in Seq(Unit) /\ u \in Seq(Unit)
      /\ consumed \in Seq(Unit) /\ pipe \in Seq(Unit) /\ consumed \o pipe \in Seq(Unit)
  <2>1. cur[t] \in Frame
    BY DEF StoreAppend, TypeInv, FramesInHand
  <2> QED
    BY <2>1, UnitsType DEF TypeInv, TypeOK
<1>3. UNCHANGED <<consumed, pipe, rlock, nwritten>> /\ pc' = [pc EXCEPT ![t] = "idle"]
  BY DEF StoreAppend, buffer, worker
<1>4. draining' <=> draining
  BY <1>3 DEF StoreAppend, TypeInv, TypeOK
<1>5. draining => nwritten[rlock] \in 0..Len(buf)
  BY <1>1 DEF StreamInv
<1>6. Unsent \in Seq(Unit) /\ Unsent' = Unsent \o u
  <2>1. CASE draining
    <3> DEFINE n == nwritten[rlock]
    <3>1. n \in 0..Len(buf) /\ n \in Nat
      BY <1>2, <1>5, <2>1
    <3>2. Drop(buf, n) \in Seq(Unit)
      BY <1>2, <3>1, DropType
    <3>3. Drop(buf \o u, n) = Drop(buf, n) \o u
      <4> HIDE DEF u, n
      <4> QED
        BY <1>2, <3>1, DropConcat
    <3> QED
      BY <1>1, <1>3, <1>4, <2>1, <3>2, <3>3 DEF Unsent
  <2>2. CASE ~draining
    BY <1>1, <1>2, <1>4, <2>2 DEF Unsent
  <2> QED
    BY <2>1, <2>2
<1>7. log' = consumed' \o pipe' \o Unsent'
  <2> DEFINE sent == consumed \o pipe
  <2>1. log = sent \o Unsent
    BY <1>1 DEF StreamInv
  <2>2. (sent \o Unsent) \o u = sent \o (Unsent \o u)
    <3> HIDE DEF sent, u
    <3>1. sent \in Seq(Unit)
      BY <1>2 DEF sent
    <3>2. u \in Seq(Unit) /\ Unsent \in Seq(Unit)
      BY <1>2, <1>6 DEF u
    <3> QED
      BY <3>1, <3>2, UnitsAssociative
  <2> QED
    BY <1>1, <1>3, <1>6, <2>1, <2>2
<1>8. draining' => nwritten'[rlock'] \in 0..Len(buf')
  <2> SUFFICES ASSUME draining' PROVE nwritten'[rlock'] \in 0..Len(buf')
    OBVIOUS
  <2>1. nwritten[rlock] \in 0..Len(buf)
    BY <1>4, <1>5
  <2>2. Len(buf') = Len(buf) + Len(u) /\ Len(buf) \in Nat /\ Len(u) \in Nat
    <3> HIDE DEF u
    <3> QED
      BY <1>1, <1>2, ConcatProperties
  <2> QED
    BY <1>3, <2>1, <2>2
<1> QED
  BY <1>7, <1>8 DEF StreamInv

\* A write() moves a prefix of the buffer behind the bytes in the socketpair.
LEMMA WriteStream ==
    ASSUME TypeInv, LockOwners, StreamInv, NEW r \in Reactors, LockWrite(r)
    PROVE  StreamInv'
<1> DEFINE n == Writable
<1> SUFFICES ASSUME ~raced' PROVE StreamInv'
  BY DEF StreamInv
<1>1. ~raced /\ wlock = None /\ pipe' = pipe \o Take(buf, n)
  BY DEF LockWrite
<1>2. buf \in Seq(Unit) /\ consumed \in Seq(Unit) /\ pipe \in Seq(Unit)
  BY DEF TypeInv, TypeOK
<1>3. n \in 0..Len(buf)
  BY <1>2, PipeAssumption DEF LockWrite, Writable, Least, TypeInv, TypeOK
<1>4. /\ rlock = None /\ rlock' = r /\ r # None
      /\ pc'[r] = "trim" /\ nwritten'[r] = n
      /\ buf' = buf /\ log' = log /\ consumed' = consumed
  BY ThreadsAssumption DEF LockWrite, TypeInv, TypeOK, Threads, worker
<1>5. Unsent = buf /\ Unsent' = Drop(buf, n)
  BY <1>4 DEF Unsent
<1>6. log' = consumed' \o pipe' \o Unsent'
  <2> DEFINE front == Take(buf, n)
             back == Drop(buf, n)
             sent == consumed \o pipe
  <2>1. front \in Seq(Unit) /\ back \in Seq(Unit) /\ front \o back = buf
    BY <1>2, <1>3, TakeDrop
  <2>2. sent \in Seq(Unit)
    BY <1>2
  <2>3. log = sent \o buf
    BY <1>1, <1>5 DEF StreamInv
  <2> HIDE DEF front, back
  <2>4. consumed \o (pipe \o front) = sent \o front
    <3>1. (consumed \o pipe) \o front = consumed \o (pipe \o front)
      BY <1>2, <2>1, UnitsAssociative
    <3> QED
      BY <3>1
  <2> HIDE DEF sent
  <2>5. (sent \o front) \o back = sent \o (front \o back)
    <3>1. front \in Seq(Unit) /\ back \in Seq(Unit)
      BY <2>1
    <3> QED
      BY <2>2, <3>1, UnitsAssociative
  <2> QED
    BY <1>1, <1>4, <1>5, <2>1, <2>3, <2>4, <2>5 DEF front, back
<1> QED
  BY <1>3, <1>4, <1>6 DEF StreamInv

\* A trim that no append overlaps removes exactly what was written.
LEMMA TrimStream ==
    ASSUME TypeInv, LockOwners, StreamInv, NEW r \in Reactors, FinishTrim(r)
    PROVE  StreamInv'
<1> SUFFICES ASSUME ~raced' PROVE StreamInv'
  BY DEF StreamInv
<1>1. ~raced /\ buf' = Drop(buf, nwritten[r])
  BY DEF FinishTrim, Trims
<1>2. rlock = r /\ rlock # None /\ pc[rlock] = "shift"
  BY ThreadsAssumption DEF FinishTrim, LockOwners, DrainPcs, Threads
<1>3. rlock' = r /\ pc'[r] = "test" /\ UNCHANGED <<consumed, pipe, log>>
  BY <1>2 DEF FinishTrim, TypeInv, TypeOK, Threads, locks, worker
<1>4. Unsent' = buf' /\ Unsent = Drop(buf, nwritten[r])
  BY <1>2, <1>3 DEF Unsent
<1> QED
  BY <1>1, <1>3, <1>4 DEF StreamInv

LEMMA StepStream ==
    ASSUME TypeInv, LockOwners, StreamInv, [Next]_vars
    PROVE  StreamInv'
<1> USE DEF master, buffer, locks, events, worker, TypeOK
<1>0. TypeOK
  BY DEF TypeInv
<1>1. CASE UNCHANGED vars
  BY <1>1, QuietStream DEF vars
<1>2. CASE Client
  <2>1. PICK t \in Threads :
          /\ pc[t] = "idle" /\ pc' = [pc EXCEPT ![t] = "check"]
          /\ UNCHANGED <<buf, nwritten, pipe, consumed, log, raced, rlock>>
    BY <1>2, OwnerAssumption
       DEF Client, Accept, ClientData, ClientGone, StartPost, Threads
  <2>2. rlock # None => rlock \in Threads
    BY <1>0 DEF Threads
  <2> QED
    BY <1>0, <2>1, <2>2, QuietStream
<1>3. ASSUME NEW t \in Threads, Post(t)
      PROVE  StreamInv'
  <2>1. CASE StoreAppend(t)
    BY <2>1, StoreStream
  <2>2. CASE CheckEmpty(t) \/ ArmKernel(t) \/ ArmMask(t) \/ LockAppend(t)
    <3>1. /\ pc[t] \in {"check", "ctl", "mask", "wlock"}
          /\ \E p \in {"ctl", "mask", "wlock", "store"} : pc' = [pc EXCEPT ![t] = p]
          /\ UNCHANGED <<buf, nwritten, pipe, consumed, log, raced, rlock>>
      BY <2>2 DEF CheckEmpty, ArmKernel, ArmMask, LockAppend
    <3>2. rlock # None => rlock \in Threads
      BY <1>0 DEF Threads
    <3> QED
      BY <1>0, <3>1, <3>2, QuietStream
  <2> QED
    BY <1>3, <2>1, <2>2 DEF Post
<1>4. ASSUME NEW r \in Reactors, Drain(r)
      PROVE  StreamInv'
  <2>0. r \in Threads /\ r # None /\ (rlock # None => rlock \in Threads)
    BY <1>0, ThreadsAssumption DEF Threads
  <2>1. CASE Dispatch(r)
    BY <1>0, <2>0, <2>1, QuietStream DEF Dispatch
  <2>2. CASE LockWriteNothing(r)
    BY <1>0, <2>0, <2>2, QuietStream DEF LockWriteNothing
  <2>3. CASE LockWrite(r)
    BY <2>3, WriteStream
  <2>4. CASE StartTrim(r)
    BY <1>0, <2>0, <2>4, QuietStream DEF StartTrim, LockOwners, DrainPcs
  <2>5. CASE FinishTrim(r)
    BY <2>5, TrimStream
  <2>6. CASE TestEmpty(r)
    BY <1>0, <2>0, <2>6, QuietStream DEF TestEmpty, LockOwners, DrainPcs
  <2>7. CASE DisarmKernel(r)
    BY <1>0, <2>0, <2>7, QuietStream DEF DisarmKernel, LockOwners, DrainPcs
  <2>8. CASE DisarmMask(r)
    BY <1>0, <2>0, <2>8, QuietStream DEF DisarmMask, LockOwners, DrainPcs
  <2> QED
    BY <1>4, <2>1, <2>2, <2>3, <2>4, <2>5, <2>6, <2>7, <2>8 DEF Drain
<1>5. CASE WorkerStep
  BY <1>5, WorkerKeepsStream DEF StreamInv, Unsent
<1> QED
  BY <1>1, <1>2, <1>3, <1>4, <1>5 DEF Next

\* Without an overlap of two sds calls, send_buffer and the socketpair form
\* one lossless first-in first-out stream, for any number of threads.
THEOREM NothingLost == Spec => []NothingLostUnlessRaced
<1>1. Init => TypeInv /\ LockOwners /\ StreamInv
  BY InitType, InitLocks, InitStream
<1>2. TypeInv /\ LockOwners /\ StreamInv /\ [Next]_vars
        => (TypeInv /\ LockOwners /\ StreamInv)'
  BY StepType, StepLocks, StepStream DEF TypeInv
<1>3. StreamInv => NothingLostUnlessRaced
  BY DEF StreamInv, NothingLostUnlessRaced
<1> QED
  BY <1>1, <1>2, <1>3, PTL DEF Spec

-----------------------------------------------------------------------------
(* The frame boundaries.                                                   *)

\* What send_buffer was ever given are whole frames.  Until two sds calls overlap
\* or a write() ends inside a frame, so is what entered the socketpair, and the
\* worker has read up to the end of a frame, or of a message's header.
FrameInv ==
    /\ Framed(log)
    /\ ~(raced \/ cut) =>
         /\ ~desync
         /\ Boundary(log, Len(consumed) + Len(pipe))
         /\ wpc # "body" => Boundary(log, Len(consumed))
         /\ wpc = "body" => /\ whdr.type = "message" /\ Len(consumed) \in 1..Len(log)
                            /\ log[Len(consumed)] = [frame |-> whdr, pos |-> HdrLen]

\* Where the units of the three parts of the stream are in the log.
LEMMA StreamAt ==
    ASSUME TypeInv, StreamInv, ~raced
    PROVE  LET n == Len(consumed)
               p == Len(pipe)
           IN /\ n \in Nat /\ p \in Nat /\ Len(log) \in Nat /\ n + p <= Len(log)
              /\ \A i \in 1..p : log[n + i] = pipe[i]
              /\ rlock = None => /\ Len(log) = n + p + Len(buf)
                                 /\ \A i \in 1..Len(buf) : log[n + p + i] = buf[i]
<1>1. /\ consumed \in Seq(Unit) /\ pipe \in Seq(Unit) /\ buf \in Seq(Unit)
      /\ consumed \o pipe \in Seq(Unit)
  BY DEF TypeInv, TypeOK
<1>2. Unsent \in Seq(Unit)
  <2>1. ASSUME rlock # None PROVE Drop(buf, nwritten[rlock]) \in Seq(Unit)
    <3>1. nwritten[rlock] \in Nat
      BY <2>1 DEF TypeInv, TypeOK
    <3> QED
      BY <1>1, <3>1, DropType
  <2> QED
    BY <1>1, <2>1 DEF Unsent
<1>3. log = (consumed \o pipe) \o Unsent
  BY DEF StreamInv
<1>4. /\ Len(consumed \o pipe) = Len(consumed) + Len(pipe)
      /\ \A i \in 1..Len(pipe) : (consumed \o pipe)[Len(consumed) + i] = pipe[i]
  BY <1>1, ConcatProperties
<1> DEFINE sent == consumed \o pipe
<1>5. /\ Len(log) = Len(sent) + Len(Unsent) /\ Len(Unsent) \in Nat
      /\ \A i \in 1..Len(sent) : log[i] = sent[i]
      /\ \A i \in 1..Len(Unsent) : log[Len(sent) + i] = Unsent[i]
  <2> HIDE DEF sent
  <2>1. sent \in Seq(Unit) /\ log = sent \o Unsent
    BY <1>1, <1>3 DEF sent
  <2> QED
    BY <1>2, <2>1, ConcatProperties
<1>6. rlock = None => Unsent = buf
  BY DEF Unsent
<1>7. Len(consumed) \in Nat /\ Len(pipe) \in Nat
  BY <1>1
<1>8. \A i \in 1..Len(pipe) : log[Len(consumed) + i] = pipe[i]
  BY <1>4, <1>5, <1>7
<1>9. Len(log) \in Nat /\ Len(consumed) + Len(pipe) <= Len(log)
  BY <1>4, <1>5, <1>7
<1>10. ASSUME rlock = None
       PROVE  /\ Len(log) = Len(consumed) + Len(pipe) + Len(buf)
              /\ \A i \in 1..Len(buf) : log[Len(consumed) + Len(pipe) + i] = buf[i]
  BY <1>4, <1>5, <1>6, <1>10
<1> QED
  BY <1>7, <1>8, <1>9, <1>10

LEMMA InitFrames == Init => FrameInv
BY DEF Init, FrameInv, Framed, Boundary

\* A step that leaves the stream alone; an overlap that it records is no harm.
LEMMA QuietFrames ==
    ASSUME FrameInv, raced => raced',
           UNCHANGED <<log, consumed, pipe, wpc, whdr, desync, cut>>
    PROVE  FrameInv'
BY DEF FrameInv

LEMMA StoreFrames ==
    ASSUME TypeInv, FrameInv, NEW t \in Threads, StoreAppend(t)
    PROVE  FrameInv'
<1> DEFINE u == Units(cur[t])
<1>1. cur[t] \in Frame /\ log \in Seq(Unit)
  BY DEF StoreAppend, TypeInv, TypeOK, FramesInHand
<1>2. u \in Seq(Unit) /\ log' = log \o u
  BY <1>1, UnitsType DEF StoreAppend
<1>3. Framed(log')
  BY <1>1, <1>2, FramedAppend DEF FrameInv
<1>4. /\ Len(log') = Len(log) + Len(u) /\ Len(log) \in Nat /\ Len(u) \in Nat
      /\ \A i \in 1..Len(log) : log'[i] = log[i]
  <2> HIDE DEF u
  <2> QED
    BY <1>1, <1>2, ConcatProperties
<1>5. \A k : Boundary(log, k) => Boundary(log', k)
  <2> HIDE DEF u
  <2> QED
    BY <1>4 DEF Boundary
<1>6. UNCHANGED <<consumed, pipe, wpc, whdr, desync, cut>> /\ (raced => raced')
  BY DEF StoreAppend, worker
<1> HIDE DEF u
<1> QED
  BY <1>3, <1>4, <1>5, <1>6 DEF FrameInv

\* A write() that neither overlaps an append nor ends inside a frame.
LEMMA WriteFrames ==
    ASSUME TypeInv, StreamInv, FrameInv, NEW r \in Reactors, LockWrite(r)
    PROVE  FrameInv'
<1> DEFINE n == Len(consumed)
           p == Len(pipe)
           m == Writable
<1>1. /\ UNCHANGED <<log, consumed, wpc, whdr, desync>>
      /\ (raced => raced') /\ (cut => cut')
  BY DEF LockWrite, worker
<1> SUFFICES ASSUME ~(raced' \/ cut') PROVE FrameInv'
  BY <1>1 DEF FrameInv
<1>2. /\ ~raced /\ ~cut /\ rlock = None /\ pipe' = pipe \o Take(buf, m)
      /\ buf[m] = Junk \/ ~(buf[m].pos < FrameLen(buf[m].frame))
  BY <1>1 DEF LockWrite
<1>3. buf \in Seq(Unit) /\ pipe \in Seq(Unit)
  BY DEF TypeInv, TypeOK
<1>4. m \in 1..Len(buf)
  BY <1>3, PipeAssumption DEF LockWrite, Writable, Least, TypeInv, TypeOK
<1>5. /\ n \in Nat /\ p \in Nat /\ Len(log) = n + p + Len(buf)
      /\ log[n + p + m] = buf[m]
  BY <1>2, <1>4, StreamAt
<1>6. Len(pipe') = p + m
  <2>1. Take(buf, m) \in Seq(Unit) /\ Len(Take(buf, m)) = m
    BY <1>3, <1>4, TakeDrop
  <2> QED
    BY <1>2, <1>3, <2>1, ConcatProperties
<1>7. n + p + m \in 1..Len(log)
  BY <1>3, <1>4, <1>5
<1>8. EndsFrame(log[n + p + m])
  <2> DEFINE v == log[n + p + m]
  <2>1. v.frame \in Frame /\ v.pos \in 1..FrameLen(v.frame)
    BY <1>7 DEF FrameInv, Framed
  <2>2. FrameLen(v.frame) \in Nat
    BY <2>1, FrameLenType
  <2>3. v # Junk
    BY <2>1 DEF Junk
  <2>4. ~(v.pos < FrameLen(v.frame))
    BY <1>2, <1>5, <2>3
  <2> HIDE DEF v
  <2>5. v.pos = FrameLen(v.frame)
    BY <2>1, <2>2, <2>4
  <2> QED
    BY <2>5 DEF v, EndsFrame
<1>9. Boundary(log, n + p + m) /\ n + p + m = n + (p + m)
  <2> HIDE DEF n, p, m
  <2>1. n + p + m = n + (p + m)
    BY <1>3, <1>4, <1>5
  <2> QED
    BY <1>7, <1>8, <2>1 DEF Boundary
<1> HIDE DEF m
<1> QED
  BY <1>1, <1>2, <1>6, <1>9 DEF FrameInv

\* What the worker finds at the boundary where it waits for a header.
LEMMA HeaderHere ==
    ASSUME TypeInv, StreamInv, FrameInv, ~(raced \/ cut), wpc = "header", pipe # <<>>
    PROVE  LET f == log[Len(consumed) + 1].frame
               n == Len(consumed)
           IN /\ f \in Frame /\ n + FrameLen(f) <= n + Len(pipe) /\ n + Len(pipe) <= Len(log)
              /\ \A j \in 1..FrameLen(f) : log[n + j] = [frame |-> f, pos |-> j]
              /\ Least(HdrLen, Len(pipe)) = HdrLen
              /\ HeaderOf(Take(pipe, HdrLen)) = f
<1> DEFINE n == Len(consumed)
           p == Len(pipe)
           f == log[n + 1].frame
           L == FrameLen(f)
<1>1. pipe \in Seq(Unit) /\ log \in Seq(Unit)
  BY DEF TypeInv, TypeOK
<1>2. /\ n \in Nat /\ p \in Nat /\ Len(log) \in Nat /\ n + p <= Len(log)
      /\ \A i \in 1..p : log[n + i] = pipe[i]
  BY StreamAt
<1>3. p > 0
  BY <1>1, EmptySeq
<1>4. Framed(log) /\ Boundary(log, n) /\ Boundary(log, n + p)
  BY DEF FrameInv
<1>5. /\ f \in Frame /\ n + L <= Len(log)
      /\ \A j \in 1..L : log[n + j] = [frame |-> f, pos |-> j]
  <2>1. n \in 0..Len(log) - 1
    BY <1>2, <1>3
  <2> QED
    BY <1>1, <1>4, <2>1, FrameAt
<1>6. L \in Nat \ {0} /\ L >= HdrLen
  BY <1>5, FrameLenType
<1>7. L <= p
  <2>1. log[n + 1] = [frame |-> f, pos |-> 1]
    BY <1>5, <1>6
  <2>2. n + 1 \in 1..Len(log) /\ n + p \in n + 1..Len(log)
    BY <1>2, <1>3
  <2> DEFINE k == n + 1
             m == n + p
  <2>3. k - log[k].pos + FrameLen(log[k].frame) <= m
    <3>1. k \in 1..Len(log) /\ m \in k..Len(log) /\ Boundary(log, m)
      BY <1>4, <2>2
    <3> HIDE DEF k, m
    <3> QED
      BY <1>1, <1>4, <3>1, FrameRest
  <2>4. log[n + 1].pos = 1
    BY <2>1
  <2>5. (n + 1) - 1 + L <= n + p
    BY <2>3, <2>4
  <2> HIDE DEF n, p, L
  <2> QED
    BY <1>2, <1>6, <2>5
<1>8. HdrLen \in Nat \ {0} /\ Least(HdrLen, p) = HdrLen /\ HdrLen \in 0..p
  BY <1>2, <1>6, <1>7, SizesAssumption DEF Least
<1>9. HeaderOf(Take(pipe, HdrLen)) = f
  <2> DEFINE h == Take(pipe, HdrLen)
  <2>1. Len(h) = HdrLen
    BY <1>1, <1>8, TakeDrop
  <2>2. \A i \in 1..HdrLen : h[i] = pipe[i]
    BY <1>1, <1>8, SubSeqProperties DEF Take
  <2>3. \A i \in 1..HdrLen : h[i] = [frame |-> f, pos |-> i]
    <3> SUFFICES ASSUME NEW i \in 1..HdrLen PROVE h[i] = [frame |-> f, pos |-> i]
      OBVIOUS
    <3>1. i \in 1..p /\ i \in 1..L
      BY <1>2, <1>6, <1>7, <1>8
    <3> QED
      BY <1>2, <1>5, <2>2, <3>1
  <2> HIDE DEF h, f
  <2>4. h[1].frame = f
    <3>1. 1 \in 1..HdrLen
      BY <1>8
    <3>2. h[1] = [frame |-> f, pos |-> 1]
      BY <2>3, <3>1
    <3> QED
      BY <3>2
  <2>5. f # None
    BY <1>5, NoneAssumption
  <2>6. HeaderOf(h) = f
    BY <2>1, <2>3, <2>4, <2>5 DEF HeaderOf
  <2> QED
    BY <2>6 DEF h
<1> QED
  BY <1>2, <1>5, <1>6, <1>7, <1>8, <1>9

\* A read() moves the end of what was consumed, not the end of the pipe.
LEMMA ConsumeLengths ==
    ASSUME TypeInv, NEW k \in 0..Len(pipe), Consume(k)
    PROVE  /\ Len(consumed') = Len(consumed) + k
           /\ Len(consumed') + Len(pipe') = Len(consumed) + Len(pipe)
           /\ UNCHANGED <<log, raced, cut>>
<1>1. consumed \in Seq(Unit) /\ pipe \in Seq(Unit)
  BY DEF TypeInv, TypeOK
<1>2. /\ Take(pipe, k) \in Seq(Unit) /\ Len(Take(pipe, k)) = k
      /\ Drop(pipe, k) \in Seq(Unit) /\ Len(Drop(pipe, k)) = Len(pipe) - k
  BY <1>1, TakeDrop, DropElements
<1>3. Len(consumed') = Len(consumed) + k
  <2> DEFINE front == Take(pipe, k)
  <2>1. front \in Seq(Unit) /\ Len(front) = k /\ consumed' = consumed \o front
    BY <1>2 DEF Consume
  <2> HIDE DEF front
  <2> QED
    BY <1>1, <2>1, ConcatProperties
<1>4. Len(pipe') = Len(pipe) - k
  BY <1>2 DEF Consume
<1>5. Len(consumed) \in Nat /\ Len(pipe) \in Nat /\ k \in Nat
  BY <1>1
<1> QED
  BY <1>3, <1>4, <1>5 DEF Consume

LEMMA HeaderFrames ==
    ASSUME TypeInv, StreamInv, FrameInv, ReadHeader
    PROVE  FrameInv'
<1> SUFFICES ASSUME ~(raced \/ cut) PROVE FrameInv'
  BY DEF FrameInv, ReadHeader, Consume
<1> DEFINE n == Len(consumed)
           f == log[n + 1].frame
<1>1. /\ f \in Frame /\ n + FrameLen(f) <= n + Len(pipe) /\ n + Len(pipe) <= Len(log)
      /\ \A j \in 1..FrameLen(f) : log[n + j] = [frame |-> f, pos |-> j]
      /\ HeaderOf(Take(pipe, Least(HdrLen, Len(pipe)))) = f
  BY HeaderHere DEF ReadHeader
<1>2. FrameLen(f) \in Nat \ {0} /\ FrameLen(f) >= HdrLen /\ HdrLen \in Nat \ {0}
  BY <1>1, FrameLenType, SizesAssumption
<1>3. n \in Nat /\ Len(pipe) \in Nat /\ Len(log) \in Nat
  BY DEF TypeInv, TypeOK
<1>4. HdrLen \in 0..Len(pipe)
  BY <1>1, <1>2, <1>3
<1>5. /\ Len(consumed') = n + HdrLen
      /\ Len(consumed') + Len(pipe') = n + Len(pipe)
      /\ UNCHANGED <<log, raced, cut>>
  BY <1>4, ConsumeLengths DEF ReadHeader
<1>6. n + HdrLen \in 1..Len(log) /\ log[n + HdrLen] = [frame |-> f, pos |-> HdrLen]
  <2>1. HdrLen \in 1..FrameLen(f)
    BY <1>2
  <2> QED
    BY <1>1, <1>2, <1>3, <2>1
<1> HIDE DEF f
<1>7. CASE f.type = "message"
  <2>1. wpc' = "body" /\ whdr' = f /\ desync' = desync
    BY <1>1, <1>7 DEF ReadHeader
  <2> QED
    BY <1>5, <1>6, <1>7, <2>1 DEF FrameInv
<1>8. CASE f.type # "message"
  <2>1. wpc' # "body" /\ desync' = desync
    BY <1>1, <1>8 DEF ReadHeader
  <2>2. Boundary(log, n + HdrLen)
    <3>1. FrameLen(f) = HdrLen
      BY <1>8 DEF FrameLen
    <3> QED
      BY <1>6, <3>1 DEF Boundary, EndsFrame
  <2> QED
    BY <1>5, <2>1, <2>2 DEF FrameInv
<1> QED
  BY <1>7, <1>8

\* The body behind the header that the worker has read is whole.
LEMMA BodyHere ==
    ASSUME TypeInv, StreamInv, FrameInv, ~(raced \/ cut), wpc = "body"
    PROVE  LET n == Len(consumed)
           IN /\ BodyLen <= Len(pipe) /\ n + Len(pipe) <= Len(log)
              /\ \A j \in 1..BodyLen : /\ log[n + j] = [frame |-> whdr, pos |-> HdrLen + j]
                                       /\ pipe[j] = log[n + j]
              /\ FrameLen(whdr) = HdrLen + BodyLen
<1> DEFINE n == Len(consumed)
           p == Len(pipe)
<1>1. log \in Seq(Unit)
  BY DEF TypeInv, TypeOK
<1>2. /\ n \in Nat /\ p \in Nat /\ Len(log) \in Nat /\ n + p <= Len(log)
      /\ \A i \in 1..p : log[n + i] = pipe[i]
  BY StreamAt
<1>3. /\ Framed(log) /\ Boundary(log, n + p)
      /\ n \in 1..Len(log) /\ log[n] = [frame |-> whdr, pos |-> HdrLen]
      /\ FrameLen(whdr) = HdrLen + BodyLen
  BY DEF FrameInv, FrameLen
<1>4. HdrLen \in Nat \ {0} /\ BodyLen \in Nat \ {0}
  BY SizesAssumption
<1>5. BodyLen <= p
  <2> DEFINE m == n + p
  <2>1. m \in n..Len(log)
    BY <1>2, <1>3
  <2>2. n - log[n].pos + FrameLen(log[n].frame) <= m
    <3> HIDE DEF n, m
    <3> QED
      BY <1>1, <1>3, <2>1, FrameRest DEF m
  <2>3. n - HdrLen + (HdrLen + BodyLen) <= n + p
    BY <1>3, <2>2
  <2> HIDE DEF n, p
  <2> QED
    BY <1>2, <1>4, <2>3
<1>6. ASSUME NEW j \in 1..BodyLen
      PROVE  log[n + j] = [frame |-> whdr, pos |-> HdrLen + j] /\ pipe[j] = log[n + j]
  <2>1. \A i \in 1..HdrLen + BodyLen : log[n - HdrLen + i] = [frame |-> whdr, pos |-> i]
    BY <1>3 DEF Framed
  <2> HIDE DEF n, p
  <2>2. HdrLen + j \in 1..HdrLen + BodyLen /\ n - HdrLen + (HdrLen + j) = n + j /\ j \in 1..p
    BY <1>2, <1>4, <1>5
  <2>3. log[n - HdrLen + (HdrLen + j)] = [frame |-> whdr, pos |-> HdrLen + j]
    BY <2>1, <2>2
  <2> QED
    BY <1>2, <2>2, <2>3
<1> QED
  BY <1>2, <1>3, <1>5, <1>6

LEMMA BodyFrames ==
    ASSUME TypeInv, StreamInv, FrameInv, ReadBody
    PROVE  FrameInv'
<1> DEFINE n == Len(consumed)
           k == Least(BodyLen, Len(pipe))
<1>1. k \in 0..Len(pipe) /\ Len(pipe) \in Nat /\ n \in Nat /\ pipe \in Seq(Unit)
  BY SizesAssumption DEF Least, TypeInv, TypeOK
<1>2. /\ Len(consumed') = n + k
      /\ Len(consumed') + Len(pipe') = n + Len(pipe)
      /\ UNCHANGED <<log, raced, cut>>
  BY <1>1, ConsumeLengths DEF ReadBody
<1> SUFFICES ASSUME ~(raced \/ cut) PROVE FrameInv'
  BY <1>2 DEF FrameInv
<1>3. /\ BodyLen <= Len(pipe) /\ n + Len(pipe) <= Len(log)
      /\ \A j \in 1..BodyLen : /\ log[n + j] = [frame |-> whdr, pos |-> HdrLen + j]
                               /\ pipe[j] = log[n + j]
      /\ FrameLen(whdr) = HdrLen + BodyLen
  BY BodyHere DEF ReadBody
<1>4. k = BodyLen /\ BodyLen \in Nat \ {0} /\ HdrLen \in Nat \ {0}
  BY <1>1, <1>3, SizesAssumption DEF Least
<1>5. Take(pipe, k) = Drop(Units(whdr), HdrLen)
  <2>1. /\ Take(pipe, k) \in Seq(Unit) /\ Len(Take(pipe, k)) = BodyLen
        /\ \A j \in 1..BodyLen : Take(pipe, k)[j] = pipe[j]
    BY <1>1, <1>4, TakeDrop, SubSeqProperties DEF Take
  <2> DEFINE u == Units(whdr)
  <2>2. u \in Seq(Unit) /\ Len(u) = HdrLen + BodyLen
        /\ \A i \in 1..HdrLen + BodyLen : u[i] = [frame |-> whdr, pos |-> i]
    <3>1. whdr \in Frame
      BY DEF ReadBody, TypeInv, FramesInHand
    <3>2. HdrLen + BodyLen \in Nat
      BY <1>4
    <3> QED
      BY <1>3, <3>1, <3>2, UnitsType DEF Units
  <2>3. /\ Drop(u, HdrLen) \in Seq(Unit) /\ Len(Drop(u, HdrLen)) = BodyLen
        /\ \A j \in 1..BodyLen : Drop(u, HdrLen)[j] = u[j + HdrLen]
    <3> HIDE DEF u
    <3>1. HdrLen \in 0..Len(u) /\ HdrLen \in Nat /\ Len(u) - HdrLen = BodyLen
      BY <1>4, <2>2
    <3> QED
      BY <2>2, <3>1, DropType, DropElements
  <2>4. \A j \in 1..BodyLen : Take(pipe, k)[j] = Drop(u, HdrLen)[j]
    <3> HIDE DEF u, k
    <3> SUFFICES ASSUME NEW j \in 1..BodyLen PROVE Take(pipe, k)[j] = Drop(u, HdrLen)[j]
      OBVIOUS
    <3>1. j + HdrLen \in 1..HdrLen + BodyLen /\ j + HdrLen = HdrLen + j
      BY <1>4
    <3>2. Drop(u, HdrLen)[j] = [frame |-> whdr, pos |-> HdrLen + j]
      BY <2>2, <2>3, <3>1
    <3>3. Take(pipe, k)[j] = [frame |-> whdr, pos |-> HdrLen + j]
      BY <1>3, <2>1
    <3> QED
      BY <3>2, <3>3
  <2> HIDE DEF u, k
  <2>5. Take(pipe, k) = Drop(u, HdrLen)
    BY <2>1, <2>3, <2>4, SeqEqual
  <2> QED
    BY <2>5 DEF u
<1>6. desync' = desync /\ wpc' = "header"
  <2>1. desync = FALSE
    BY DEF FrameInv, TypeInv, TypeOK
  <2> QED
    BY <1>5, <2>1 DEF ReadBody
<1>7. Boundary(log, n + k)
  <2>1. BodyLen \in 1..BodyLen /\ n + BodyLen \in 0..Len(log)
    BY <1>1, <1>3, <1>4 DEF TypeInv, TypeOK
  <2>2. log[n + BodyLen] = [frame |-> whdr, pos |-> HdrLen + BodyLen]
    BY <1>3, <2>1
  <2> QED
    BY <1>3, <1>4, <2>1, <2>2 DEF Boundary, EndsFrame
<1> HIDE DEF k
<1> QED
  BY <1>2, <1>6, <1>7 DEF FrameInv

LEMMA StepFrames ==
    ASSUME TypeInv, LockOwners, StreamInv, FrameInv, [Next]_vars
    PROVE  FrameInv'
<1> USE DEF master, buffer, locks, events, worker
<1>1. CASE UNCHANGED vars
  BY <1>1, QuietFrames DEF vars
<1>2. CASE Client
  BY <1>2, QuietFrames DEF Client, Accept, ClientData, ClientGone, StartPost
<1>3. ASSUME NEW t \in Threads, Post(t) PROVE FrameInv'
  <2>1. CASE CheckEmpty(t) \/ ArmKernel(t) \/ ArmMask(t) \/ LockAppend(t)
    BY <2>1, QuietFrames DEF CheckEmpty, ArmKernel, ArmMask, LockAppend
  <2> QED
    BY <1>3, <2>1, StoreFrames DEF Post
<1>4. ASSUME NEW r \in Reactors, Drain(r) PROVE FrameInv'
  <2>1. CASE Dispatch(r) \/ LockWriteNothing(r) \/ StartTrim(r)
             \/ TestEmpty(r) \/ DisarmKernel(r) \/ DisarmMask(r)
    BY <2>1, QuietFrames
       DEF Dispatch, LockWriteNothing, StartTrim, TestEmpty, DisarmKernel, DisarmMask
  <2>2. CASE FinishTrim(r)
    <3>1. (raced => raced') /\ UNCHANGED <<log, consumed, pipe, wpc, whdr, desync, cut>>
      BY <2>2 DEF FinishTrim
    <3> QED
      BY <3>1, QuietFrames
  <2> QED
    BY <1>4, <2>1, <2>2, WriteFrames DEF Drain
<1>5. CASE WorkerStep
  <2>1. CASE ReadGarbage
    <3>1. raced \/ cut
      <4> SUFFICES ASSUME ~(raced \/ cut) PROVE FALSE
        OBVIOUS
      <4> DEFINE f == log[Len(consumed) + 1].frame
      <4>1. f \in Frame /\ HeaderOf(Take(pipe, Least(HdrLen, Len(pipe)))) = f
        BY <2>1, HeaderHere DEF ReadGarbage
      <4> QED
        BY <2>1, <4>1, NoneAssumption DEF ReadGarbage
    <3>2. UNCHANGED <<log, raced, cut>>
      BY <2>1 DEF ReadGarbage, Consume
    <3> QED
      BY <3>1, <3>2 DEF FrameInv
  <2>2. CASE ReadEof
    BY <2>2 DEF ReadEof, FrameInv
  <2> QED
    BY <1>5, <2>1, <2>2, HeaderFrames, BodyFrames DEF WorkerStep
<1> QED
  BY <1>1, <1>2, <1>3, <1>4, <1>5 DEF Next

\* The request path, with what its proofs need.
RequestInv == TypeInv /\ LockOwners /\ StreamInv /\ FrameInv

LEMMA RequestInvCorrect == Spec => []RequestInv
<1>1. Init => RequestInv
  BY InitType, InitLocks, InitStream, InitFrames DEF RequestInv
<1>2. RequestInv /\ [Next]_vars => RequestInv'
  BY StepType, StepLocks, StepStream, StepFrames DEF RequestInv, TypeInv
<1> QED
  BY <1>1, <1>2, PTL DEF Spec

\* The worker never mistakes the bytes of a message for a header unless a write()
\* stopped inside a frame or two sds calls overlapped, although header and body
\* are read by separate calls (worker.c:146, 181).
THEOREM DesyncHasCauseCorrect == Spec => []DesyncHasCause
<1>1. RequestInv => DesyncHasCause
  BY DEF RequestInv, FrameInv, DesyncHasCause
<1> QED
  BY <1>1, RequestInvCorrect, PTL

-----------------------------------------------------------------------------
(* The order of the messages.                                              *)

\* What MessagesInOrder says of two events, the first of which came first.
Precedes(e, f) ==
    e.conn = f.conn /\ "connect" \notin {e.type, f.type}
      => e.type = "message" /\ (f.type = "message" => e.num < f.num)

Posting(t) == pc[t] \in {"check", "ctl", "mask", "wlock", "store"}

\* The frames committed to send_buffer are ordered; none comes after a close, and
\* none has a number that was not received.  A thread that posts an event of a
\* client is the one that owns it, and its frame goes behind all others.
CommitInv ==
    /\ \A j \in 1..Len(log) : \A i \in 1..j - 1 :
         log[i].pos = 1 /\ log[j].pos = 1 => Precedes(log[i].frame, log[j].frame)
    /\ \A i \in 1..Len(log) :
         LET f == log[i].frame
         IN /\ f.type = "message" => f.num <= received[f.conn]
            /\ f.type = "close" => conn[f.conn] = "closed"
    /\ \A t \in Threads : Posting(t) /\ cur[t].type # "connect" =>
         /\ t = Owner[cur[t].conn] /\ conn[cur[t].conn] = "open"
         /\ cur[t].type = "message" => cur[t].num = received[cur[t].conn]
         /\ \A i \in 1..Len(log) : Precedes(log[i].frame, cur[t])

\* While the boundaries hold, what the worker delivered was committed and precedes
\* what it holds the header of and what is still to come.
DeliveryInv ==
    ~(raced \/ cut) =>
      \A i \in 1..Len(delivered) :
        LET e == delivered[i].frame
        IN /\ \E k \in 1..Len(log) : log[k].frame = e
           /\ \A j \in i + 1..Len(delivered) : Precedes(e, delivered[j].frame)
           /\ wpc = "body" => Precedes(e, whdr)
           /\ \A k \in Len(consumed) + 1..Len(log) :
                log[k].pos = 1 => Precedes(e, log[k].frame)

LEMMA InitOrder == Init => CommitInv /\ DeliveryInv
BY DEF Init, CommitInv, DeliveryInv, Posting

\* A step that commits nothing and takes up nothing.
LEMMA QuietCommit ==
    ASSUME CommitInv, UNCHANGED <<log, received, conn, cur>>,
           \A t \in Threads : Posting(t)' => Posting(t)
    PROVE  CommitInv'
BY DEF CommitInv

\* A client's event is numbered behind all those of its connection.
LEMMA ClientCommit ==
    ASSUME TypeInv, FrameInv, CommitInv, Client
    PROVE  CommitInv'
<1> USE DEF StartPost
<1>1. PICK c \in Conns : Accept(c) \/ ClientData(c) \/ ClientGone(c)
  BY DEF Client
<1>2. log' = log /\ \A i \in 1..Len(log) : log[i].frame \in Frame
  BY <1>1 DEF Accept, ClientData, ClientGone, FrameInv, Framed
<1>3. /\ conn \in [Conns -> {"new", "open", "closed"}] /\ received \in [Conns -> 0..MaxMsgs]
      /\ pc \in [Threads -> Pcs] /\ cur \in [Threads -> Frame \cup {None}]
      /\ \A t \in Threads : Posting(t) => cur[t] \in Frame
  BY DEF TypeInv, TypeOK, FramesInHand, Posting
<1>4. \A f \in Frame : f.conn \in Conns /\ f.num \in Nat
  BY SizesAssumption DEF Frame
<1>5. Owner[c] \in Threads /\ Main \in Threads /\ MaxMsgs \in Nat
  BY OwnerAssumption, SizesAssumption DEF Threads
<1>6. CASE Accept(c)
  <2>1. /\ conn' = [conn EXCEPT ![c] = "open"] /\ conn[c] = "new" /\ received' = received
        /\ cur' = [cur EXCEPT ![Main] = [conn |-> c, type |-> "connect", num |-> 0]]
        /\ pc' = [pc EXCEPT ![Main] = "check"] /\ pc[Main] = "idle"
    BY <1>6 DEF Accept
  <2> QED
    BY <1>2, <1>3, <1>4, <1>5, <2>1 DEF CommitInv, Posting
<1>7. CASE ClientData(c)
  <2> DEFINE g == [conn |-> c, type |-> "message", num |-> received[c] + 1]
             t0 == Owner[c]
  <2>1. /\ conn' = conn /\ conn[c] = "open" /\ received' = [received EXCEPT ![c] = @ + 1]
        /\ cur' = [cur EXCEPT ![t0] = g]
        /\ pc' = [pc EXCEPT ![t0] = "check"] /\ pc[t0] = "idle"
    BY <1>7 DEF ClientData
  <2>2. \A f \in Frame : received[f.conn] <= received'[f.conn]
    BY <1>3, <1>4, <1>5, <2>1
  <2>3. \A i \in 1..Len(log) :
          LET f == log[i].frame
          IN /\ f.type = "message" => f.num <= received'[f.conn]
             /\ f.type = "close" => conn'[f.conn] = "closed"
    <3> SUFFICES ASSUME NEW i \in 1..Len(log)
                 PROVE  /\ log[i].frame.type = "message" => log[i].frame.num <= received'[log[i].frame.conn]
                        /\ log[i].frame.type = "close" => conn'[log[i].frame.conn] = "closed"
      OBVIOUS
    <3> DEFINE f == log[i].frame
    <3>1. /\ f \in Frame /\ (f.type = "message" => f.num <= received[f.conn])
          /\ (f.type = "close" => conn[f.conn] = "closed")
      BY <1>2 DEF CommitInv
    <3>2. f.num \in Nat /\ received[f.conn] \in Nat /\ received'[f.conn] \in Nat
      BY <1>3, <1>4, <1>5, <2>1, <3>1
    <3> HIDE DEF f
    <3>3. received[f.conn] <= received'[f.conn]
      BY <2>2, <3>1
    <3>4. f.type = "message" => f.num <= received'[f.conn]
      BY <3>1, <3>2, <3>3
    <3> QED
      BY <2>1, <3>1, <3>4 DEF f
  <2>4. \A i \in 1..Len(log) : Precedes(log[i].frame, g)
    <3> SUFFICES ASSUME NEW i \in 1..Len(log) PROVE Precedes(log[i].frame, g)
      OBVIOUS
    <3> DEFINE f == log[i].frame
    <3>1. /\ f \in Frame /\ (f.type = "message" => f.num <= received[f.conn])
          /\ (f.type = "close" => conn[f.conn] = "closed")
      BY <1>2 DEF CommitInv
    <3>2. f.type \in {"connect", "message", "close"} /\ f.num \in Nat /\ received[c] \in Nat
      BY <1>3, <1>4, <1>5, <3>1 DEF Frame
    <3> HIDE DEF f
    <3>3. Precedes(f, g)
      BY <2>1, <3>1, <3>2 DEF Precedes
    <3> QED
      BY <3>3 DEF f
  <2>5. ASSUME NEW t \in Threads, Posting(t)', cur'[t].type # "connect"
        PROVE  /\ t = Owner[cur'[t].conn] /\ conn'[cur'[t].conn] = "open"
               /\ cur'[t].type = "message" => cur'[t].num = received'[cur'[t].conn]
               /\ \A i \in 1..Len(log) : Precedes(log[i].frame, cur'[t])
    <3>1. CASE t = t0
      <4>1. cur'[t] = g
        BY <1>3, <1>5, <2>1, <3>1
      <4>2. received'[c] = received[c] + 1
        BY <1>3, <2>1
      <4> QED
        BY <2>1, <2>4, <3>1, <4>1, <4>2
    <3>2. CASE t # t0
      <4>1. Posting(t) /\ cur'[t] = cur[t] /\ cur[t] \in Frame
        BY <1>3, <1>5, <2>1, <2>5, <3>2 DEF Posting
      <4>2. /\ t = Owner[cur[t].conn] /\ conn[cur[t].conn] = "open"
            /\ cur[t].type = "message" => cur[t].num = received[cur[t].conn]
            /\ \A i \in 1..Len(log) : Precedes(log[i].frame, cur[t])
        BY <2>5, <4>1 DEF CommitInv
      <4>3. cur[t].conn # c
        BY <3>2, <4>2
      <4> QED
        BY <1>3, <2>1, <4>1, <4>2, <4>3
    <3> QED
      BY <3>1, <3>2
  <2> QED
    BY <1>2, <2>3, <2>5 DEF CommitInv
<1>8. CASE ClientGone(c)
  <2> DEFINE g == [conn |-> c, type |-> "close", num |-> 0]
             t0 == Owner[c]
  <2>1. /\ conn' = conn /\ conn[c] = "open" /\ received' = received
        /\ cur' = [cur EXCEPT ![t0] = g]
        /\ pc' = [pc EXCEPT ![t0] = "check"] /\ pc[t0] = "idle"
    BY <1>8 DEF ClientGone
  <2>2. \A i \in 1..Len(log) : Precedes(log[i].frame, g)
    <3> SUFFICES ASSUME NEW i \in 1..Len(log) PROVE Precedes(log[i].frame, g)
      OBVIOUS
    <3> DEFINE f == log[i].frame
    <3>1. f \in Frame /\ (f.type = "close" => conn[f.conn] = "closed")
      BY <1>2 DEF CommitInv
    <3>2. f.type \in {"connect", "message", "close"}
      BY <3>1 DEF Frame
    <3> HIDE DEF f
    <3>3. Precedes(f, g)
      BY <2>1, <3>1, <3>2 DEF Precedes
    <3> QED
      BY <3>3 DEF f
  <2>3. ASSUME NEW t \in Threads, Posting(t)', cur'[t].type # "connect"
        PROVE  /\ t = Owner[cur'[t].conn] /\ conn'[cur'[t].conn] = "open"
               /\ cur'[t].type = "message" => cur'[t].num = received'[cur'[t].conn]
               /\ \A i \in 1..Len(log) : Precedes(log[i].frame, cur'[t])
    <3>1. CASE t = t0
      <4>1. cur'[t] = g
        BY <1>3, <1>5, <2>1, <3>1
      <4> QED
        BY <2>1, <2>2, <3>1, <4>1
    <3>2. CASE t # t0
      <4>1. Posting(t) /\ cur'[t] = cur[t]
        BY <1>3, <1>5, <2>1, <2>3, <3>2 DEF Posting
      <4> QED
        BY <2>1, <2>3, <4>1 DEF CommitInv
    <3> QED
      BY <3>1, <3>2
  <2> QED
    BY <1>2, <2>1, <2>3 DEF CommitInv
<1> QED
  BY <1>1, <1>6, <1>7, <1>8

\* What StoreAppend puts at the end of the log.
LEMMA StoreLog ==
    ASSUME TypeInv, FrameInv, NEW t \in Threads, StoreAppend(t)
    PROVE  LET f == cur[t]
           IN /\ f \in Frame /\ Len(log) \in Nat /\ FrameLen(f) \in Nat \ {0}
              /\ Len(log') = Len(log) + FrameLen(f)
              /\ \A i \in 1..Len(log) : log'[i] = log[i] /\ log[i].frame \in Frame
              /\ \A i \in Len(log) + 1..Len(log') :
                   log'[i] = [frame |-> f, pos |-> i - Len(log)]
<1> DEFINE u == Units(cur[t])
           L == FrameLen(cur[t])
<1>1. cur[t] \in Frame /\ log \in Seq(Unit)
  BY DEF StoreAppend, TypeInv, TypeOK, FramesInHand
<1>2. /\ u \in Seq(Unit) /\ log' = log \o u /\ L \in Nat \ {0} /\ Len(u) = L
      /\ \A j \in 1..L : u[j] = [frame |-> cur[t], pos |-> j]
  BY <1>1, UnitsType, FrameLenType DEF StoreAppend, Units
<1> HIDE DEF u, L
<1>3. /\ Len(log') = Len(log) + L /\ Len(log) \in Nat
      /\ \A i \in 1..Len(log) + L : log'[i] = IF i <= Len(log) THEN log[i] ELSE u[i - Len(log)]
  <2>1. /\ Len(log \o u) = Len(log) + Len(u)
        /\ \A i \in 1..Len(log) + Len(u) :
             (log \o u)[i] = IF i <= Len(log) THEN log[i] ELSE u[i - Len(log)]
    BY <1>1, <1>2, ConcatProperties
  <2> QED
    BY <1>1, <1>2, <2>1
<1>4. \A i \in 1..Len(log) : log'[i] = log[i]
  BY <1>2, <1>3
<1>5. ASSUME NEW i \in Len(log) + 1..Len(log')
      PROVE  log'[i] = [frame |-> cur[t], pos |-> i - Len(log)]
  <2>1. i \in 1..Len(log) + L /\ ~(i <= Len(log)) /\ i - Len(log) \in 1..L
    BY <1>2, <1>3
  <2> QED
    BY <1>2, <1>3, <2>1
<1>6. \A i \in 1..Len(log) : log[i].frame \in Frame
  BY DEF FrameInv, Framed
<1> QED
  BY <1>1, <1>2, <1>3, <1>4, <1>5, <1>6 DEF L

LEMMA StoreCommit ==
    ASSUME TypeInv, FrameInv, CommitInv, NEW t \in Threads, StoreAppend(t)
    PROVE  CommitInv'
<1> DEFINE f == cur[t]
           n == Len(log)
<1>1. /\ f \in Frame /\ n \in Nat /\ Len(log') \in Nat /\ n <= Len(log')
      /\ \A i \in 1..n : log'[i] = log[i] /\ log[i].frame \in Frame
      /\ \A i \in n + 1..Len(log') : log'[i] = [frame |-> f, pos |-> i - n]
  BY StoreLog
<1>2. /\ f.type \in {"connect", "message", "close"} /\ f.conn \in Conns
      /\ received' = received /\ conn \in [Conns -> {"new", "open", "closed"}]
      /\ received \in [Conns -> 0..MaxMsgs] /\ pc \in [Threads -> Pcs] /\ MaxMsgs \in Nat
      /\ cur \in [Threads -> Frame \cup {None}]
  BY <1>1, SizesAssumption DEF StoreAppend, TypeInv, TypeOK, Frame
<1>3. /\ Posting(t) /\ pc' = [pc EXCEPT ![t] = "idle"] /\ cur' = [cur EXCEPT ![t] = None]
      /\ conn' = IF f.type = "close" THEN [conn EXCEPT ![f.conn] = "closed"] ELSE conn
  BY DEF StoreAppend, Posting
<1>4. f.type # "connect" =>
        /\ t = Owner[f.conn] /\ conn[f.conn] = "open"
        /\ f.type = "message" => f.num = received[f.conn]
        /\ \A i \in 1..n : Precedes(log[i].frame, f)
  BY <1>3 DEF CommitInv
<1>5. \A i \in 1..n : Precedes(log[i].frame, f)
  BY <1>4 DEF Precedes
<1> HIDE DEF f, n
<1>6. ASSUME NEW j \in 1..Len(log'), NEW i \in 1..j - 1, log'[i].pos = 1, log'[j].pos = 1
      PROVE  Precedes(log'[i].frame, log'[j].frame)
  <2>1. CASE j <= n
    <3>1. j \in 1..n /\ i \in 1..n
      BY <1>1, <2>1
    <3> QED
      BY <1>1, <1>6, <3>1 DEF CommitInv, n
  <2>2. CASE j > n
    <3>1. j \in n + 1..Len(log') /\ log'[j] = [frame |-> f, pos |-> j - n]
      BY <1>1, <2>2
    <3>2. j = n + 1
      BY <1>1, <1>6, <3>1
    <3>3. i \in 1..n
      BY <1>1, <3>2
    <3> QED
      BY <1>1, <1>5, <3>1, <3>3
  <2>3. j \in Int
    BY <1>1
  <2> QED
    BY <1>1, <2>1, <2>2, <2>3
<1>7. ASSUME NEW i \in 1..Len(log')
      PROVE  /\ log'[i].frame.type = "message" =>
                  log'[i].frame.num <= received'[log'[i].frame.conn]
             /\ log'[i].frame.type = "close" => conn'[log'[i].frame.conn] = "closed"
  <2>1. CASE i <= n
    <3> DEFINE g == log[i].frame
    <3>1. i \in 1..n
      BY <1>1, <2>1
    <3>2. /\ g \in Frame /\ log'[i].frame = g /\ (g.type = "message" => g.num <= received[g.conn])
          /\ (g.type = "close" => conn[g.conn] = "closed")
      BY <1>1, <3>1 DEF CommitInv, n
    <3>3. g.conn \in Conns
      BY <3>2 DEF Frame
    <3> HIDE DEF g
    <3>4. g.type = "close" => conn'[g.conn] = "closed"
      BY <1>2, <1>3, <3>2, <3>3
    <3> QED
      BY <1>2, <3>2, <3>4
  <2>2. CASE i > n
    <3> i \in n + 1..Len(log')
      BY <1>1, <2>2
    <3>0. log'[i] = [frame |-> f, pos |-> i - n]
      BY <1>1
    <3>1. log'[i].frame = f
      BY <3>0
    <3>2. f.type = "message" => f.num <= received'[f.conn]
      BY <1>2, <1>4
    <3>3. f.type = "close" => conn'[f.conn] = "closed"
      BY <1>2, <1>3
    <3> QED
      BY <3>1, <3>2, <3>3
  <2>3. i \in Int
    BY <1>1
  <2> QED
    BY <1>1, <2>1, <2>2, <2>3
<1>8. ASSUME NEW s \in Threads, Posting(s)', cur'[s].type # "connect"
      PROVE  /\ s = Owner[cur'[s].conn] /\ conn'[cur'[s].conn] = "open"
             /\ cur'[s].type = "message" => cur'[s].num = received'[cur'[s].conn]
             /\ \A i \in 1..Len(log') : Precedes(log'[i].frame, cur'[s])
  <2> DEFINE g == cur[s]
  <2>1. s # t /\ Posting(s) /\ cur'[s] = g
    BY <1>2, <1>3, <1>8 DEF Posting
  <2>2. /\ s = Owner[g.conn] /\ conn[g.conn] = "open"
        /\ g.type = "message" => g.num = received[g.conn]
        /\ \A i \in 1..n : Precedes(log[i].frame, g)
    BY <1>8, <2>1 DEF CommitInv, n
  <2>3. f.type # "connect" => f.conn # g.conn
    BY <1>4, <2>1, <2>2
  <2> HIDE DEF g
  <2>4. Precedes(f, g)
    BY <2>3 DEF Precedes
  <2>5. \A i \in 1..Len(log') : Precedes(log'[i].frame, g)
    <3> SUFFICES ASSUME NEW i \in 1..Len(log') PROVE Precedes(log'[i].frame, g)
      OBVIOUS
    <3>1. CASE i <= n
      <4>1. i \in 1..n
        BY <1>1, <3>1
      <4> QED
        BY <1>1, <2>2, <4>1
    <3>2. CASE i > n
      <4>1. i \in n + 1..Len(log')
        BY <1>1, <3>2
      <4>2. log'[i] = [frame |-> f, pos |-> i - n]
        BY <1>1, <4>1
      <4> QED
        BY <2>4, <4>2
    <3>3. i \in Int
      BY <1>1
    <3> QED
      BY <1>1, <3>1, <3>2, <3>3
  <2>6. conn'[g.conn] = conn[g.conn]
    <3>1. CASE f.type = "close"
      <4>1. f.conn # g.conn
        BY <2>3, <3>1
      <4> QED
        BY <1>2, <1>3, <4>1
    <3>2. CASE f.type # "close"
      BY <1>3, <3>2
    <3> QED
      BY <3>1, <3>2
  <2> QED
    BY <1>2, <2>1, <2>2, <2>5, <2>6
<1> QED
  BY <1>6, <1>7, <1>8 DEF CommitInv

LEMMA StepCommit ==
    ASSUME TypeInv, FrameInv, CommitInv, [Next]_vars
    PROVE  CommitInv'
<1> USE DEF master, buffer, locks, events, worker, Posting
<1>1. pc \in [Threads -> Pcs]
  BY DEF TypeInv, TypeOK
<1>2. CASE UNCHANGED vars
  BY <1>2, QuietCommit DEF vars
<1>3. CASE Client
  BY <1>3, ClientCommit
<1>4. ASSUME NEW t \in Threads, Post(t) PROVE CommitInv'
  <2>1. CASE CheckEmpty(t) \/ ArmKernel(t) \/ ArmMask(t) \/ LockAppend(t)
    <3>1. /\ Posting(t) /\ \E p \in Pcs : pc' = [pc EXCEPT ![t] = p]
          /\ UNCHANGED <<log, received, conn, cur>>
      BY <2>1 DEF CheckEmpty, ArmKernel, ArmMask, LockAppend, Pcs
    <3> QED
      BY <1>1, <3>1, QuietCommit
  <2> QED
    BY <1>4, <2>1, StoreCommit DEF Post
<1>5. ASSUME NEW r \in Reactors, Drain(r) PROVE CommitInv'
  <2>1. \E p \in DrainPcs \cup {"idle", "rlock"} : pc' = [pc EXCEPT ![r] = p]
    BY <1>5 DEF Drain, Dispatch, LockWriteNothing, LockWrite, StartTrim, FinishTrim, TestEmpty,
                DisarmKernel, DisarmMask, DrainPcs
  <2>2. UNCHANGED <<log, received, conn, cur>>
    BY <1>5 DEF Drain, Dispatch, LockWriteNothing, LockWrite, StartTrim, FinishTrim, TestEmpty,
                DisarmKernel, DisarmMask
  <2>3. r \in Threads
    BY DEF Threads
  <2> QED
    BY <1>1, <2>1, <2>2, <2>3, QuietCommit DEF DrainPcs
<1>6. CASE WorkerStep
  BY <1>6, QuietCommit DEF WorkerStep, ReadHeader, ReadGarbage, ReadBody, ReadEof, Consume
<1> QED
  BY <1>2, <1>3, <1>4, <1>5, <1>6 DEF Next

\* A step that delivers nothing, reads nothing and commits nothing.
LEMMA QuietDelivery ==
    ASSUME DeliveryInv, UNCHANGED <<log, consumed, delivered, wpc, whdr>>,
           raced => raced', cut => cut'
    PROVE  DeliveryInv'
BY DEF DeliveryInv

\* A frame that is committed comes behind everything that was.
LEMMA StoreDelivery ==
    ASSUME TypeInv, FrameInv, CommitInv, DeliveryInv, NEW t \in Threads, StoreAppend(t)
    PROVE  DeliveryInv'
<1> DEFINE f == cur[t]
           n == Len(log)
           c == Len(consumed)
<1>1. /\ f \in Frame /\ n \in Nat /\ Len(log') \in Nat /\ n <= Len(log')
      /\ \A i \in 1..n : log'[i] = log[i] /\ log[i].frame \in Frame
      /\ \A i \in n + 1..Len(log') : log'[i] = [frame |-> f, pos |-> i - n]
  BY StoreLog
<1>2. /\ UNCHANGED <<consumed, delivered, wpc, whdr, cut>> /\ (raced => raced')
      /\ c \in Nat
  BY DEF StoreAppend, worker, TypeInv, TypeOK
<1>3. \A i \in 1..n : Precedes(log[i].frame, f)
  <2>1. f.type # "connect" => \A i \in 1..n : Precedes(log[i].frame, f)
    BY DEF CommitInv, Posting, StoreAppend
  <2> QED
    BY <2>1 DEF Precedes
<1> SUFFICES ASSUME ~(raced' \/ cut'), NEW i \in 1..Len(delivered)
             PROVE  /\ \E k \in 1..Len(log') : log'[k].frame = delivered[i].frame
                    /\ \A j \in i + 1..Len(delivered) :
                         Precedes(delivered[i].frame, delivered[j].frame)
                    /\ wpc = "body" => Precedes(delivered[i].frame, whdr)
                    /\ \A k \in c + 1..Len(log') :
                         log'[k].pos = 1 => Precedes(delivered[i].frame, log'[k].frame)
  BY <1>2 DEF DeliveryInv
<1> DEFINE e == delivered[i].frame
<1>4. /\ \E k \in 1..n : log[k].frame = e
      /\ \A j \in i + 1..Len(delivered) : Precedes(e, delivered[j].frame)
      /\ wpc = "body" => Precedes(e, whdr)
      /\ \A k \in c + 1..n : log[k].pos = 1 => Precedes(e, log[k].frame)
  BY <1>2 DEF DeliveryInv
<1> HIDE DEF e, f, n
<1>5. PICK k0 \in 1..n : log[k0].frame = e
  BY <1>4
<1>6. k0 \in 1..Len(log') /\ log'[k0].frame = e /\ Precedes(e, f)
  BY <1>1, <1>3, <1>5
<1>7. ASSUME NEW k \in c + 1..Len(log'), log'[k].pos = 1
      PROVE  Precedes(e, log'[k].frame)
  <2>1. CASE k <= n
    <3>1. k \in 1..n /\ k \in c + 1..n
      BY <1>1, <1>2, <2>1
    <3> QED
      BY <1>1, <1>4, <1>7, <3>1
  <2>2. CASE k > n
    <3>1. k \in n + 1..Len(log')
      BY <1>1, <1>2, <2>2
    <3>2. log'[k] = [frame |-> f, pos |-> k - n]
      BY <1>1, <3>1
    <3> QED
      BY <1>6, <3>2
  <2>3. k \in Int
    BY <1>2
  <2> QED
    BY <1>1, <2>1, <2>2, <2>3
<1> QED
  BY <1>4, <1>6, <1>7 DEF e

\* A delivery of a frame that comes behind the others and before the rest.
LEMMA NewDelivery ==
    ASSUME TypeInv, DeliveryInv, ~(raced \/ cut), UNCHANGED log,
           NEW f \in Frame, NEW g \in Nat,
           delivered' = Append(delivered, [frame |-> f, got |-> g]),
           Len(consumed') \in Nat, Len(consumed') >= Len(consumed), wpc' # "body",
           \E k \in 1..Len(log) : log[k].frame = f,
           \A i \in 1..Len(delivered) : Precedes(delivered[i].frame, f),
           \A k \in Len(consumed') + 1..Len(log) :
             log[k].pos = 1 => Precedes(f, log[k].frame)
    PROVE  DeliveryInv'
<1> DEFINE d == [frame |-> f, got |-> g]
           E == [frame : Frame \cup {None}, got : Nat]
           m == Len(delivered)
<1>1. delivered \in Seq(E) /\ d \in E /\ m \in Nat
  BY DEF TypeInv, TypeOK
<1>2. /\ Len(Append(delivered, d)) = m + 1
      /\ \A i \in 1..m : Append(delivered, d)[i] = delivered[i]
      /\ Append(delivered, d)[m + 1] = d
  <2> HIDE DEF d, E
  <2> QED
    BY <1>1, AppendProperties
<1>3. /\ Len(delivered') = m + 1
      /\ \A i \in 1..m : delivered'[i].frame = delivered[i].frame
      /\ delivered'[m + 1].frame = f
  BY <1>2
<1>4. Len(consumed) \in Nat /\ Len(log) \in Nat
  BY DEF TypeInv, TypeOK
<1> HIDE DEF d, m
<1>5. ASSUME NEW i \in 1..m
      PROVE  /\ \E k \in 1..Len(log) : log[k].frame = delivered[i].frame
             /\ \A j \in i + 1..m + 1 : Precedes(delivered[i].frame, delivered'[j].frame)
             /\ \A k \in Len(consumed') + 1..Len(log) :
                  log[k].pos = 1 => Precedes(delivered[i].frame, log[k].frame)
  <2> DEFINE e == delivered[i].frame
  <2>1. /\ \E k \in 1..Len(log) : log[k].frame = e
        /\ \A j \in i + 1..m : Precedes(e, delivered[j].frame)
        /\ \A k \in Len(consumed) + 1..Len(log) : log[k].pos = 1 => Precedes(e, log[k].frame)
        /\ Precedes(e, f)
    BY DEF DeliveryInv, m
  <2> HIDE DEF e
  <2>2. ASSUME NEW j \in i + 1..m + 1 PROVE Precedes(e, delivered'[j].frame)
    <3>1. CASE j = m + 1
      BY <1>3, <2>1, <3>1
    <3>2. CASE j # m + 1
      <4>1. m \in Nat
        BY <1>1
      <4>2. j \in i + 1..m /\ j \in 1..m
        BY <3>2, <4>1
      <4> QED
        BY <1>3, <2>1, <4>2
    <3> QED
      BY <3>1, <3>2
  <2>3. \A k \in Len(consumed') + 1..Len(log) : k \in Len(consumed) + 1..Len(log)
    BY <1>4
  <2> QED
    BY <2>1, <2>2, <2>3 DEF e
<1>6. ASSUME NEW i \in 1..m + 1
      PROVE  /\ \E k \in 1..Len(log) : log[k].frame = delivered'[i].frame
             /\ \A j \in i + 1..m + 1 : Precedes(delivered'[i].frame, delivered'[j].frame)
             /\ \A k \in Len(consumed') + 1..Len(log) :
                  log[k].pos = 1 => Precedes(delivered'[i].frame, log[k].frame)
  <2>1. CASE i \in 1..m
    BY <1>3, <1>5, <2>1
  <2>2. CASE i = m + 1
    <3>1. i + 1..m + 1 = {}
      BY <1>1, <2>2
    <3> QED
      BY <1>3, <2>2, <3>1
  <2>3. i \in 1..m \/ i = m + 1
    BY <1>1
  <2> QED
    BY <2>1, <2>2, <2>3
<1> QED
  BY <1>3, <1>6 DEF DeliveryInv

\* The worker's read() of a header moves on to the frame's body or delivers it.
LEMMA HeaderDelivery ==
    ASSUME TypeInv, StreamInv, FrameInv, CommitInv, DeliveryInv, ReadHeader
    PROVE  DeliveryInv'
<1> SUFFICES ASSUME ~(raced \/ cut) PROVE DeliveryInv'
  BY DEF DeliveryInv, ReadHeader, Consume
<1> DEFINE n == Len(consumed)
           a == n + 1
           f == log[a].frame
<1>1. /\ f \in Frame /\ n + FrameLen(f) <= n + Len(pipe) /\ n + Len(pipe) <= Len(log)
      /\ \A j \in 1..FrameLen(f) : log[n + j] = [frame |-> f, pos |-> j]
      /\ HeaderOf(Take(pipe, Least(HdrLen, Len(pipe)))) = f
  BY HeaderHere DEF ReadHeader
<1>2. FrameLen(f) \in Nat \ {0} /\ FrameLen(f) >= HdrLen /\ HdrLen \in Nat \ {0}
  BY <1>1, FrameLenType, SizesAssumption
<1>3. n \in Nat /\ Len(pipe) \in Nat /\ Len(log) \in Nat
  BY DEF TypeInv, TypeOK
<1>4. HdrLen \in 0..Len(pipe)
  BY <1>1, <1>2, <1>3
<1>5. Len(consumed') = n + HdrLen /\ UNCHANGED <<log, raced, cut>>
  BY <1>4, ConsumeLengths DEF ReadHeader
<1>6. a \in 1..Len(log) /\ a \in n + 1..Len(log) /\ log[a].pos = 1
  <2>1. 1 \in 1..FrameLen(f)
    BY <1>2
  <2>2. log[a] = [frame |-> f, pos |-> 1]
    BY <1>1, <2>1
  <2> QED
    BY <1>1, <1>2, <1>3, <2>2
<1>7. \A i \in 1..Len(delivered) : Precedes(delivered[i].frame, f)
  BY <1>6 DEF DeliveryInv
<1>8. \A k \in n + HdrLen + 1..Len(log) :
        k \in 1..Len(log) /\ k \in n + 1..Len(log) /\ a \in 1..k - 1
  BY <1>2, <1>3
<1>9. \A k \in n + HdrLen + 1..Len(log) : log[k].pos = 1 => Precedes(f, log[k].frame)
  BY <1>6, <1>8 DEF CommitInv
<1> HIDE DEF f, a
<1>10. CASE f.type = "message"
  <2>1. wpc' = "body" /\ whdr' = f /\ delivered' = delivered
    BY <1>1, <1>10 DEF ReadHeader
  <2>2. \A i \in 1..Len(delivered) :
          LET e == delivered[i].frame
          IN /\ \E k \in 1..Len(log) : log[k].frame = e
             /\ \A j \in i + 1..Len(delivered) : Precedes(e, delivered[j].frame)
             /\ \A k \in n + 1..Len(log) : log[k].pos = 1 => Precedes(e, log[k].frame)
    BY DEF DeliveryInv
  <2>3. \A i \in 1..Len(delivered) : \A k \in n + HdrLen + 1..Len(log) :
          log[k].pos = 1 => Precedes(delivered[i].frame, log[k].frame)
    BY <1>8, <2>2
  <2> QED
    BY <1>5, <1>7, <2>1, <2>2, <2>3 DEF DeliveryInv
<1>11. CASE f.type # "message"
  <2>1. wpc' # "body" /\ delivered' = Append(delivered, [frame |-> f, got |-> 0])
    BY <1>1, <1>11 DEF ReadHeader, Deliver
  <2>2. n + HdrLen \in Nat /\ n + HdrLen >= n
    BY <1>2, <1>3
  <2>3. \E k \in 1..Len(log) : log[k].frame = f
    BY <1>6 DEF f
  <2> QED
    BY <1>1, <1>5, <1>7, <1>9, <2>1, <2>2, <2>3, NewDelivery
<1> QED
  BY <1>10, <1>11

\* The read() of a body delivers the message whose header was read.
LEMMA BodyDelivery ==
    ASSUME TypeInv, StreamInv, FrameInv, CommitInv, DeliveryInv, ReadBody
    PROVE  DeliveryInv'
<1> SUFFICES ASSUME ~(raced \/ cut) PROVE DeliveryInv'
  BY DEF DeliveryInv, ReadBody, Consume
<1> DEFINE n == Len(consumed)
           k0 == Least(BodyLen, Len(pipe))
           a == n - HdrLen + 1
<1>1. wpc = "body" /\ whdr \in Frame /\ HdrLen \in Nat \ {0} /\ BodyLen \in Nat \ {0}
  BY SizesAssumption DEF ReadBody, TypeInv, FramesInHand
<1>2. n \in 1..Len(log) /\ log[n] = [frame |-> whdr, pos |-> HdrLen]
  BY <1>1 DEF FrameInv
<1>3. n \in Nat /\ Len(pipe) \in Nat /\ Len(log) \in Nat
  BY DEF TypeInv, TypeOK
<1>4. k0 \in 0..Len(pipe)
  BY <1>1, <1>3 DEF Least
<1>5. /\ Len(consumed') = n + k0 /\ UNCHANGED <<log, raced, cut>>
      /\ delivered' = Append(delivered, [frame |-> whdr, got |-> k0]) /\ wpc' = "header"
  BY <1>4, ConsumeLengths DEF ReadBody, Deliver
<1>6. a \in 1..n /\ log[a] = [frame |-> whdr, pos |-> 1]
  <2>1. /\ 0 <= n - HdrLen
        /\ \A j \in 1..FrameLen(whdr) : log[n - HdrLen + j] = [frame |-> whdr, pos |-> j]
    BY <1>2 DEF FrameInv, Framed
  <2>2. 1 \in 1..FrameLen(whdr)
    BY <1>1, FrameLenType
  <2> QED
    BY <1>1, <1>3, <2>1, <2>2
<1>7. log[a].pos = 1 /\ log[a].frame = whdr
  BY <1>6
<1> HIDE DEF a, k0
<1>8. \A k \in n + k0 + 1..Len(log) : k \in 1..Len(log) /\ a \in 1..k - 1
  BY <1>3, <1>4, <1>6
<1>9. \A k \in n + k0 + 1..Len(log) : log[k].pos = 1 => Precedes(whdr, log[k].frame)
  BY <1>7, <1>8 DEF CommitInv
<1>10. \A i \in 1..Len(delivered) : Precedes(delivered[i].frame, whdr)
  BY <1>1 DEF DeliveryInv
<1>11. n + k0 \in Nat /\ n + k0 >= n /\ k0 \in Nat
  BY <1>3, <1>4
<1>12. \E k \in 1..Len(log) : log[k].frame = whdr
  BY <1>2
<1> QED
  BY <1>1, <1>5, <1>9, <1>10, <1>11, <1>12, NewDelivery

LEMMA StepDelivery ==
    ASSUME TypeInv, StreamInv, FrameInv, FrameInv', CommitInv, DeliveryInv, [Next]_vars
    PROVE  DeliveryInv'
<1> USE DEF master, buffer, locks, events, worker
<1>1. CASE UNCHANGED vars
  BY <1>1, QuietDelivery DEF vars
<1>2. CASE Client
  BY <1>2, QuietDelivery DEF Client, Accept, ClientData, ClientGone, StartPost
<1>3. ASSUME NEW t \in Threads, Post(t) PROVE DeliveryInv'
  <2>1. CASE CheckEmpty(t) \/ ArmKernel(t) \/ ArmMask(t) \/ LockAppend(t)
    BY <2>1, QuietDelivery DEF CheckEmpty, ArmKernel, ArmMask, LockAppend
  <2> QED
    BY <1>3, <2>1, StoreDelivery DEF Post
<1>4. ASSUME NEW r \in Reactors, Drain(r) PROVE DeliveryInv'
  <2>1. CASE Dispatch(r) \/ LockWriteNothing(r) \/ StartTrim(r)
             \/ TestEmpty(r) \/ DisarmKernel(r) \/ DisarmMask(r)
    BY <2>1, QuietDelivery
       DEF Dispatch, LockWriteNothing, StartTrim, TestEmpty, DisarmKernel, DisarmMask
  <2>2. CASE FinishTrim(r)
    <3>1. (raced => raced') /\ UNCHANGED <<log, consumed, delivered, wpc, whdr, cut>>
      BY <2>2 DEF FinishTrim
    <3> QED
      BY <3>1, QuietDelivery
  <2>3. CASE LockWrite(r)
    <3>1. (raced => raced') /\ (cut => cut')
          /\ UNCHANGED <<log, consumed, delivered, wpc, whdr>>
      BY <2>3 DEF LockWrite
    <3> QED
      BY <3>1, QuietDelivery
  <2> QED
    BY <1>4, <2>1, <2>2, <2>3 DEF Drain
<1>5. CASE WorkerStep
  <2>1. CASE ReadGarbage
    <3>1. desync' /\ UNCHANGED <<raced, cut>>
      BY <2>1 DEF ReadGarbage, Consume
    <3> QED
      BY <3>1 DEF FrameInv, DeliveryInv
  <2>2. CASE ReadEof
    <3>1. wpc' # "body" /\ UNCHANGED <<log, consumed, delivered, raced, cut>>
      BY <2>2 DEF ReadEof
    <3> QED
      BY <3>1 DEF DeliveryInv
  <2> QED
    BY <1>5, <2>1, <2>2, HeaderDelivery, BodyDelivery DEF WorkerStep
<1> QED
  BY <1>1, <1>2, <1>3, <1>4, <1>5 DEF Next

\* The worker's callbacks see the messages of a connection in the order they were
\* received and its close behind them, for any number of reactors, connections and
\* messages, until two sds calls overlap or a write() ends inside a frame
\* (worker.c:129-196).
THEOREM MessagesInOrderCorrect == Spec => []MessagesInOrder
<1> DEFINE IInv == RequestInv /\ CommitInv /\ DeliveryInv
<1>1. Init => IInv
  BY InitType, InitLocks, InitStream, InitFrames, InitOrder DEF RequestInv
<1>2. IInv /\ [Next]_vars => IInv'
  BY StepType, StepLocks, StepStream, StepFrames, StepCommit, StepDelivery
     DEF RequestInv, TypeInv
<1>3. IInv => MessagesInOrder
  <2> SUFFICES ASSUME IInv, ~(raced \/ cut),
                      NEW j \in 1..Len(delivered), NEW i \in 1..j - 1
               PROVE  Precedes(delivered[i].frame, delivered[j].frame)
    BY DEF MessagesInOrder, Precedes
  <2>1. Len(delivered) \in Nat
    BY DEF RequestInv, TypeInv, TypeOK
  <2>2. i \in 1..Len(delivered) /\ j \in i + 1..Len(delivered)
    BY <2>1
  <2> QED
    BY <2>2 DEF DeliveryInv
<1> HIDE DEF IInv
<1> QED
  BY <1>1, <1>2, <1>3, PTL DEF Spec

-----------------------------------------------------------------------------
(* One reactor, whose connections are all accepted.                        *)

\* The one thread r arms the socketpair before it appends to an empty buffer and
\* disarms it once the buffer is empty again; it writes only while there is room.
SoloInv(r) ==
    /\ ~closed /\ pc[Main] = "idle" /\ \A c \in Conns : conn[c] # "new"
    /\ pc[r] \in {"idle", "check"} => IF buf = <<>> THEN ~wmask[r] /\ ~wkern[r]
                                                    ELSE wmask[r] /\ wkern[r]
    /\ pc[r] = "ctl" => buf = <<>> /\ ~wmask[r] /\ ~wkern[r]
    /\ pc[r] = "mask" => buf = <<>> /\ ~wmask[r] /\ wkern[r]
    /\ pc[r] \in {"wlock", "store", "rlock", "trim", "shift", "test", "unkern"} =>
         wmask[r] /\ wkern[r]
    /\ pc[r] = "rlock" => buf # <<>> /\ Len(pipe) < PipeCap
    /\ pc[r] = "unkern" => buf = <<>>
    /\ pc[r] = "unmask" => buf = <<>> /\ wmask[r] /\ ~wkern[r]

LEMMA InitSolo ==
    ASSUME NEW r \in Reactors, Accepted = Conns, Init
    PROVE  SoloInv(r)
BY ThreadsAssumption DEF Init, SoloInv, Threads

LEMMA StepSolo ==
    ASSUME NEW r, Reactors = {r}, TypeInv, LockOwners, SoloInv(r), [Next]_vars
    PROVE  SoloInv(r)'
<1> USE DEF SoloInv, master, buffer, locks, events, worker
<1>1. /\ r \in Reactors /\ r \in Threads /\ Main \in Threads /\ Main # r
      /\ \A c \in Conns : Owner[c] = r
  BY ThreadsAssumption, OwnerAssumption DEF Threads
<1>2. /\ pc \in [Threads -> Pcs] /\ wmask \in [Reactors -> BOOLEAN]
      /\ wkern \in [Reactors -> BOOLEAN] /\ conn \in [Conns -> {"new", "open", "closed"}]
      /\ buf \in Seq(Unit) /\ pipe \in Seq(Unit)
  BY DEF TypeInv, TypeOK
<1>3. CASE UNCHANGED vars
  BY <1>3 DEF vars
<1>4. CASE Client
  BY <1>1, <1>2, <1>4 DEF Client, Accept, ClientData, ClientGone, StartPost
<1>5. ASSUME NEW t \in Threads, Post(t) PROVE SoloInv(r)'
  <2>1. t = r
    BY <1>5 DEF Post, CheckEmpty, ArmKernel, ArmMask, LockAppend, StoreAppend, Threads
  <2>2. pc[r] \in {"check", "ctl", "mask", "wlock", "store"} => cur[r] \in Frame
    BY <1>1 DEF TypeInv, FramesInHand
  <2>3. \A f \in Frame : f.conn \in Conns
    BY DEF Frame
  <2>4. CASE CheckEmpty(r)
    <3>1. ~Mutating
      <4>1. \A s \in Threads : s = r \/ s = Main
        BY DEF Threads
      <4> QED
        BY <2>4, <4>1 DEF Mutating, CheckEmpty
    <3>2. pc' = [pc EXCEPT ![r] = IF buf = <<>> THEN "ctl" ELSE "wlock"]
      BY <2>4, <3>1 DEF CheckEmpty
    <3> QED
      BY <1>1, <1>2, <2>4, <3>2 DEF CheckEmpty
  <2>5. CASE ArmKernel(r)
    BY <1>1, <1>2, <2>2, <2>3, <2>5 DEF ArmKernel
  <2>6. CASE ArmMask(r)
    BY <1>1, <1>2, <2>2, <2>3, <2>6 DEF ArmMask
  <2>7. CASE LockAppend(r)
    BY <1>1, <1>2, <2>7 DEF LockAppend
  <2>8. CASE StoreAppend(r)
    <3>1. cur[r] \in Frame /\ seen[r] \in Seq(Unit)
      BY <1>1, <2>2, <2>8 DEF StoreAppend, TypeInv, TypeOK
    <3>2. buf' # <<>>
      <4>1. Units(cur[r]) \in Seq(Unit) /\ Len(Units(cur[r])) > 0
        BY <3>1, UnitsType, FrameLenType DEF Units
      <4>2. PICK s \in Seq(Unit) : buf' = s \o Units(cur[r])
        <5>1. Drop(seen[r], Len(buf)) \in Seq(Unit)
          <6>1. Len(buf) \in Nat
            BY <1>2
          <6> QED
            BY <3>1, <6>1, DropType
        <5>2. buf \o Drop(seen[r], Len(buf)) \in Seq(Unit)
          BY <1>2, <5>1
        <5> QED
          BY <2>8, <3>1, <5>2 DEF StoreAppend, Concatenations
      <4>3. Len(buf') = Len(s) + Len(Units(cur[r])) /\ Len(s) \in Nat
        <5> DEFINE u == Units(cur[r])
        <5>1. u \in Seq(Unit) /\ buf' = s \o u
          BY <4>1, <4>2
        <5> HIDE DEF u
        <5> QED
          BY <5>1, ConcatProperties DEF u
      <4>4. Len(buf') # 0
        <5>1. Len(Units(cur[r])) \in Nat
          BY <4>1
        <5> QED
          BY <4>1, <4>3, <5>1
      <4> QED
        BY <4>4
    <3>3. conn' = conn \/ \E c \in Conns : conn' = [conn EXCEPT ![c] = "closed"]
      BY <2>3, <2>8, <3>1 DEF StoreAppend
    <3>4. /\ pc[r] = "store" /\ pc' = [pc EXCEPT ![r] = "idle"]
          /\ UNCHANGED <<closed, wmask, wkern, pipe>>
      BY <2>8 DEF StoreAppend
    <3> QED
      BY <1>1, <1>2, <3>2, <3>3, <3>4
  <2> QED
    BY <1>5, <2>1, <2>4, <2>5, <2>6, <2>7, <2>8 DEF Post
<1>6. ASSUME NEW q \in Reactors, Drain(q) PROVE SoloInv(r)'
  <2>0. q = r
    OBVIOUS
  <2>1. CASE Dispatch(r)
    BY <1>1, <1>2, <2>1 DEF Dispatch
  <2>2. CASE LockWriteNothing(r)
    <3>1. Writable > 0
      <4>1. Len(buf) \in Nat \ {0} /\ Len(pipe) \in Nat /\ Len(pipe) < PipeCap
        BY <1>2, <2>2, EmptySeq DEF LockWriteNothing
      <4> QED
        BY <4>1, PipeAssumption DEF Writable, Least
    <3> QED
      BY <2>2, <3>1 DEF LockWriteNothing
  <2>3. CASE LockWrite(r)
    <3>1. /\ pc[r] = "rlock" /\ pc' = [pc EXCEPT ![r] = "trim"]
          /\ UNCHANGED <<conn, closed, wmask, wkern>>
      BY <2>3 DEF LockWrite
    <3> QED
      BY <1>1, <1>2, <3>1
  <2>4. CASE StartTrim(r)
    BY <1>1, <1>2, <2>4 DEF StartTrim
  <2>5. CASE FinishTrim(r)
    <3>1. /\ pc[r] = "shift" /\ pc' = [pc EXCEPT ![r] = "test"]
          /\ UNCHANGED <<conn, closed, wmask, wkern, pipe>>
      BY <2>5 DEF FinishTrim
    <3> QED
      BY <1>1, <1>2, <3>1
  <2>6. CASE TestEmpty(r)
    <3>1. wlock = None
      <4>1. wlock \in {r, Main, None} /\ pc[r] # "store"
        BY <2>6 DEF TestEmpty, TypeInv, TypeOK, Threads
      <4> QED
        BY <1>1, <4>1 DEF LockOwners
    <3>2. pc[r] = "test" /\ pc' = [pc EXCEPT ![r] = IF buf = <<>> THEN "unkern" ELSE "idle"]
      BY <2>6, <3>1 DEF TestEmpty
    <3> QED
      BY <1>1, <1>2, <2>6, <3>2 DEF TestEmpty
  <2>7. CASE DisarmKernel(r)
    BY <1>1, <1>2, <2>7 DEF DisarmKernel
  <2>8. CASE DisarmMask(r)
    BY <1>1, <1>2, <2>8 DEF DisarmMask
  <2> QED
    BY <1>6, <2>0, <2>1, <2>2, <2>3, <2>4, <2>5, <2>6, <2>7, <2>8 DEF Drain
<1>7. CASE WorkerStep
  <2>1. UNCHANGED <<conn, closed, pc, buf, wmask, wkern>>
    BY <1>7 DEF WorkerStep, ReadHeader, ReadGarbage, ReadBody, ReadEof, Consume
  <2>2. Len(pipe') <= Len(pipe) /\ Len(pipe') \in Nat
    <3>1. pipe' = pipe \/ \E k \in 0..Len(pipe) : pipe' = Drop(pipe, k)
      <4>0. HdrLen \in Nat \ {0} /\ BodyLen \in Nat \ {0} /\ Len(pipe) \in Nat
        BY <1>2, SizesAssumption
      <4>1. ASSUME NEW k \in 0..Len(pipe), Consume(k)
            PROVE  \E i \in 0..Len(pipe) : pipe' = Drop(pipe, i)
        BY <4>1 DEF Consume
      <4>2. CASE ReadHeader
        <5>1. HeaderOf(Take(pipe, Least(HdrLen, Len(pipe)))) # None
          BY <4>2 DEF ReadHeader
        <5>2. Least(HdrLen, Len(pipe)) \in 0..Len(pipe)
          BY <4>0 DEF Least
        <5>3. Len(Take(pipe, Least(HdrLen, Len(pipe)))) = HdrLen
          BY <5>1 DEF HeaderOf
        <5>4. HdrLen \in 0..Len(pipe)
          BY <1>2, <5>2, <5>3, TakeDrop
        <5> QED
          BY <4>1, <4>2, <5>4 DEF ReadHeader
      <4>3. CASE ReadGarbage
        <5> DEFINE k == Least(HdrLen, Len(pipe))
        <5>1. PICK more \in 0..(IF k < HdrLen THEN 0 ELSE Least(BodyLen, Len(pipe) - k)) :
                 Consume(k + more)
          BY <4>3 DEF ReadGarbage
        <5>2. k + more \in 0..Len(pipe)
          BY <4>0, <5>1 DEF Least
        <5> QED
          BY <4>1, <5>1, <5>2
      <4>4. CASE ReadBody
        <5>1. Least(BodyLen, Len(pipe)) \in 0..Len(pipe)
          BY <4>0 DEF Least
        <5> QED
          BY <4>1, <4>4, <5>1 DEF ReadBody
      <4>5. CASE ReadEof
        BY <4>5 DEF ReadEof
      <4> QED
        BY <1>7, <4>2, <4>3, <4>4, <4>5 DEF WorkerStep
    <3> QED
      BY <1>2, <3>1, TakeDrop
  <2>3. Len(pipe) \in Nat /\ PipeCap \in Nat
    BY <1>2, PipeAssumption
  <2> QED
    BY <2>1, <2>2, <2>3
<1> QED
  BY <1>3, <1>4, <1>5, <1>6, <1>7 DEF Next

LEMMA SoloCorrect ==
    ASSUME NEW r, Reactors = {r}, Accepted = Conns
    PROVE  Spec => [](TypeInv /\ SoloInv(r))
<1>1. Init => TypeInv /\ LockOwners /\ SoloInv(r)
  BY InitType, InitLocks, InitSolo
<1>2. TypeInv /\ LockOwners /\ SoloInv(r) /\ [Next]_vars => (TypeInv /\ LockOwners /\ SoloInv(r))'
  BY StepType, StepLocks, StepSolo DEF TypeInv
<1> QED
  BY <1>1, <1>2, PTL DEF Spec

\* A worker served by one reactor and no accepts: what waits in send_buffer is always
\* watched, although the test that arms the event and the one that removes it run
\* apart from the appends and trims (aeserver.c:131-139, 673).
THEOREM PendingIsWatchedSolo ==
    ASSUME NEW r, Reactors = {r}, Accepted = Conns
    PROVE  Spec => []PendingIsWatched
<1>1. SoloInv(r) => PendingIsWatched
  BY DEF SoloInv, PendingIsWatched, Threads
<1> QED
  BY <1>1, SoloCorrect, PTL

\* Such a worker's socketpair is never closed by an empty or failed write()
\* (aeserver.c:663).
THEOREM NeverClosedSolo ==
    ASSUME NEW r, Reactors = {r}, Accepted = Conns
    PROVE  Spec => []NeverClosed
<1>1. SoloInv(r) => NeverClosed
  BY DEF SoloInv, NeverClosed
<1> QED
  BY <1>1, SoloCorrect, PTL

-----------------------------------------------------------------------------
(* The frames that begin in a string.                                      *)

\* Induction over a set of natural numbers.
LEMMA SetInduction ==
    ASSUME NEW S \in SUBSET Nat, 0 \in S, \A n \in S : n + 1 \in S
    PROVE  S = Nat
<1> DEFINE R == OpToRel(LAMBDA i, j : i < j, Nat)
<1>1. IsWellFoundedOn(R, Nat)
  BY NatLessThanWellFounded
<1> SUFFICES ASSUME Nat \ S # {} PROVE FALSE
  OBVIOUS
<1>2. PICK n \in Nat \ S : \A m \in Nat \ S : ~(<<m, n>> \in R)
  <2>1. Nat \ S \subseteq Nat
    OBVIOUS
  <2> HIDE DEF R
  <2> QED
    BY <1>1, <2>1, WFMin
<1>3. n # 0 /\ n - 1 \in Nat /\ n - 1 < n
  OBVIOUS
<1>4. n - 1 \in S
  <2>1. n - 1 \notin S => <<n - 1, n>> \in R
    BY <1>3 DEF OpToRel
  <2> QED
    BY <1>2, <1>3, <2>1
<1>5. (n - 1) + 1 = n
  OBVIOUS
<1> QED
  BY <1>4, <1>5

Begun == Seq(Frame \cup {None})

\* What g has when the n-th unit of s has been looked at.
Looked(s, g, n) == IF s[n].pos = 1 THEN Append(g[n - 1], s[n].frame) ELSE g[n - 1]

\* g follows the definition of FramesOf over the first k units of s.
Follows(s, k, g) == g[0] = <<>> /\ \A n \in 1..k : g[n] = Looked(s, g, n)

LEMMA FollowsExists ==
    ASSUME NEW s \in Seq(Unit)
    PROVE  \A k \in 0..Len(s) : \E g \in [0..k -> Begun] : Follows(s, k, g)
<1> DEFINE S == {k \in Nat : k <= Len(s) => \E g \in [0..k -> Begun] : Follows(s, k, g)}
<1>1. 0 \in S
  <2> DEFINE g == [n \in 0..0 |-> <<>>]
  <2>1. g \in [0..0 -> Begun] /\ g[0] = <<>> /\ 1..0 = {}
    BY DEF Begun
  <2>2. Follows(s, 0, g)
    BY <2>1 DEF Follows
  <2> QED
    BY <2>1, <2>2
<1>2. ASSUME NEW k \in S PROVE k + 1 \in S
  <2> SUFFICES ASSUME k + 1 <= Len(s)
               PROVE  \E g \in [0..k + 1 -> Begun] : Follows(s, k + 1, g)
    OBVIOUS
  <2>0. k \in Nat /\ k <= Len(s) /\ k + 1 \in 1..Len(s)
    OBVIOUS
  <2>1. PICK h \in [0..k -> Begun] : Follows(s, k, h)
    BY <2>0
  <2>2. Looked(s, h, k + 1) \in Begun
    <3>1. s[k + 1] \in Unit /\ h[k] \in Begun /\ (k + 1) - 1 = k
      BY <2>0
    <3> QED
      BY <3>1 DEF Looked, Begun, Unit
  <2> DEFINE g == [n \in 0..k + 1 |-> IF n = k + 1 THEN Looked(s, h, k + 1) ELSE h[n]]
  <2>3. g \in [0..k + 1 -> Begun]
    <3>1. \A n \in 0..k + 1 : n # k + 1 => n \in 0..k
      BY <2>0
    <3> QED
      BY <2>2, <3>1
  <2>4. \A n \in 0..k : g[n] = h[n]
    BY <2>0
  <2>5. g[k + 1] = Looked(s, h, k + 1)
    BY <2>0
  <2> HIDE DEF g
  <2>6. \A n \in 1..k + 1 : Looked(s, g, n) = Looked(s, h, n)
    <3> SUFFICES ASSUME NEW n \in 1..k + 1 PROVE Looked(s, g, n) = Looked(s, h, n)
      OBVIOUS
    <3>1. n - 1 \in 0..k
      BY <2>0
    <3>2. g[n - 1] = h[n - 1]
      BY <2>4, <3>1
    <3> QED
      BY <3>2 DEF Looked
  <2>7. \A n \in 1..k + 1 : n = k + 1 \/ n \in 1..k
    BY <2>0
  <2>8. \A n \in 1..k : n \in 0..k
    OBVIOUS
  <2>9. \A n \in 1..k : g[n] = Looked(s, g, n)
    BY <2>1, <2>4, <2>6, <2>7, <2>8 DEF Follows
  <2>10. g[0] = <<>>
    BY <2>0, <2>1, <2>4 DEF Follows
  <2>11. \A n \in 1..k + 1 : g[n] = Looked(s, g, n)
    BY <2>5, <2>6, <2>7, <2>9
  <2> QED
    BY <2>3, <2>10, <2>11 DEF Follows
<1>3. S = Nat
  <2> HIDE DEF S
  <2>1. S \in SUBSET Nat
    BY DEF S
  <2> QED
    BY <1>1, <1>2, <2>1, SetInduction
<1> QED
  BY <1>3

Same(s, t, k) == \A i \in 1..k : s[i] = t[i]

\* Two strings that agree lead to the same.
LEMMA FollowsUnique ==
    ASSUME NEW s, NEW t, NEW k \in Nat, NEW g, NEW h, Follows(s, k, g), Follows(t, k, h),
           Same(s, t, k)
    PROVE  \A n \in 0..k : g[n] = h[n]
<1> DEFINE S == {n \in Nat : n <= k => g[n] = h[n]}
<1>1. 0 \in S
  BY DEF Follows
<1>2. ASSUME NEW n \in S PROVE n + 1 \in S
  <2> SUFFICES ASSUME n + 1 <= k PROVE g[n + 1] = h[n + 1]
    OBVIOUS
  <2>1. n + 1 \in 1..k /\ (n + 1) - 1 = n /\ g[n] = h[n]
    OBVIOUS
  <2> QED
    BY <2>1 DEF Follows, Looked, Same
<1>3. S = Nat
  <2> HIDE DEF S
  <2>1. S \in SUBSET Nat
    BY DEF S
  <2> QED
    BY <1>1, <1>2, <2>1, SetInduction
<1> QED
  BY <1>3

\* FramesOf is what its definition says.
LEMMA FramesOfFollows ==
    ASSUME NEW s \in Seq(Unit)
    PROVE  \E g \in [0..Len(s) -> Begun] : Follows(s, Len(s), g) /\ FramesOf(s) = g[Len(s)]
<1> DEFINE Right(f) == f = [n \in 0..Len(s) |-> IF n = 0 THEN <<>>
                               ELSE IF s[n].pos = 1 THEN Append(f[n - 1], s[n].frame) ELSE f[n - 1]]
           f == CHOOSE g : Right(g)
<1>1. PICK h \in [0..Len(s) -> Begun] : Follows(s, Len(s), h)
  BY FollowsExists
<1>2. Right(h)
  <2>1. Len(s) \in Nat /\ \A n \in 0..Len(s) : n = 0 \/ n \in 1..Len(s)
    OBVIOUS
  <2>2. \A n \in 0..Len(s) : h[n] = IF n = 0 THEN <<>>
                               ELSE IF s[n].pos = 1 THEN Append(h[n - 1], s[n].frame) ELSE h[n - 1]
    BY <1>1, <2>1 DEF Follows, Looked
  <2> QED
    BY <2>2
<1>3. Right(f)
  <2> HIDE DEF Right
  <2> QED
    BY <1>2
<1>4. Follows(s, Len(s), f)
  <2>1. 0 \in 0..Len(s) /\ \A n \in 1..Len(s) : n \in 0..Len(s) /\ n # 0
    OBVIOUS
  <2> HIDE DEF f
  <2> QED
    BY <1>3, <2>1 DEF Follows, Looked
<1>5. FramesOf(s) = f[Len(s)]
  BY DEF FramesOf
<1>6. f[Len(s)] = h[Len(s)]
  <2> HIDE DEF f
  <2>1. Len(s) \in Nat /\ Len(s) \in 0..Len(s) /\ Same(s, s, Len(s))
    BY DEF Same
  <2> QED
    BY <1>1, <1>4, <2>1, FollowsUnique
<1> QED
  BY <1>1, <1>5, <1>6

\* What begins in a string begins first in every longer one.
LEMMA FramesPrefix ==
    ASSUME NEW s \in Seq(Unit), NEW u \in Seq(Unit)
    PROVE  LET p == FramesOf(s)
               q == FramesOf(s \o u)
           IN p \in Begun /\ q \in Begun /\ Len(p) <= Len(q) /\ \A i \in 1..Len(p) : q[i] = p[i]
<1> DEFINE t == s \o u
           l == Len(s)
           p == FramesOf(s)
<1>1. t \in Seq(Unit) /\ Len(t) = l + Len(u) /\ \A i \in 1..l : t[i] = s[i]
  BY ConcatProperties
<1>2. l \in Nat /\ Len(u) \in Nat
  OBVIOUS
<1>3. PICK g \in [0..l -> Begun] : Follows(s, l, g) /\ p = g[l]
  BY FramesOfFollows
<1> HIDE DEF t
<1>4. PICK h \in [0..Len(t) -> Begun] : Follows(t, Len(t), h) /\ FramesOf(t) = h[Len(t)]
  BY <1>1, FramesOfFollows
<1>5. Follows(t, l, h)
  <2>1. \A n \in 1..l : n \in 1..Len(t)
    BY <1>1, <1>2
  <2> QED
    BY <1>4, <2>1 DEF Follows
<1>6. p \in Begun /\ h[l] = p
  <2>1. \A n \in 0..l : g[n] = h[n]
    <3>1. Same(s, t, l)
      BY <1>1 DEF Same
    <3>2. l \in Nat /\ Follows(s, l, g)
      BY <1>2, <1>3
    <3>3. Follows(t, l, h)
      BY <1>5
    <3> HIDE DEF l
    <3> QED
      BY <3>1, <3>2, <3>3, FollowsUnique
  <2> QED
    BY <1>2, <1>3, <2>1
<1> DEFINE Longer(q) == Len(p) <= Len(q) /\ \A i \in 1..Len(p) : q[i] = p[i]
           S == {n \in Nat : l + n <= Len(t) => Longer(h[l + n])}
<1> HIDE DEF p
<1>7. 0 \in S
  <2>1. l + 0 = l /\ Len(p) \in Nat
    BY <1>2, <1>6 DEF Begun
  <2> QED
    BY <1>6, <2>1
<1>8. ASSUME NEW n \in S PROVE n + 1 \in S
  <2> SUFFICES ASSUME l + (n + 1) <= Len(t) PROVE Longer(h[l + (n + 1)])
    OBVIOUS
  <2> DEFINE m == l + (n + 1)
             q == h[l + n]
  <2>1. /\ n \in Nat /\ l + n <= Len(t) /\ m \in 1..Len(t) /\ m - 1 = l + n /\ l + n \in 0..Len(t)
    BY <1>1, <1>2
  <2>2. Longer(q)
    BY <2>1
  <2>3. q \in Begun
    BY <1>4, <2>1
  <2>4. h[m] = IF t[m].pos = 1 THEN Append(q, t[m].frame) ELSE q
    <3> HIDE DEF m
    <3> QED
      BY <1>4, <2>1 DEF Follows, Looked
  <2>5. t[m].frame \in Frame \cup {None}
    <3>1. t[m] \in Unit
      <4> HIDE DEF m
      <4> QED
        BY <1>1, <2>1
    <3> HIDE DEF m
    <3> QED
      BY <3>1 DEF Unit
  <2>6. Len(p) \in Nat
    BY <1>6 DEF Begun
  <2>7. Longer(Append(q, t[m].frame))
    <3> DEFINE x == t[m].frame
    <3>1. x \in Frame \cup {None} /\ q \in Seq(Frame \cup {None})
      BY <2>3, <2>5 DEF Begun
    <3> HIDE DEF x, q
    <3>2. Len(Append(q, x)) = Len(q) + 1 /\ \A i \in 1..Len(q) : Append(q, x)[i] = q[i]
      BY <3>1, AppendProperties
    <3> QED
      BY <2>2, <2>6, <3>1, <3>2 DEF x
  <2> HIDE DEF m, q
  <2>8. Longer(h[m])
    BY <2>2, <2>4, <2>7
  <2> QED
    BY <2>8 DEF m
<1>9. S = Nat
  <2> HIDE DEF S
  <2>1. S \in SUBSET Nat
    BY DEF S
  <2> QED
    BY <1>7, <1>8, <2>1, SetInduction
<1>10. Longer(h[Len(t)])
  <2>1. Len(u) \in S /\ l + Len(u) = Len(t)
    BY <1>1, <1>2, <1>9
  <2> QED
    BY <1>1, <1>2, <2>1
<1>11. FramesOf(t) \in Begun
  <2>1. Len(t) \in 0..Len(t)
    BY <1>1
  <2> QED
    BY <1>4, <2>1
<1> QED
  BY <1>4, <1>6, <1>10, <1>11 DEF p, t

\* A unit that begins no frame adds none; one that does adds its frame.
LEMMA FramesUnit ==
    ASSUME NEW s \in Seq(Unit), NEW n \in 1..Len(s)
    PROVE  FramesOf(Take(s, n)) = IF s[n].pos = 1 THEN Append(FramesOf(Take(s, n - 1)), s[n].frame)
                                  ELSE FramesOf(Take(s, n - 1))
<1> DEFINE a == Take(s, n)
           b == Take(s, n - 1)
<1>1. a \in Seq(Unit) /\ Len(a) = n /\ \A i \in 1..n : a[i] = s[i]
  BY TakeDrop, TakeElements
<1>2. b \in Seq(Unit) /\ Len(b) = n - 1 /\ \A i \in 1..n - 1 : b[i] = s[i]
  <2> DEFINE m == n - 1
  <2>1. m \in 0..Len(s)
    OBVIOUS
  <2> HIDE DEF m
  <2>2. Take(s, m) \in Seq(Unit) /\ Len(Take(s, m)) = m /\ \A i \in 1..m : Take(s, m)[i] = s[i]
    BY <2>1, TakeDrop, TakeElements
  <2> QED
    BY <2>2 DEF m
<1> HIDE DEF a, b
<1>3. PICK g \in [0..n -> Begun] : Follows(a, n, g) /\ FramesOf(a) = g[n]
  BY <1>1, FramesOfFollows
<1>4. PICK h \in [0..n - 1 -> Begun] : Follows(b, n - 1, h) /\ FramesOf(b) = h[n - 1]
  BY <1>2, FramesOfFollows
<1>5. n \in Nat /\ n - 1 \in Nat /\ n \in 1..n
  OBVIOUS
<1>6. g[n] = IF s[n].pos = 1 THEN Append(g[n - 1], s[n].frame) ELSE g[n - 1]
  BY <1>1, <1>3, <1>5 DEF Follows, Looked
<1>7. g[n - 1] = h[n - 1]
  <2> DEFINE m == n - 1
  <2>1. m \in Nat /\ \A i \in 1..m : i \in 1..n
    BY <1>5
  <2>2. Follows(a, m, g)
    BY <1>3, <2>1 DEF Follows
  <2>3. Same(a, b, m)
    BY <1>1, <1>2, <2>1 DEF Same
  <2>4. Follows(b, m, h)
    BY <1>4
  <2> HIDE DEF m
  <2>5. \A i \in 0..m : g[i] = h[i]
    BY <2>1, <2>2, <2>3, <2>4, FollowsUnique
  <2>6. g[m] = h[m]
    BY <2>1, <2>5
  <2> QED
    BY <2>6 DEF m
<1> QED
  BY <1>3, <1>4, <1>6, <1>7 DEF a, b

\* Units that begin no frame add none.
LEMMA FramesSame ==
    ASSUME NEW s \in Seq(Unit), NEW k \in 0..Len(s), \A i \in k + 1..Len(s) : s[i].pos # 1
    PROVE  FramesOf(s) = FramesOf(Take(s, k))
<1> DEFINE S == {n \in Nat : k + n <= Len(s) => FramesOf(Take(s, k + n)) = FramesOf(Take(s, k))}
<1>0. k \in Nat /\ Len(s) \in Nat
  OBVIOUS
<1>1. 0 \in S
  <2>1. k + 0 = k
    BY <1>0
  <2> QED
    BY <2>1
<1>2. ASSUME NEW n \in S PROVE n + 1 \in S
  <2> SUFFICES ASSUME k + (n + 1) <= Len(s)
               PROVE  FramesOf(Take(s, k + (n + 1))) = FramesOf(Take(s, k))
    OBVIOUS
  <2> DEFINE m == k + (n + 1)
  <2>1. m \in 1..Len(s) /\ m \in k + 1..Len(s) /\ m - 1 = k + n /\ k + n <= Len(s)
    BY <1>0
  <2>2. FramesOf(Take(s, k + n)) = FramesOf(Take(s, k))
    BY <2>1
  <2> HIDE DEF m
  <2>3. FramesOf(Take(s, m)) = FramesOf(Take(s, m - 1))
    BY <2>1, FramesUnit
  <2> QED
    BY <2>1, <2>2, <2>3 DEF m
<1>3. S = Nat
  <2> HIDE DEF S
  <2>1. S \in SUBSET Nat
    BY DEF S
  <2> QED
    BY <1>1, <1>2, <2>1, SetInduction
<1>4. FramesOf(Take(s, Len(s))) = FramesOf(Take(s, k))
  <2> DEFINE n == Len(s) - k
  <2>1. n \in Nat /\ k + n = Len(s)
    BY <1>0
  <2> HIDE DEF n
  <2>2. n \in S
    BY <1>3, <2>1
  <2> QED
    BY <1>0, <2>1, <2>2
<1>5. Take(s, Len(s)) = s
  BY DEF Take
<1> QED
  BY <1>4, <1>5

\* The beginning of a frame adds it, however much of it there is.
LEMMA FramesAppend ==
    ASSUME NEW s \in Seq(Unit), NEW u \in Seq(Unit), NEW f, u # <<>>, u[1] = [frame |-> f, pos |-> 1],
           \A i \in 2..Len(u) : u[i].pos # 1
    PROVE  FramesOf(s \o u) = Append(FramesOf(s), f)
<1> DEFINE t == s \o u
           k == Len(s) + 1
<1>1. /\ t \in Seq(Unit) /\ Len(t) = Len(s) + Len(u) /\ \A i \in 1..Len(s) : t[i] = s[i]
      /\ \A i \in 1..Len(u) : t[Len(s) + i] = u[i]
  BY ConcatProperties
<1>2. Len(u) \in Nat \ {0} /\ Len(s) \in Nat
  BY EmptySeq
<1>3. k \in 1..Len(t) /\ t[k] = u[1] /\ k - 1 = Len(s)
  BY <1>1, <1>2
<1>4. \A i \in k + 1..Len(t) : t[i].pos # 1
  <2> SUFFICES ASSUME NEW i \in k + 1..Len(t) PROVE t[i].pos # 1
    OBVIOUS
  <2> DEFINE j == i - Len(s)
  <2>1. j \in 2..Len(u) /\ j \in 1..Len(u) /\ Len(s) + j = i
    BY <1>1, <1>2
  <2> HIDE DEF j
  <2> QED
    BY <1>1, <2>1
<1>5. Take(t, Len(s)) = s
  <2> DEFINE w == Take(t, Len(s))
  <2>1. Len(s) \in 0..Len(t)
    BY <1>1, <1>2
  <2> HIDE DEF t
  <2>2. w \in Seq(Unit) /\ Len(w) = Len(s) /\ \A i \in 1..Len(s) : w[i] = t[i]
    BY <1>1, <2>1, TakeDrop, TakeElements
  <2> HIDE DEF w
  <2>3. w = s
    BY <1>1, <2>2, SameUnits
  <2> QED
    BY <2>3 DEF w
<1> HIDE DEF t, k
<1>6. FramesOf(t) = FramesOf(Take(t, k))
  <2>1. k \in 0..Len(t)
    BY <1>3
  <2> QED
    BY <1>1, <1>4, <2>1, FramesSame
<1>7. FramesOf(Take(t, k)) = Append(FramesOf(Take(t, k - 1)), f)
  <2>1. t[k].pos = 1 /\ t[k].frame = f
    BY <1>3
  <2> QED
    BY <1>1, <1>3, <2>1, FramesUnit
<1> QED
  BY <1>3, <1>5, <1>6, <1>7 DEF t

LEMMA FramesQuiet ==
    ASSUME NEW s \in Seq(Unit), NEW u \in Seq(Unit), \A i \in 1..Len(u) : u[i].pos # 1
    PROVE  FramesOf(s \o u) = FramesOf(s)
<1> DEFINE t == s \o u
           k == Len(s)
<1>1. /\ t \in Seq(Unit) /\ Len(t) = k + Len(u) /\ \A i \in 1..k : t[i] = s[i]
      /\ \A i \in 1..Len(u) : t[k + i] = u[i]
  BY ConcatProperties
<1>2. Len(u) \in Nat /\ k \in Nat
  OBVIOUS
<1> HIDE DEF t
<1>3. k \in 0..Len(t)
  BY <1>1, <1>2
<1>4. \A i \in k + 1..Len(t) : t[i].pos # 1
  <2> SUFFICES ASSUME NEW i \in k + 1..Len(t) PROVE t[i].pos # 1
    OBVIOUS
  <2> DEFINE j == i - k
  <2>1. j \in 1..Len(u) /\ k + j = i
    BY <1>1, <1>2
  <2> HIDE DEF j, k
  <2> QED
    BY <1>1, <2>1
<1>5. Take(t, k) = s
  <2> DEFINE w == Take(t, k)
  <2>1. w \in Seq(Unit) /\ Len(w) = k /\ \A i \in 1..k : w[i] = t[i]
    BY <1>1, <1>3, TakeDrop, TakeElements
  <2> HIDE DEF w
  <2>2. w = s
    BY <1>1, <2>1, SameUnits
  <2> QED
    BY <2>2 DEF w
<1> HIDE DEF k
<1>6. FramesOf(t) = FramesOf(Take(t, k))
  BY <1>1, <1>3, <1>4, FramesSame
<1> QED
  BY <1>5, <1>6 DEF t

LEMMA FramesOfNothing == FramesOf(<<>>) = <<>>
<1>1. <<>> \in Seq(Unit) /\ Len(<<>>) = 0
  OBVIOUS
<1> DEFINE e == <<>>
<1>2. e \in Seq(Unit) /\ Len(e) = 0
  BY <1>1
<1> HIDE DEF e
<1>3. PICK g \in [0..Len(e) -> Begun] : Follows(e, Len(e), g) /\ FramesOf(e) = g[Len(e)]
  BY <1>2, FramesOfFollows
<1>4. FramesOf(e) = <<>>
  BY <1>2, <1>3 DEF Follows
<1> QED
  BY <1>4 DEF e

-----------------------------------------------------------------------------
(* The request path is a stream of events.                                 *)

\* While the boundaries hold, the callbacks got exactly the frames that begin in what the
\* worker has read, each whole, but for the one it is to read the body of.
StreamRight ==
    ~(raced \/ cut) =>
      FramesOf(consumed) = IF wpc = "body" THEN Append(Handed, whdr) ELSE Handed

LEMMA HandedType == TypeInv => Handed \in Begun /\ Len(Handed) = Len(delivered)
<1> SUFFICES ASSUME TypeInv PROVE Handed \in Begun /\ Len(Handed) = Len(delivered)
  OBVIOUS
<1>1. delivered \in Seq([frame : Frame \cup {None}, got : Nat])
  BY DEF TypeInv, TypeOK
<1>2. \A i \in 1..Len(delivered) : Whole(delivered[i]) \in Frame \cup {None}
  <2> SUFFICES ASSUME NEW i \in 1..Len(delivered) PROVE Whole(delivered[i]) \in Frame \cup {None}
    OBVIOUS
  <2> DEFINE e == delivered[i]
           D == [frame : Frame \cup {None}, got : Nat]
  <2>1. e \in D
    <3>1. delivered \in Seq(D)
      BY <1>1
    <3> HIDE DEF D
    <3> QED
      BY <3>1
  <2> HIDE DEF e
  <2>2. Whole(e) \in Frame \cup {None}
    BY <2>1 DEF Whole
  <2> QED
    BY <2>2 DEF e
<1> QED
  BY <1>1, <1>2 DEF Handed, Begun

\* A callback that got all of its frame hands it over.
LEMMA HandedAppend ==
    ASSUME TypeInv, NEW f \in Frame, NEW n \in Nat, n = FrameLen(f) - HdrLen, Deliver(f, n)
    PROVE  Handed' = Append(Handed, f)
<1> DEFINE e == [frame |-> f, got |-> n]
           D == [frame : Frame \cup {None}, got : Nat]
           l == Len(delivered)
<1>1. delivered \in Seq(D) /\ e \in D /\ delivered' = Append(delivered, e)
  BY DEF TypeInv, TypeOK, Deliver
<1>2. Whole(e) = f
  BY NoneAssumption DEF Whole
<1> HIDE DEF e, D
<1>3. l \in Nat /\ Len(delivered') = l + 1 /\ delivered'[l + 1] = e
      /\ \A i \in 1..l : delivered'[i] = delivered[i]
  BY <1>1
<1>4. Handed \in Begun /\ Len(Handed) = l /\ \A i \in 1..l : Handed[i] = Whole(delivered[i])
  BY HandedType DEF Handed
<1> DEFINE a == Handed'
           b == Append(Handed, f)
<1>5. b \in Begun /\ Len(b) = l + 1 /\ b[l + 1] = f /\ \A i \in 1..l : b[i] = Handed[i]
  <2> HIDE DEF l
  <2>1. Handed \in Seq(Frame \cup {None}) /\ f \in Frame \cup {None}
    BY <1>4 DEF Begun
  <2> QED
    BY <1>4, <2>1, AppendProperties DEF Begun
<1>6. a = [i \in 1..l + 1 |-> Whole(delivered'[i])]
  BY <1>3 DEF Handed
<1>7. \A i \in 1..l + 1 : a[i] = b[i]
  <2> SUFFICES ASSUME NEW i \in 1..l + 1 PROVE a[i] = b[i]
    OBVIOUS
  <2>1. a[i] = Whole(delivered'[i])
    BY <1>6
  <2> HIDE DEF a, b
  <2>2. CASE i = l + 1
    BY <1>2, <1>3, <1>5, <2>1, <2>2
  <2>3. CASE i # l + 1
    <3>1. i \in 1..l
      BY <1>3, <2>3
    <3> QED
      BY <1>3, <1>4, <1>5, <2>1, <3>1
  <2> QED
    BY <2>2, <2>3
<1>8. a \in Begun /\ Len(a) = l + 1
  <2>1. \A i \in 1..l + 1 : b[i] \in Frame \cup {None}
    BY <1>5 DEF Begun
  <2> HIDE DEF b, l
  <2> QED
    BY <1>3, <1>6, <1>7, <2>1 DEF Begun
<1>9. a = b
  <2> HIDE DEF a, b, l
  <2> QED
    BY <1>5, <1>7, <1>8, SameUnits DEF Begun
<1> QED
  BY <1>9

\* What a read() adds to what was read.
LEMMA ConsumeFrames ==
    ASSUME TypeInv, NEW k \in 1..Len(pipe), Consume(k)
    PROVE  LET u == Take(pipe, k)
           IN /\ u \in Seq(Unit) /\ Len(u) = k /\ (\A i \in 1..k : u[i] = pipe[i])
              /\ consumed \in Seq(Unit) /\ consumed' = consumed \o u
<1>1. pipe \in Seq(Unit) /\ consumed \in Seq(Unit) /\ k \in 0..Len(pipe)
  BY DEF TypeInv, TypeOK
<1> QED
  BY <1>1, TakeDrop, TakeElements DEF Consume

\* The reads of a header and of a body.
LEMMA HeaderStream ==
    ASSUME TypeInv, StreamInv, FrameInv, StreamRight, ReadHeader, ~(raced \/ cut)
    PROVE  /\ StreamRight'
           /\ \/ Handed' = Handed
              \/ Handed' = FramesOf(consumed') /\ \E f \in Frame : Handed' = Append(Handed, f)
<1> DEFINE n == Len(consumed)
           f == log[n + 1].frame
           u == Take(pipe, HdrLen)
<1>1. /\ f \in Frame /\ n + FrameLen(f) <= n + Len(pipe)
      /\ \A j \in 1..FrameLen(f) : log[n + j] = [frame |-> f, pos |-> j]
      /\ HeaderOf(Take(pipe, Least(HdrLen, Len(pipe)))) = f
  BY HeaderHere DEF ReadHeader
<1>2. /\ FrameLen(f) \in Nat \ {0} /\ FrameLen(f) >= HdrLen /\ HdrLen \in Nat \ {0}
      /\ n \in Nat /\ Len(pipe) \in Nat
  BY <1>1, FrameLenType, SizesAssumption DEF TypeInv, TypeOK
<1>3. HdrLen \in 1..Len(pipe)
  BY <1>1, <1>2
<1>4. /\ u \in Seq(Unit) /\ Len(u) = HdrLen /\ (\A i \in 1..HdrLen : u[i] = pipe[i])
      /\ consumed \in Seq(Unit) /\ consumed' = consumed \o u
  BY <1>3, ConsumeFrames DEF ReadHeader
<1>5. \A i \in 1..HdrLen : u[i] = [frame |-> f, pos |-> i]
  <2>1. \A i \in 1..Len(pipe) : log[n + i] = pipe[i]
    BY StreamAt
  <2>2. \A i \in 1..HdrLen : i \in 1..Len(pipe) /\ i \in 1..FrameLen(f)
    BY <1>2, <1>3
  <2> HIDE DEF f, u
  <2> QED
    BY <1>1, <1>4, <2>1, <2>2
<1> HIDE DEF f, u
<1>6. FramesOf(consumed') = Append(FramesOf(consumed), f)
  <2>1. u # <<>> /\ u[1] = [frame |-> f, pos |-> 1]
    BY <1>2, <1>4, <1>5
  <2>2. ASSUME NEW i \in 2..Len(u) PROVE u[i].pos # 1
    <3>1. i \in 1..HdrLen /\ i # 1
      BY <1>2, <1>4
    <3>2. u[i] = [frame |-> f, pos |-> i]
      BY <1>5, <3>1
    <3> QED
      BY <3>1, <3>2
  <2> QED
    BY <1>4, <2>1, <2>2, FramesAppend
<1>7. FramesOf(consumed') = Append(Handed, f)
  BY <1>6 DEF StreamRight, ReadHeader
<1>8. CASE f.type = "message"
  <2>1. wpc' = "body" /\ whdr' = f /\ delivered' = delivered
    BY <1>1, <1>8 DEF ReadHeader
  <2>2. Handed' = Handed
    BY <2>1 DEF Handed
  <2> QED
    BY <1>7, <2>1, <2>2 DEF StreamRight
<1>9. CASE f.type # "message"
  <2>1. wpc' # "body" /\ Deliver(f, 0)
    BY <1>1, <1>9 DEF ReadHeader
  <2>2. 0 = FrameLen(f) - HdrLen /\ 0 \in Nat
    BY <1>2, <1>9 DEF FrameLen
  <2>3. Handed' = Append(Handed, f)
    BY <1>1, <2>1, <2>2, HandedAppend
  <2> QED
    BY <1>1, <1>7, <2>1, <2>3 DEF StreamRight
<1> QED
  BY <1>8, <1>9

LEMMA BodyStream ==
    ASSUME TypeInv, StreamInv, FrameInv, StreamRight, ReadBody, ~(raced \/ cut)
    PROVE  /\ StreamRight'
           /\ Handed' = FramesOf(consumed') /\ \E f \in Frame : Handed' = Append(Handed, f)
<1> DEFINE k == Least(BodyLen, Len(pipe))
           u == Take(pipe, BodyLen)
<1>1. /\ BodyLen <= Len(pipe)
      /\ \A j \in 1..BodyLen : pipe[j] = [frame |-> whdr, pos |-> HdrLen + j]
      /\ FrameLen(whdr) = HdrLen + BodyLen
  BY BodyHere DEF ReadBody
<1>2. whdr \in Frame /\ Len(pipe) \in Nat
  BY DEF ReadBody, TypeInv, TypeOK, FramesInHand
<1>3. k = BodyLen /\ BodyLen \in Nat \ {0} /\ HdrLen \in Nat \ {0} /\ BodyLen \in 1..Len(pipe)
  BY <1>1, <1>2, SizesAssumption DEF Least
<1>4. /\ u \in Seq(Unit) /\ Len(u) = BodyLen /\ (\A i \in 1..BodyLen : u[i] = pipe[i])
      /\ consumed \in Seq(Unit) /\ consumed' = consumed \o u
  BY <1>3, ConsumeFrames DEF ReadBody
<1>5. \A i \in 1..Len(u) : u[i].pos # 1
  <2> HIDE DEF u
  <2>1. \A i \in 1..BodyLen : u[i].pos = HdrLen + i
    <3> SUFFICES ASSUME NEW i \in 1..BodyLen PROVE u[i].pos = HdrLen + i
      OBVIOUS
    <3>1. u[i] = [frame |-> whdr, pos |-> HdrLen + i]
      BY <1>1, <1>4
    <3> QED
      BY <3>1
  <2> QED
    BY <1>3, <1>4, <2>1
<1> HIDE DEF u
<1>6. FramesOf(consumed') = FramesOf(consumed)
  BY <1>4, <1>5, FramesQuiet
<1>7. wpc = "body" /\ wpc' = "header" /\ Deliver(whdr, BodyLen)
  BY <1>3 DEF ReadBody
<1>8. BodyLen = FrameLen(whdr) - HdrLen /\ BodyLen \in Nat
  BY <1>1, <1>3
<1>9. Handed' = Append(Handed, whdr)
  BY <1>2, <1>7, <1>8, HandedAppend
<1>10. FramesOf(consumed') = Append(Handed, whdr)
  BY <1>6, <1>7 DEF StreamRight
<1> QED
  BY <1>2, <1>7, <1>9, <1>10 DEF StreamRight

LEMMA InitStreamRight == Init => StreamRight /\ Stream!Init
<1> SUFFICES ASSUME Init PROVE StreamRight /\ Stream!Init
  OBVIOUS
<1>1. consumed = <<>> /\ log = <<>> /\ delivered = <<>> /\ wpc # "body"
  BY DEF Init
<1>2. Handed = <<>>
  <2>1. Handed \in Begun /\ Len(Handed) = 0
    BY <1>1, InitType, HandedType
  <2> QED
    BY <2>1, EmptySeq DEF Begun
<1> QED
  BY <1>1, <1>2, FramesOfNothing DEF StreamRight, Stream!Init

\* A step that neither posts nor reads.
LEMMA QuietStep ==
    ASSUME StreamRight, raced => raced', UNCHANGED <<log, consumed, wpc, whdr, delivered>>, cut => cut'
    PROVE  StreamRight' /\ UNCHANGED Stream!svars
<1>1. Handed' = Handed
  BY DEF Handed
<1> QED
  BY <1>1 DEF StreamRight, Stream!svars

\* A read that completes a frame delivers the next one that was posted.
LEMMA ReadDelivers ==
    ASSUME TypeInv, TypeInv', StreamInv', ~raced', log' = log, Handed' = FramesOf(consumed'),
           NEW f \in Frame, Handed' = Append(Handed, f)
    PROVE  Stream!Deliver
<1> DEFINE rest == pipe' \o Unsent'
           p == FramesOf(consumed')
           q == FramesOf(log)
           l == Len(Handed)
<1>1. consumed' \in Seq(Unit) /\ rest \in Seq(Unit) /\ log = consumed' \o rest
  <2>1. consumed' \in Seq(Unit) /\ pipe' \in Seq(Unit) /\ log' = (consumed' \o pipe') \o Unsent'
    BY DEF TypeInv, TypeOK, StreamInv
  <2>2. Unsent' \in Seq(Unit)
    <3>1. buf' \in Seq(Unit) /\ (rlock' # None => nwritten'[rlock'] \in Nat)
      BY DEF TypeInv, TypeOK
    <3> QED
      BY <3>1, DropType DEF Unsent
  <2> QED
    BY <2>1, <2>2, UnitsAssociative
<1>2. p \in Begun /\ q \in Begun /\ Len(p) <= Len(q) /\ \A i \in 1..Len(p) : q[i] = p[i]
  <2> HIDE DEF rest
  <2> QED
    BY <1>1, FramesPrefix
<1>3. Handed \in Seq(Frame \cup {None}) /\ l \in Nat
  BY HandedType DEF Begun
<1>4. p = Append(Handed, f) /\ Len(p) = l + 1 /\ p[l + 1] = f /\ l + 1 \in 1..Len(p)
  <2>1. p = Append(Handed, f)
    OBVIOUS
  <2> HIDE DEF p
  <2> QED
    BY <1>3, <2>1, AppendProperties
<1> HIDE DEF p, q, l
<1>5. l < Len(q) /\ q[l + 1] = f
  BY <1>2, <1>3, <1>4 DEF Begun
<1>6. Len(Handed) < Len(FramesOf(log)) /\ Handed' = Append(Handed, FramesOf(log)[Len(Handed) + 1])
  BY <1>5 DEF q, l
<1> QED
  BY <1>6 DEF Stream!Deliver

LEMMA NoGarbage ==
    ASSUME TypeInv, StreamInv, FrameInv, ~(raced \/ cut)
    PROVE  ~ReadGarbage
<1> SUFFICES ASSUME ReadGarbage PROVE FALSE
  OBVIOUS
<1> DEFINE f == log[Len(consumed) + 1].frame
<1>1. f \in Frame /\ HeaderOf(Take(pipe, Least(HdrLen, Len(pipe)))) = f
  BY HeaderHere DEF ReadGarbage
<1> QED
  BY <1>1, NoneAssumption DEF ReadGarbage

\* Appending a frame to send_buffer posts it.
LEMMA AppendPosts ==
    ASSUME TypeInv, NEW t \in Threads, StoreAppend(t)
    PROVE  Stream!Post
<1> DEFINE f == cur[t]
           u == Units(f)
<1>1. f \in Frame /\ log \in Seq(Unit)
  BY DEF StoreAppend, TypeInv, TypeOK, FramesInHand
<1>2. u \in Seq(Unit) /\ log' = log \o u
  BY <1>1, UnitsType DEF StoreAppend
<1>3. FrameLen(f) \in Nat \ {0}
  BY <1>1, FrameLenType
<1>4. Len(u) = FrameLen(f) /\ \A i \in 1..Len(u) : u[i] = [frame |-> f, pos |-> i]
  BY <1>3 DEF Units
<1> HIDE DEF f, u
<1>5. u # <<>> /\ u[1] = [frame |-> f, pos |-> 1] /\ \A i \in 2..Len(u) : u[i].pos # 1
  <2>1. 1 \in 1..Len(u) /\ \A i \in 2..Len(u) : i \in 1..Len(u) /\ i # 1
    BY <1>3, <1>4
  <2>2. u[1] = [frame |-> f, pos |-> 1] /\ u # <<>>
    BY <1>2, <1>3, <1>4, <2>1, EmptySeq
  <2>3. ASSUME NEW i \in 2..Len(u) PROVE u[i].pos # 1
    <3>1. u[i] = [frame |-> f, pos |-> i] /\ i # 1
      BY <1>4, <2>1
    <3> QED
      BY <3>1
  <2> QED
    BY <2>2, <2>3
<1>6. FramesOf(log') = Append(FramesOf(log), f)
  BY <1>1, <1>2, <1>5, FramesAppend
<1>7. Handed' = Handed
  BY DEF Handed, StoreAppend, worker
<1> QED
  BY <1>1, <1>6, <1>7 DEF Stream!Post

LEMMA StepStreamRight ==
    ASSUME RequestInv, RequestInv', StreamRight, [Next]_vars
    PROVE  StreamRight' /\ (raced' \/ cut' \/ [Stream!Next]_(Stream!svars))
<1> USE DEF master, buffer, locks, events, worker, RequestInv
<1>1. CASE UNCHANGED vars
  BY <1>1, QuietStep DEF vars
<1>2. CASE Client
  BY <1>2, QuietStep DEF Client, Accept, ClientData, ClientGone, StartPost
<1>3. ASSUME NEW t \in Threads, Post(t)
      PROVE  StreamRight' /\ (raced' \/ cut' \/ [Stream!Next]_(Stream!svars))
  <2>1. CASE CheckEmpty(t) \/ ArmKernel(t) \/ ArmMask(t) \/ LockAppend(t)
    BY <2>1, QuietStep DEF CheckEmpty, ArmKernel, ArmMask, LockAppend
  <2>2. CASE StoreAppend(t)
    <3>1. Stream!Post
      BY <2>2, AppendPosts
    <3>2. /\ UNCHANGED <<consumed, wpc, whdr, delivered, cut>> /\ (raced => raced')
      BY <2>2 DEF StoreAppend
    <3>3. StreamRight'
      BY <3>2 DEF StreamRight, Handed
    <3> QED
      BY <3>1, <3>3 DEF Stream!Next
  <2> QED
    BY <1>3, <2>1, <2>2 DEF Post
<1>4. ASSUME NEW r \in Reactors, Drain(r)
      PROVE  StreamRight' /\ (raced' \/ cut' \/ [Stream!Next]_(Stream!svars))
  <2>1. CASE Dispatch(r) \/ LockWriteNothing(r) \/ StartTrim(r)
             \/ TestEmpty(r) \/ DisarmKernel(r) \/ DisarmMask(r)
    BY <2>1, QuietStep
       DEF Dispatch, LockWriteNothing, StartTrim, TestEmpty, DisarmKernel, DisarmMask
  <2>2. CASE FinishTrim(r) \/ LockWrite(r)
    <3>1. FinishTrim(r) => (raced => raced') /\ UNCHANGED <<log, consumed, wpc, whdr, delivered, cut>>
      BY DEF FinishTrim
    <3>2. LockWrite(r) => /\ (raced => raced') /\ (cut => cut')
                          /\ UNCHANGED <<log, consumed, wpc, whdr, delivered>>
      BY DEF LockWrite
    <3>3. /\ (raced => raced') /\ (cut => cut')
          /\ UNCHANGED <<log, consumed, wpc, whdr, delivered>>
      BY <2>2, <3>1, <3>2
    <3> QED
      BY <3>3, QuietStep
  <2> QED
    BY <1>4, <2>1, <2>2 DEF Drain
<1>5. CASE WorkerStep
  <2>1. CASE ReadEof
    <3>1. wpc # "body" /\ wpc' # "body" /\ UNCHANGED <<log, consumed, delivered, raced, cut>>
      BY <2>1 DEF ReadEof
    <3>2. Handed' = Handed
      BY <3>1 DEF Handed
    <3> QED
      BY <3>1, <3>2 DEF StreamRight, Stream!svars
  <2> SUFFICES ASSUME ReadHeader \/ ReadGarbage \/ ReadBody
               PROVE  StreamRight' /\ (raced' \/ cut' \/ [Stream!Next]_(Stream!svars))
    BY <1>5, <2>1 DEF WorkerStep
  <2>2. UNCHANGED <<log, raced, cut>>
    BY DEF ReadHeader, ReadGarbage, ReadBody, Consume
  <2>7. ASSUME raced \/ cut PROVE (raced' \/ cut') /\ StreamRight'
    <3>1. raced' \/ cut'
      BY <2>2, <2>7
    <3> QED
      BY <3>1 DEF StreamRight
  <2> SUFFICES ASSUME ~(raced \/ cut)
               PROVE  StreamRight' /\ [Stream!Next]_(Stream!svars)
    BY <2>7
  <2>3. ~ReadGarbage
    BY NoGarbage
  <2>4. /\ StreamRight'
        /\ \/ Handed' = Handed
           \/ Handed' = FramesOf(consumed') /\ \E f \in Frame : Handed' = Append(Handed, f)
    <3>0. TypeInv /\ StreamInv /\ FrameInv
      OBVIOUS
    <3>1. CASE ReadHeader
      BY <3>0, <3>1, HeaderStream
    <3>2. CASE ReadBody
      BY <3>0, <3>2, BodyStream
    <3> QED
      BY <2>3, <3>1, <3>2
  <2>5. CASE Handed' = Handed
    BY <2>2, <2>4, <2>5 DEF Stream!svars
  <2>6. CASE Handed' = FramesOf(consumed') /\ \E f \in Frame : Handed' = Append(Handed, f)
    <3>1. Stream!Deliver
      BY <2>2, <2>6, ReadDelivers
    <3> QED
      BY <2>4, <3>1 DEF Stream!Next
  <2> QED
    BY <2>4, <2>5, <2>6
<1> QED
  BY <1>1, <1>2, <1>3, <1>4, <1>5 DEF Next

\* Every step of the request path is a step of the stream of events or leaves it alone,
\* for any number of reactors, until two sds calls overlap or a write() stops inside a
\* frame: what send_buffer is given is posted, and each callback of the worker gets the
\* next event posted, whole (aeserver.c:131-145, 655-678 against worker.c:129-196).
THEOREM ImplementsStream ==
    Spec => Stream!Init /\ [][raced' \/ cut' \/ Stream!Next]_(Stream!svars)
<1>1. Init => StreamRight /\ Stream!Init
  BY InitStreamRight
<1>2. RequestInv /\ RequestInv' /\ StreamRight /\ [Next]_vars
        => StreamRight' /\ [raced' \/ cut' \/ Stream!Next]_(Stream!svars)
  BY StepStreamRight
<1> QED
  BY <1>1, <1>2, RequestInvCorrect, PTL DEF Spec

\* One thread is in no two sds calls at once.
Serial(r) == ~raced /\ (pc[r] \in {"store", "shift"} => seen[r] = buf)

LEMMA StepSerial ==
    ASSUME NEW r, Reactors = {r}, TypeInv, LockOwners, SoloInv(r), Serial(r), [Next]_vars
    PROVE  Serial(r)'
<1> USE DEF master, buffer, locks, events, worker, Serial
<1>1. r \in Reactors /\ Threads = {r, Main} /\ Main # r /\ pc[Main] = "idle"
  BY ThreadsAssumption DEF Threads, SoloInv
<1>2. pc \in [Threads -> Pcs] /\ seen \in [Threads -> Seq(Unit)]
  BY DEF TypeInv, TypeOK
<1>3. pc[r] # "store" => wlock = None
  BY <1>1 DEF LockOwners, TypeInv, TypeOK
<1>4. CASE UNCHANGED vars \/ WorkerStep
  BY <1>4 DEF vars, WorkerStep, ReadHeader, ReadGarbage, ReadBody, ReadEof, Consume
<1>5. CASE Client
  <2>1. PICK t \in Threads : /\ pc[t] = "idle" /\ pc' = [pc EXCEPT ![t] = "check"]
                             /\ UNCHANGED <<buf, seen, raced>>
    <3>1. \A c \in Conns : Owner[c] \in Threads
      BY OwnerAssumption DEF Threads
    <3> QED
      BY <1>1, <1>5, <3>1 DEF Client, Accept, ClientData, ClientGone, StartPost
  <2> QED
    BY <1>2, <2>1
<1>6. ASSUME NEW t \in Threads, Post(t) PROVE Serial(r)'
  <2>1. t = r
    <3>1. pc[t] # "idle"
      BY <1>6 DEF Post, CheckEmpty, ArmKernel, ArmMask, LockAppend, StoreAppend
    <3> QED
      BY <1>1, <3>1
  <2>2. CASE CheckEmpty(r) \/ ArmKernel(r) \/ ArmMask(r)
    BY <1>1, <1>2, <2>2 DEF CheckEmpty, ArmKernel, ArmMask
  <2>3. CASE LockAppend(r)
    BY <1>1, <1>2, <2>3 DEF LockAppend
  <2>4. CASE StoreAppend(r)
    BY <1>1, <1>2, <2>4 DEF StoreAppend
  <2> QED
    BY <1>6, <2>1, <2>2, <2>3, <2>4 DEF Post
<1>7. CASE Drain(r)
  <2>1. CASE Dispatch(r) \/ LockWriteNothing(r) \/ TestEmpty(r) \/ DisarmKernel(r) \/ DisarmMask(r)
    BY <1>1, <1>2, <2>1 DEF Dispatch, LockWriteNothing, TestEmpty, DisarmKernel, DisarmMask
  <2>2. CASE StartTrim(r)
    BY <1>1, <1>2, <2>2 DEF StartTrim
  <2>3. CASE FinishTrim(r)
    BY <1>1, <1>2, <2>3 DEF FinishTrim
  <2>4. CASE LockWrite(r)
    <3>1. wlock = None /\ pc' = [pc EXCEPT ![r] = "trim"] /\ raced' = (raced \/ wlock # None)
      BY <1>3, <2>4 DEF LockWrite
    <3>2. pc'[r] = "trim"
      BY <1>1, <1>2, <3>1
    <3> QED
      BY <3>1, <3>2
  <2> QED
    BY <1>7, <2>1, <2>2, <2>3, <2>4 DEF Drain
<1> QED
  BY <1>1, <1>4, <1>5, <1>6, <1>7 DEF Next

\* With one reactor, whose connections are all accepted, no two sds calls overlap, and the
\* path is the stream of events as long as every write() takes whole frames
\* (aeserver.c:661-671).
THEOREM ImplementsStreamSolo ==
    ASSUME NEW r, Reactors = {r}, Accepted = Conns
    PROVE  Spec => Stream!Init /\ [][cut' \/ Stream!Next]_(Stream!svars)
<1> DEFINE Inv == RequestInv /\ StreamRight /\ SoloInv(r) /\ Serial(r)
<1>1. Init => Inv /\ Stream!Init
  <2> SUFFICES ASSUME Init PROVE Inv /\ Stream!Init
    OBVIOUS
  <2>1. RequestInv
    BY InitType, InitLocks, InitStream, InitFrames DEF RequestInv
  <2>2. Serial(r)
    BY DEF Init, Serial, Threads
  <2> QED
    BY <2>1, <2>2, InitStreamRight, InitSolo
<1>2. Inv /\ RequestInv' /\ [Next]_vars => Inv' /\ [cut' \/ Stream!Next]_(Stream!svars)
  <2> SUFFICES ASSUME Inv, RequestInv', [Next]_vars
               PROVE  Inv' /\ [cut' \/ Stream!Next]_(Stream!svars)
    OBVIOUS
  <2>1. TypeInv /\ LockOwners
    BY DEF RequestInv
  <2>2. SoloInv(r)' /\ Serial(r)'
    BY <2>1, StepSolo, StepSerial
  <2>3. StreamRight' /\ (raced' \/ cut' \/ [Stream!Next]_(Stream!svars))
    BY StepStreamRight
  <2> QED
    BY <2>2, <2>3 DEF Serial
<1> QED
  BY <1>1, <1>2, RequestInvCorrect, PTL DEF Spec
=============================================================================
