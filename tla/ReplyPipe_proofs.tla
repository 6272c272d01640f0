-------------------------- MODULE ReplyPipe_proofs --------------------------
(***************************************************************************)
(* Theorems about ReplyPipe for every number of reactors and connections   *)
(* and every size of header, body and socketpair.                          *)
(***************************************************************************)
EXTENDS ReplyPipe, PipeFrames_proofs

-----------------------------------------------------------------------------
(* Type correctness.                                                       *)

\* Needed for TypeOK to be inductive: a reactor inside a handler has a
\* connection.
AtHand == \A r \in Reactors : rpc[r] # "idle" => at[r] \in Conns

TypeInv == TypeOK /\ AtHand

\* The frames of a reply and of a close, and their bodies.
LEMMA WorkerFrames ==
    ASSUME NEW c \in Conns, NEW n \in 0..MaxMsgs
    PROVE  /\ [conn |-> c, type |-> "message", num |-> n] \in Frame
           /\ [conn |-> c, type |-> "close", num |-> 0] \in Frame
BY SizesAssumption DEF Frame

LEMMA BodyType ==
    ASSUME NEW f \in Frame
    PROVE  Body(f) \in Seq(Unit)
<1>1. Units(f) \in Seq(Unit) /\ HdrLen \in Nat
  BY UnitsType, SizesAssumption
<1> QED
  BY <1>1, DropType DEF Body

\* What a step moves out of a sequence of units is a number of them.
LEMMA LeastType ==
    ASSUME NEW a \in Nat, NEW b \in Nat
    PROVE  Least(a, b) \in 0..a /\ Least(a, b) \in 0..b
BY DEF Least

LEMMA PostType ==
    ASSUME wbuf \in Seq(Unit), warmed \in BOOLEAN, NEW f \in Frame, Post(f)
    PROVE  wbuf' \in Seq(Unit) /\ warmed' \in BOOLEAN
<1>1. Units(f) \in Seq(Unit)
  BY UnitsType
<1> QED
  BY <1>1 DEF Post

LEMMA InitType == Init => TypeInv
<1> SUFFICES ASSUME Init PROVE TypeInv
  OBVIOUS
<1>0. <<>> \in Seq(Unit) /\ 0 \in 0..MaxMsgs
  BY SizesAssumption
<1>1. /\ wbuf \in Seq(Unit) /\ pipe \in Seq(Unit) /\ warmed \in BOOLEAN
      /\ sent \in [Conns -> 0..MaxMsgs] /\ closing \subseteq Conns
  BY <1>0 DEF Init
<1>2. /\ rpc \in [Reactors -> {"idle", "body", "append", "store", "close", "mark", "trim"}]
      /\ at \in [Reactors -> Conns \cup {None}]
      /\ data \in [Reactors -> Seq(Unit)] /\ seen \in [Reactors -> Seq(Unit)]
      /\ watched \in [Reactors -> SUBSET Conns]
      /\ AtHand
  BY <1>0 DEF Init, AtHand
<1>3. /\ out \in [Conns -> Seq(Unit)] /\ disable \in [Conns -> {0, 1, 2}]
      /\ client \in [Conns -> Seq(Unit)] /\ owed \in [Conns -> Seq(Unit)]
  BY <1>0 DEF Init
<1> QED
  BY <1>1, <1>2, <1>3 DEF Init, TypeInv, TypeOK

LEMMA WorkerType ==
    ASSUME TypeInv, (\E c \in Conns : Reply(c) \/ Close(c)) \/ WorkerWrite
    PROVE  TypeInv'
<1> USE DEF threadVars, connVars, histVars
<1>0. /\ wbuf \in Seq(Unit) /\ pipe \in Seq(Unit) /\ warmed \in BOOLEAN
      /\ PipeCap \in Nat /\ 0 \in 0..MaxMsgs
  BY SizesAssumption, PipeAssumption DEF TypeInv, TypeOK
<1>1. ASSUME NEW c \in Conns, Reply(c) PROVE TypeInv'
  <2> DEFINE f == [conn |-> c, type |-> "message", num |-> sent[c] + 1]
  <2>1. sent[c] + 1 \in 0..MaxMsgs /\ sent' = [sent EXCEPT ![c] = @ + 1]
    BY <1>1, SizesAssumption DEF TypeInv, TypeOK, Reply
  <2>2. f \in Frame
    BY <2>1, WorkerFrames
  <2>3. Post(f) /\ owed' = [owed EXCEPT ![c] = @ \o Body(f)]
    BY <1>1 DEF Reply
  <2>4. wbuf' \in Seq(Unit) /\ warmed' \in BOOLEAN
    BY <1>0, <2>2, <2>3, PostType
  <2>5. owed[c] \o Body(f) \in Seq(Unit)
    <3>1. owed[c] \in Seq(Unit) /\ Body(f) \in Seq(Unit)
      BY <2>2, BodyType DEF TypeInv, TypeOK
    <3> QED
      BY <3>1
  <2>6. owed' \in [Conns -> Seq(Unit)] /\ sent' \in [Conns -> 0..MaxMsgs]
    BY <2>1, <2>3, <2>5 DEF TypeInv, TypeOK
  <2> QED
    BY <1>1, <2>4, <2>6 DEF Reply, TypeInv, TypeOK, AtHand
<1>2. ASSUME NEW c \in Conns, Close(c) PROVE TypeInv'
  <2> DEFINE f == [conn |-> c, type |-> "close", num |-> 0]
  <2>1. f \in Frame
    BY <1>0, WorkerFrames
  <2>2. Post(f)
    BY <1>2 DEF Close
  <2>3. wbuf' \in Seq(Unit) /\ warmed' \in BOOLEAN
    BY <1>0, <2>1, <2>2, PostType
  <2> QED
    BY <1>2, <2>3 DEF Close, TypeInv, TypeOK, AtHand
<1>3. ASSUME WorkerWrite PROVE TypeInv'
  <2> DEFINE n == Least(Len(wbuf), PipeCap - Len(pipe))
  <2>1. n \in 0..Len(wbuf)
    BY <1>0, <1>3 DEF WorkerWrite, Least
  <2>2. Take(wbuf, n) \in Seq(Unit) /\ Drop(wbuf, n) \in Seq(Unit)
    BY <1>0, <2>1, TakeDrop
  <2>3. wbuf' \in Seq(Unit) /\ pipe' \in Seq(Unit) /\ warmed' \in BOOLEAN
    BY <1>0, <1>3, <2>2 DEF WorkerWrite
  <2>4. cut' \in BOOLEAN
    BY <1>3 DEF WorkerWrite, TypeInv, TypeOK
  <2> QED
    BY <1>3, <2>3, <2>4 DEF WorkerWrite, TypeInv, TypeOK, AtHand
<1> QED
  BY <1>1, <1>2, <1>3

LEMMA HandlerType ==
    ASSUME TypeInv, NEW r \in Reactors, ReadHeader(r) \/ ReadGarbage(r) \/ ReadBody(r)
    PROVE  TypeInv'
<1> USE DEF workerVars, connVars
<1>0. /\ pipe \in Seq(Unit) /\ Len(pipe) \in Nat /\ HdrLen \in Nat /\ BodyLen \in Nat
      /\ rpc \in [Reactors -> {"idle", "body", "append", "store", "close", "mark", "trim"}]
      /\ at \in [Reactors -> Conns \cup {None}]
      /\ data \in [Reactors -> Seq(Unit)] /\ watched \in [Reactors -> SUBSET Conns]
      /\ mixed \in BOOLEAN /\ overlap \in BOOLEAN /\ desync \in BOOLEAN
      /\ stale \subseteq Conns /\ <<>> \in Seq(Unit)
  BY SizesAssumption DEF TypeInv, TypeOK
<1>1. CASE ReadHeader(r)
  <2> DEFINE k == Least(HdrLen, Len(pipe))
             f == HeaderOf(Take(pipe, k))
  <2>1. k \in 0..Len(pipe)
    BY <1>0, LeastType
  <2>2. f \in Frame
    BY <1>0, <1>1, <2>1, HeaderProperties DEF ReadHeader
  <2>3. f.conn \in Conns /\ Body(f) \in Seq(Unit)
    BY <2>2, BodyType DEF Frame
  <2>4. pipe' \in Seq(Unit)
    BY <1>0, <1>1, DropType DEF ReadHeader
  <2>5. /\ rpc' = [rpc EXCEPT ![r] = IF f.type = "message" THEN "body" ELSE "close"]
        /\ at' = [at EXCEPT ![r] = f.conn]
        /\ data' = [data EXCEPT ![r] = Body(f)]
    BY <1>1 DEF ReadHeader, Go
  <2>6. mixed' \in BOOLEAN /\ overlap' \in BOOLEAN
    BY <1>0, <1>1 DEF ReadHeader, Begin
  <2>7. UNCHANGED <<workerVars, connVars, seen, desync, stale>>
    BY <1>1 DEF ReadHeader
  <2> HIDE DEF f, k
  <2>8. /\ data' \in [Reactors -> Seq(Unit)]
        /\ at' \in [Reactors -> Conns \cup {None}]
        /\ rpc' \in [Reactors -> {"idle", "body", "append", "store", "close", "mark", "trim"}]
    BY <1>0, <2>3, <2>5
  <2>9. AtHand'
    BY <1>0, <2>3, <2>5 DEF TypeInv, AtHand
  <2> QED
    BY <2>4, <2>6, <2>7, <2>8, <2>9 DEF TypeInv, TypeOK
<1>2. CASE ReadGarbage(r)
  <2>1. pipe' \in Seq(Unit)
    <3> DEFINE k == Least(HdrLen, Len(pipe))
    <3>1. k \in Nat
      BY <1>0 DEF Least
    <3>2. pipe' = Drop(pipe, k)
      BY <1>2 DEF ReadGarbage
    <3> HIDE DEF k
    <3> QED
      BY <1>0, <3>1, <3>2, DropType
  <2>2. \/ UNCHANGED <<rpc, at>>
        \/ \E c \in Conns, p \in {"body", "close"} : Go(r, p, c)
    BY <1>2 DEF ReadGarbage
  <2>3. /\ rpc' \in [Reactors -> {"idle", "body", "append", "store", "close", "mark", "trim"}]
        /\ at' \in [Reactors -> Conns \cup {None}]
        /\ AtHand'
    BY <1>0, <2>2 DEF Go, TypeInv, AtHand
  <2>4. data' \in [Reactors -> Seq(Unit)] /\ mixed' \in BOOLEAN /\ overlap' \in BOOLEAN
    BY <1>0, <1>2 DEF ReadGarbage, Begin
  <2>5. UNCHANGED <<workerVars, connVars, seen, stale>> /\ desync' = TRUE
    BY <1>2 DEF ReadGarbage
  <2> QED
    BY <2>1, <2>3, <2>4, <2>5 DEF TypeInv, TypeOK
<1>3. CASE ReadBody(r)
  <2>1. at[r] \in Conns
    BY <1>3 DEF ReadBody, TypeInv, AtHand
  <2>2. PICK k \in BodyRead(r) :
           /\ pipe' = Drop(pipe, k)
           /\ data' = [data EXCEPT ![r] = Take(pipe, k)]
           /\ desync' = (desync \/ Take(pipe, k) # data[r])
    BY <1>3 DEF ReadBody
  <2>3. k \in 0..Len(pipe)
    <3>1. Least(BodyLen, Len(pipe)) \in 0..Len(pipe)
      BY <1>0, LeastType
    <3> QED
      BY <1>0, <3>1 DEF BodyRead
  <2>4. Take(pipe, k) \in Seq(Unit) /\ Drop(pipe, k) \in Seq(Unit)
    BY <1>0, <2>3, TakeDrop
  <2>5. /\ pipe' \in Seq(Unit) /\ data' \in [Reactors -> Seq(Unit)]
        /\ desync' \in BOOLEAN /\ mixed' \in BOOLEAN
    BY <1>0, <1>3, <2>2, <2>4 DEF ReadBody
  <2>6. /\ \/ Go(r, "idle", None)
           \/ Go(r, "append", at[r])
        /\ stale' = stale \/ stale' = stale \cup {at[r]}
        /\ watched' = watched \/ watched' = [watched EXCEPT ![r] = @ \cup {at[r]}]
    <3>1. CASE pipe = <<>>
      BY <1>3, <3>1 DEF ReadBody
    <3>2. CASE pipe # <<>> /\ at[r] \notin freed
      BY <1>3, <3>2 DEF ReadBody
    <3>3. CASE pipe # <<>> /\ at[r] \in freed
      BY <1>3, <3>3 DEF ReadBody
    <3> QED
      BY <3>1, <3>2, <3>3
  <2>7. /\ rpc' \in [Reactors -> {"idle", "body", "append", "store", "close", "mark", "trim"}]
        /\ at' \in [Reactors -> Conns \cup {None}]
        /\ AtHand'
    BY <1>0, <2>1, <2>6 DEF Go, TypeInv, AtHand
  <2>8. stale' \subseteq Conns /\ watched' \in [Reactors -> SUBSET Conns]
    BY <1>0, <2>1, <2>6
  <2>9. UNCHANGED <<workerVars, out, disable, client, freed, seen, overlap>>
    BY <1>3 DEF ReadBody
  <2> QED
    BY <2>5, <2>7, <2>8, <2>9 DEF TypeInv, TypeOK
<1> QED
  BY <1>1, <1>2, <1>3

\* What freeClient does to the connection tables.
LEMMA FreeType ==
    ASSUME TypeInv, NEW c \in Conns, Free(c)
    PROVE  /\ out' \in [Conns -> Seq(Unit)] /\ disable' \in [Conns -> {0, 1, 2}]
           /\ watched' \in [Reactors -> SUBSET Conns] /\ freed' \subseteq Conns
BY DEF TypeInv, TypeOK, Free

\* A reactor that ends a handler, or goes on with it, for its connection.
LEMMA GoType ==
    ASSUME TypeInv, NEW r \in Reactors, NEW c \in Conns \cup {None},
           NEW p \in {"idle", "body", "append", "store", "close", "mark", "trim"},
           p = "idle" \/ c \in Conns, Go(r, p, c)
    PROVE  /\ rpc' \in [Reactors -> {"idle", "body", "append", "store", "close", "mark", "trim"}]
           /\ at' \in [Reactors -> Conns \cup {None}]
           /\ AtHand'
BY DEF Go, TypeInv, TypeOK, AtHand

LEMMA ServeType ==
    ASSUME TypeInv, NEW r \in Reactors,
           \/ AppendStart(r) \/ AppendStore(r) \/ TestClose(r) \/ MarkClosing(r) \/ Trim(r)
    PROVE  TypeInv'
<1> USE DEF workerVars, connVars, histVars
<1> DEFINE c == at[r]
<1>0. /\ c \in Conns
      /\ out[c] \in Seq(Unit) /\ data[r] \in Seq(Unit) /\ seen[r] \in Seq(Unit)
      /\ <<>> \in Seq(Unit) /\ Len(data[r]) \in Nat
  BY DEF AppendStart, AppendStore, TestClose, MarkClosing, Trim, TypeInv, TypeOK, AtHand
<1>00. Drop(out[c], Len(data[r])) \in Seq(Unit)
  BY <1>0, DropType
<1> HIDE DEF c
<1>1. CASE AppendStart(r)
  <2>1. seen' \in [Reactors -> Seq(Unit)]
    BY <1>0, <1>1 DEF c, AppendStart, TypeInv, TypeOK
  <2> QED
    BY <1>1, <2>1 DEF AppendStart, TypeInv, TypeOK, AtHand
<1>2. CASE AppendStore(r)
  <2>1. Go(r, "idle", None)
    BY <1>2 DEF AppendStore
  <2>2. out' \in [Conns -> Seq(Unit)] /\ stale' \subseteq Conns
    <3>1. seen[r] \o data[r] \in Seq(Unit) /\ out[c] \o data[r] \in Seq(Unit)
      BY <1>0
    <3>2. CASE c \in freed
      BY <1>0, <1>2, <3>2 DEF c, AppendStore, TypeInv, TypeOK
    <3>3. CASE c \notin freed
      <4>1. /\ stale' = stale
            /\ \E s \in {seen[r] \o data[r], out[c] \o data[r], out[c]} :
                  out' = [out EXCEPT ![c] = s]
        BY <1>2, <3>3 DEF c, AppendStore
      <4> PICK s \in {seen[r] \o data[r], out[c] \o data[r], out[c]} :
                  out' = [out EXCEPT ![c] = s]
        BY <4>1
      <4>2. s \in Seq(Unit)
        BY <1>0, <3>1
      <4>3. out \in [Conns -> Seq(Unit)] /\ stale \subseteq Conns
        BY DEF TypeInv, TypeOK
      <4>4. out' \in [Conns -> Seq(Unit)]
        BY <4>2, <4>3
      <4> QED
        BY <4>1, <4>3, <4>4
    <3> QED
      BY <3>2, <3>3
  <2>3. data' \in [Reactors -> Seq(Unit)] /\ seen' \in [Reactors -> Seq(Unit)]
    BY <1>0, <1>2 DEF AppendStore, TypeInv, TypeOK
  <2>4. UNCHANGED <<workerVars, disable, watched, client, freed, pipe, mixed, overlap, desync>>
    BY <1>2 DEF AppendStore
  <2> QED
    BY <2>1, <2>2, <2>3, <2>4, GoType DEF TypeInv, TypeOK
<1>3. CASE TestClose(r)
  <2>1. Go(r, "idle", None) \/ Go(r, "mark", c)
    BY <1>3 DEF c, TestClose
  <2>2. /\ rpc' \in [Reactors -> {"idle", "body", "append", "store", "close", "mark", "trim"}]
        /\ at' \in [Reactors -> Conns \cup {None}]
        /\ AtHand'
    BY <1>0, <2>1, GoType
  <2>3. /\ out' \in [Conns -> Seq(Unit)] /\ disable' \in [Conns -> {0, 1, 2}]
        /\ watched' \in [Reactors -> SUBSET Conns] /\ freed' \subseteq Conns
        /\ stale' \subseteq Conns /\ client' = client
    <3>1. CASE c \in freed
      BY <1>0, <1>3, <3>1 DEF c, TestClose, TypeInv, TypeOK
    <3>2. CASE c \notin freed
      BY <1>0, <1>3, <3>2, FreeType DEF c, TestClose, TypeInv, TypeOK
    <3> QED
      BY <3>1, <3>2
  <2>4. UNCHANGED <<workerVars, data, seen, pipe, mixed, overlap, desync>>
    BY <1>3 DEF TestClose
  <2> QED
    BY <2>2, <2>3, <2>4 DEF TypeInv, TypeOK
<1>4. CASE MarkClosing(r)
  <2>1. Go(r, "idle", None)
    BY <1>4 DEF MarkClosing
  <2>2. disable' \in [Conns -> {0, 1, 2}]
    BY <1>4 DEF MarkClosing, TypeInv, TypeOK
  <2> QED
    BY <1>4, <2>1, <2>2, GoType DEF MarkClosing, TypeInv, TypeOK
<1>5. CASE Trim(r)
  <2> DEFINE rest == Drop(out[c], Len(data[r]))
  <2>1. Go(r, "idle", None)
    BY <1>5 DEF Trim
  <2>2. /\ out' \in [Conns -> Seq(Unit)] /\ disable' \in [Conns -> {0, 1, 2}]
        /\ watched' \in [Reactors -> SUBSET Conns] /\ freed' \subseteq Conns
        /\ stale' \subseteq Conns
    <3>1. CASE c \in freed
      BY <1>0, <1>5, <3>1 DEF c, Trim, TypeInv, TypeOK
    <3>2. CASE c \notin freed /\ Free(c)
      BY <1>0, <1>5, <3>2, FreeType DEF c, Trim, TypeInv, TypeOK
    <3>3. CASE c \notin freed /\ ~Free(c)
      <4>1. /\ out' = [out EXCEPT ![c] = rest]
            /\ watched' = watched \/ watched' = [watched EXCEPT ![r] = @ \ {c}]
            /\ UNCHANGED <<disable, freed, stale>>
        BY <1>5, <3>3 DEF c, Trim
      <4> QED
        BY <1>0, <1>00, <4>1 DEF TypeInv, TypeOK
    <3> QED
      BY <3>1, <3>2, <3>3
  <2>3. data' \in [Reactors -> Seq(Unit)]
    BY <1>0, <1>5 DEF Trim, TypeInv, TypeOK
  <2>4. UNCHANGED <<workerVars, client, seen, pipe, mixed, overlap, desync>>
    BY <1>5 DEF Trim
  <2> QED
    BY <2>1, <2>2, <2>3, <2>4, GoType DEF TypeInv, TypeOK
<1> QED
  BY <1>1, <1>2, <1>3, <1>4, <1>5

LEMMA WriteType ==
    ASSUME TypeInv, NEW r \in Reactors, NEW c \in Conns, Write(r, c)
    PROVE  TypeInv'
<1> USE DEF workerVars, threadVars
<1>1. CASE FlushNothing(r, c)
  <2>1. watched' \in [Reactors -> SUBSET Conns] /\ overlap' \in BOOLEAN
    BY <1>1 DEF FlushNothing, Begin, TypeInv, TypeOK
  <2> QED
    BY <1>1, <2>1 DEF FlushNothing, TypeInv, TypeOK, AtHand
<1>2. CASE Flush(r, c)
  <2>0. out[c] \in Seq(Unit) /\ client[c] \in Seq(Unit) /\ Len(out[c]) \in Nat
    BY DEF TypeInv, TypeOK
  <2>1. PICK n \in 1..Len(out[c]) :
          \E written \in {Take(out[c], n), [i \in 1..n |-> Junk]} :
             /\ client' = [client EXCEPT ![c] = @ \o written]
             /\ data' = [data EXCEPT ![r] = written]
    BY <1>2 DEF Flush
  <2> PICK written \in {Take(out[c], n), [i \in 1..n |-> Junk]} :
             /\ client' = [client EXCEPT ![c] = @ \o written]
             /\ data' = [data EXCEPT ![r] = written]
    BY <2>1
  <2>2. written \in Seq(Unit)
    <3>1. n \in 0..Len(out[c])
      BY <2>0
    <3>2. Take(out[c], n) \in Seq(Unit)
      BY <2>0, <3>1, TakeDrop
    <3>3. Junk \in Unit
      BY SizesAssumption DEF Junk, Unit
    <3>4. [i \in 1..n |-> Junk] \in Seq(Unit)
      BY <2>0, <3>3
    <3> QED
      BY <3>2, <3>4
  <2>3. client[c] \o written \in Seq(Unit)
    BY <2>0, <2>2
  <2>4. client' \in [Conns -> Seq(Unit)] /\ data' \in [Reactors -> Seq(Unit)]
    BY <2>1, <2>2, <2>3 DEF TypeInv, TypeOK
  <2>5. overlap' \in BOOLEAN /\ Go(r, "trim", c)
    BY <1>2 DEF Flush, Begin
  <2>6. UNCHANGED <<workerVars, seen, out, disable, watched, freed, pipe, mixed, desync, stale>>
    BY <1>2 DEF Flush
  <2> QED
    BY <2>4, <2>5, <2>6, GoType DEF TypeInv, TypeOK
<1> QED
  BY <1>1, <1>2 DEF Write

LEMMA StepType == TypeInv /\ [Next]_vars => TypeInv'
<1> SUFFICES ASSUME TypeInv, [Next]_vars PROVE TypeInv'
  OBVIOUS
<1>1. CASE (\E c \in Conns : Reply(c) \/ Close(c)) \/ WorkerWrite
  BY <1>1, WorkerType
<1>2. ASSUME NEW r \in Reactors, Read(r) \/ Trim(r) PROVE TypeInv'
  BY <1>2, HandlerType, ServeType DEF Read
<1>3. ASSUME NEW r \in Reactors, NEW c \in Conns, Write(r, c) PROVE TypeInv'
  BY <1>3, WriteType
<1>4. CASE UNCHANGED vars
  BY <1>4 DEF vars, workerVars, threadVars, connVars, histVars, TypeInv, TypeOK, AtHand
<1> QED
  BY <1>1, <1>2, <1>3, <1>4 DEF Next

\* Every variable of the worker and of the reactors keeps its type, whatever
\* a reactor takes for a header or a body.
THEOREM TypeCorrect == Spec => []TypeOK
<1>1. TypeInv => TypeOK
  BY DEF TypeInv
<1> QED
  BY <1>1, InitType, StepType, PTL DEF Spec

-----------------------------------------------------------------------------
(* The worker watches its end of the socketpair exactly while bytes wait.  *)

\* An append after the test of emptiness keeps the event registered.
LEMMA PostKeepsArmed ==
    ASSUME TypeInv, WorkerArmed, NEW f \in Frame, Post(f)
    PROVE  WorkerArmed'
<1>1. Units(f) \in Seq(Unit)
  BY UnitsType
<1>2. Len(Units(f)) > 0
  BY SizesAssumption DEF Units, FrameLen
<1>3. wbuf \in Seq(Unit) /\ warmed \in BOOLEAN
  BY DEF TypeInv, TypeOK
<1>4. wbuf' \in Seq(Unit) /\ Len(wbuf') > 0
  BY <1>1, <1>2, <1>3 DEF Post
<1>5. wbuf' # <<>>
  BY <1>4
<1>6. warmed' = TRUE
  BY <1>3 DEF Post, WorkerArmed
<1> QED
  BY <1>5, <1>6 DEF WorkerArmed

\* Only the worker touches its buffer and its event.
LEMMA StepArmed == TypeInv /\ WorkerArmed /\ [Next]_vars => WorkerArmed'
<1> SUFFICES ASSUME TypeInv, WorkerArmed, [Next]_vars PROVE WorkerArmed'
  OBVIOUS
<1>1. ASSUME NEW c \in Conns, Reply(c) PROVE WorkerArmed'
  <2>1. sent[c] + 1 \in 0..MaxMsgs
    BY <1>1, SizesAssumption DEF TypeInv, TypeOK, Reply
  <2>2. [conn |-> c, type |-> "message", num |-> sent[c] + 1] \in Frame
    BY <2>1, WorkerFrames
  <2> QED
    BY <1>1, <2>2, PostKeepsArmed DEF Reply
<1>2. ASSUME NEW c \in Conns, Close(c) PROVE WorkerArmed'
  <2>1. [conn |-> c, type |-> "close", num |-> 0] \in Frame
    BY SizesAssumption DEF Frame
  <2> QED
    BY <1>2, <2>1, PostKeepsArmed DEF Close
<1>3. CASE WorkerWrite
  BY <1>3 DEF WorkerWrite, WorkerArmed
<1>4. CASE \E r \in Reactors : Read(r) \/ Trim(r) \/ \E c \in Conns : Write(r, c)
  <2>1. UNCHANGED <<wbuf, warmed>>
    BY <1>4 DEF Read, Write, ReadHeader, ReadGarbage, ReadBody, AppendStart, AppendStore,
                TestClose, MarkClosing, FlushNothing, Flush, Trim, workerVars
  <2> QED
    BY <2>1 DEF WorkerArmed
<1>5. CASE UNCHANGED vars
  BY <1>5 DEF vars, workerVars, WorkerArmed
<1> QED
  BY <1>1, <1>2, <1>3, <1>4, <1>5 DEF Next

\* The worker's writable event is registered exactly while its send_buffer
\* holds bytes, whatever it posts and however little the socketpair takes
\* (worker.c:88-93, 164-168, 269-279).
THEOREM WorkerArmedCorrect == Spec => []WorkerArmed
<1>1. Init => WorkerArmed
  BY DEF Init, WorkerArmed
<1> QED
  BY <1>1, InitType, StepType, StepArmed, PTL DEF Spec

-----------------------------------------------------------------------------
(* The frame boundaries.                                                   *)

\* A reactor has read a header and is to read the body of its frame.
Reading == \E r \in Reactors : rpc[r] = "body"

\* What the worker has posted and no reactor has read, but for the body of a frame
\* whose header was read; and how much of that is in the socketpair.
Stream == pipe \o wbuf
Rest == IF Reading THEN Drop(Stream, BodyLen) ELSE Stream
Held == IF Reading THEN Len(pipe) - BodyLen ELSE Len(pipe)

MessageTo(c, n) == [conn |-> c, type |-> "message", num |-> n]

\* Until a write() ends inside a frame or a reactor reads between another's header and
\* body, whole frames are left, the socketpair ends with one, and a reactor that reads a
\* body has read its header.
FrameInv ==
    ~cut /\ ~mixed =>
      /\ ~desync
      /\ \A r, q \in Reactors : rpc[r] = "body" /\ rpc[q] = "body" => r = q
      /\ \A r \in Reactors : rpc[r] = "body" =>
           /\ BodyLen <= Len(pipe) /\ Take(pipe, BodyLen) = data[r]
           /\ \E n \in 0..MaxMsgs : data[r] = Body(MessageTo(at[r], n))
      /\ Framed(Rest) /\ Boundary(Rest, Held)

LEMMA StreamType ==
    ASSUME TypeInv, Reading => BodyLen <= Len(pipe)
    PROVE  /\ pipe \in Seq(Unit) /\ wbuf \in Seq(Unit) /\ Stream \in Seq(Unit)
           /\ Len(Stream) = Len(pipe) + Len(wbuf)
           /\ \A i \in 1..Len(pipe) : Stream[i] = pipe[i]
           /\ \A i \in 1..Len(wbuf) : Stream[Len(pipe) + i] = wbuf[i]
           /\ BodyLen \in Nat \ {0} /\ HdrLen \in Nat \ {0}
           /\ Rest \in Seq(Unit) /\ Held \in 0..Len(pipe) /\ Len(Rest) = Held + Len(wbuf)
           /\ \A i \in 1..Len(wbuf) : Rest[Held + i] = wbuf[i]
<1>1. pipe \in Seq(Unit) /\ wbuf \in Seq(Unit) /\ BodyLen \in Nat \ {0} /\ HdrLen \in Nat \ {0}
  BY SizesAssumption DEF TypeInv, TypeOK
<1>2. /\ Stream \in Seq(Unit) /\ Len(Stream) = Len(pipe) + Len(wbuf)
      /\ \A i \in 1..Len(pipe) + Len(wbuf) :
           Stream[i] = IF i <= Len(pipe) THEN pipe[i] ELSE wbuf[i - Len(pipe)]
  BY <1>1, ConcatProperties DEF Stream
<1>3. /\ \A i \in 1..Len(pipe) : Stream[i] = pipe[i]
      /\ \A i \in 1..Len(wbuf) : Stream[Len(pipe) + i] = wbuf[i]
  <2>0. Len(pipe) \in Nat /\ Len(wbuf) \in Nat
    BY <1>1
  <2>1. ASSUME NEW i \in 1..Len(pipe) PROVE Stream[i] = pipe[i]
    <3>1. i \in 1..Len(pipe) + Len(wbuf) /\ i <= Len(pipe)
      BY <2>0
    <3> QED
      BY <1>2, <3>1
  <2>2. ASSUME NEW i \in 1..Len(wbuf) PROVE Stream[Len(pipe) + i] = wbuf[i]
    <3>1. Len(pipe) + i \in 1..Len(pipe) + Len(wbuf) /\ ~(Len(pipe) + i <= Len(pipe))
          /\ Len(pipe) + i - Len(pipe) = i
      BY <2>0
    <3> QED
      BY <1>2, <3>1
  <2> QED
    BY <2>1, <2>2
<1>4. CASE Reading
  <2>1. BodyLen \in 0..Len(Stream)
    BY <1>1, <1>2, <1>4
  <2>2. Rest = Drop(Stream, BodyLen) /\ Held = Len(pipe) - BodyLen
    BY <1>4 DEF Rest, Held
  <2>3. Rest \in Seq(Unit)
    BY <1>1, <1>2, <2>2, DropType
  <2>4. /\ Len(Rest) = Len(Stream) - BodyLen
        /\ \A i \in 1..Len(Stream) - BodyLen : Rest[i] = Stream[i + BodyLen]
    BY <1>2, <2>1, <2>2, DropElements
  <2>5. ASSUME NEW i \in 1..Len(wbuf) PROVE Rest[Held + i] = wbuf[i]
    <3>1. Held + i \in 1..Len(Stream) - BodyLen /\ Held + i + BodyLen = Len(pipe) + i
      BY <1>1, <1>2, <1>4, <2>2
    <3> QED
      BY <1>3, <2>4, <3>1
  <2> QED
    <3>1. Held \in 0..Len(pipe) /\ Len(Rest) = Held + Len(wbuf)
      BY <1>1, <1>2, <1>4, <2>2, <2>4
    <3> QED
      BY <1>1, <1>2, <1>3, <2>3, <2>5, <3>1
<1>5. CASE ~Reading
  <2>1. Rest = Stream /\ Held = Len(pipe) /\ Len(pipe) \in Nat
    BY <1>1, <1>5 DEF Rest, Held
  <2>2. Rest \in Seq(Unit) /\ Held \in 0..Len(pipe) /\ Len(Rest) = Held + Len(wbuf)
    BY <1>2, <2>1
  <2>3. \A i \in 1..Len(wbuf) : Rest[Held + i] = wbuf[i]
    BY <1>3, <2>1
  <2> QED
    BY <1>1, <1>2, <1>3, <2>2, <2>3
<1> QED
  BY <1>4, <1>5

\* A frame that is posted is what comes last.
LEMMA RestPost ==
    ASSUME TypeInv, Reading => BodyLen <= Len(pipe), NEW f \in Frame, Post(f), UNCHANGED <<pipe, rpc>>
    PROVE  Rest' = Rest \o Units(f) /\ Held' = Held /\ (Reading' <=> Reading)
<1>1. /\ pipe \in Seq(Unit) /\ wbuf \in Seq(Unit) /\ Stream \in Seq(Unit)
      /\ Len(Stream) = Len(pipe) + Len(wbuf) /\ BodyLen \in Nat
  BY StreamType
<1>2. Units(f) \in Seq(Unit)
  BY UnitsType
<1>3. Stream' = Stream \o Units(f)
  BY <1>1, <1>2, UnitsAssociative DEF Stream, Post
<1>4. (Reading' <=> Reading) /\ Held' = Held
  BY DEF Reading, Held
<1>5. Reading => Drop(Stream \o Units(f), BodyLen) = Drop(Stream, BodyLen) \o Units(f)
  <2>1. Reading => BodyLen \in 0..Len(Stream)
    BY <1>1
  <2> QED
    BY <1>1, <1>2, <2>1, DropConcat
<1> QED
  BY <1>3, <1>4, <1>5 DEF Rest

\* A write() of the worker moves bytes into the socketpair.
LEMMA RestWrite ==
    ASSUME TypeInv, Reading => BodyLen <= Len(pipe), WorkerWrite
    PROVE  \E n \in 1..Len(wbuf) :
             /\ Rest' = Rest /\ Held' = Held + n /\ (Reading' <=> Reading)
             /\ Len(pipe') = Len(pipe) + n /\ pipe' = pipe \o Take(wbuf, n)
             /\ cut' = (cut \/ wbuf[n].pos < FrameLen(wbuf[n].frame))
<1>1. /\ pipe \in Seq(Unit) /\ wbuf \in Seq(Unit) /\ BodyLen \in Nat
  BY StreamType
<1>2. PICK n \in 1..Len(wbuf) :
        /\ pipe' = pipe \o Take(wbuf, n) /\ wbuf' = Drop(wbuf, n)
        /\ cut' = (cut \/ wbuf[n].pos < FrameLen(wbuf[n].frame))
        /\ UNCHANGED rpc
  <2> DEFINE m == Least(Len(wbuf), PipeCap - Len(pipe))
  <2>1. m > 0 /\ m \in 1..Len(wbuf)
    BY <1>1, PipeAssumption DEF WorkerWrite, Least
  <2> QED
    BY <2>1 DEF WorkerWrite, threadVars
<1>3. /\ Take(wbuf, n) \in Seq(Unit) /\ Len(Take(wbuf, n)) = n
      /\ Drop(wbuf, n) \in Seq(Unit) /\ Take(wbuf, n) \o Drop(wbuf, n) = wbuf
  BY <1>1, TakeDrop
<1>4. Stream' = Stream
  <2> DEFINE t == Take(wbuf, n)
             d == Drop(wbuf, n)
  <2>1. /\ Stream' = (pipe \o t) \o d /\ Stream = pipe \o (t \o d)
        /\ t \in Seq(Unit) /\ d \in Seq(Unit)
    BY <1>2, <1>3 DEF Stream
  <2> HIDE DEF t, d
  <2> QED
    BY <1>1, <2>1, UnitsAssociative
<1>5. Len(pipe') = Len(pipe) + n
  <2> DEFINE t == Take(wbuf, n)
  <2>1. t \in Seq(Unit) /\ Len(t) = n /\ pipe' = pipe \o t
    BY <1>2, <1>3
  <2> HIDE DEF t
  <2> QED
    BY <1>1, <2>1, ConcatProperties
<1>6. Reading' <=> Reading
  BY <1>2 DEF Reading
<1>7. Rest' = Rest /\ Held' = Held + n
  BY <1>1, <1>4, <1>5, <1>6 DEF Rest, Held
<1> QED
  BY <1>2, <1>5, <1>6, <1>7

\* What a reactor takes for a header is the header of the first frame that is left,
\* all of which is there.
LEMMA HeaderThere ==
    ASSUME TypeInv, FrameInv, ~cut, ~mixed, ~Reading, pipe # <<>>
    PROVE  LET f == Rest[1].frame
           IN /\ f \in Frame /\ FrameLen(f) <= Len(pipe) /\ HdrLen <= FrameLen(f)
              /\ \A j \in 1..FrameLen(f) : pipe[j] = [frame |-> f, pos |-> j]
              /\ HeaderOf(Take(pipe, Least(HdrLen, Len(pipe)))) = f
              /\ Rest = Stream /\ Rest # <<>> /\ Framed(Rest) /\ Boundary(Rest, FrameLen(f))
              /\ Boundary(Rest, Len(pipe))
<1> DEFINE f == Rest[1].frame
           L == FrameLen(f)
           h == Take(pipe, Least(HdrLen, Len(pipe)))
<1>1. /\ Framed(Rest) /\ Boundary(Rest, Len(pipe)) /\ Rest = Stream
      /\ pipe \in Seq(Unit) /\ Rest \in Seq(Unit) /\ Len(pipe) \in 1..Len(Rest)
      /\ \A i \in 1..Len(pipe) : Rest[i] = pipe[i]
      /\ HdrLen \in Nat \ {0}
  <2>1. Framed(Rest) /\ Boundary(Rest, Len(pipe)) /\ Rest = Stream
    BY DEF FrameInv, Rest, Held
  <2>2. /\ pipe \in Seq(Unit) /\ wbuf \in Seq(Unit) /\ Stream \in Seq(Unit)
        /\ Len(Stream) = Len(pipe) + Len(wbuf)
        /\ \A i \in 1..Len(pipe) : Stream[i] = pipe[i]
        /\ HdrLen \in Nat \ {0}
    BY StreamType
  <2>3. Len(pipe) \in 1..Len(Stream)
    BY <2>2
  <2> QED
    BY <2>1, <2>2, <2>3
<1>2. /\ f \in Frame /\ L \in 1..Len(Rest) /\ HdrLen <= L
      /\ \A j \in 1..L : Rest[j] = [frame |-> f, pos |-> j]
      /\ Boundary(Rest, L) /\ Rest # <<>>
  <2>1. Rest # <<>>
    BY <1>1
  <2> QED
    BY <1>1, <2>1, FirstFrame
<1>3. L <= Len(pipe)
  <2>1. 1 \in 1..Len(Rest) /\ Len(pipe) \in 1..Len(Rest) /\ Rest[1].pos = 1
    <3> HIDE DEF f, L
    <3>1. 1 \in 1..L /\ 1 \in 1..Len(Rest)
      BY <1>1, <1>2
    <3>2. Rest[1] = [frame |-> f, pos |-> 1]
      BY <1>2, <3>1
    <3>3. Rest[1].pos = 1
      BY <3>2
    <3> QED
      BY <1>1, <3>1, <3>3
  <2>2. 1 - Rest[1].pos + FrameLen(Rest[1].frame) <= Len(pipe)
    BY <1>1, <2>1, FrameRest
  <2> QED
    BY <1>1, <1>2, <2>1, <2>2
<1> HIDE DEF f, L
<1>4. \A j \in 1..L : pipe[j] = [frame |-> f, pos |-> j]
  BY <1>1, <1>2, <1>3
<1>5. HeaderOf(h) = f
  <2>1. Least(HdrLen, Len(pipe)) = HdrLen /\ HdrLen \in 0..Len(pipe) /\ HdrLen \in 1..L
    BY <1>1, <1>2, <1>3 DEF Least
  <2>2. Len(h) = HdrLen /\ \A i \in 1..HdrLen : h[i] = pipe[i]
    BY <1>1, <2>1, TakeElements
  <2> HIDE DEF h
  <2>3. \A i \in 1..HdrLen : h[i] = [frame |-> f, pos |-> i]
    <3>1. \A i \in 1..HdrLen : i \in 1..L
      BY <1>1, <1>2
    <3> QED
      BY <1>4, <2>2, <3>1
  <2>4. h[1].frame = f
    <3>1. h[1] = [frame |-> f, pos |-> 1]
      BY <1>1, <2>3
    <3> QED
      BY <3>1
  <2>5. f # None
    BY <1>2, NoneAssumption
  <2> QED
    BY <2>2, <2>3, <2>4, <2>5 DEF HeaderOf
<1> QED
  BY <1>1, <1>2, <1>3, <1>4, <1>5 DEF f, L

\* The body of a message.
LEMMA BodyElements ==
    ASSUME NEW f \in Frame, f.type = "message"
    PROVE  /\ Body(f) \in Seq(Unit) /\ Len(Body(f)) = BodyLen
           /\ \A i \in 1..BodyLen : Body(f)[i] = [frame |-> f, pos |-> i + HdrLen]
<1> DEFINE u == Units(f)
<1>1. HdrLen \in Nat \ {0} /\ BodyLen \in Nat \ {0} /\ FrameLen(f) = HdrLen + BodyLen
  BY SizesAssumption DEF FrameLen
<1>2. /\ u \in Seq(Unit) /\ Len(u) = HdrLen + BodyLen
      /\ \A i \in 1..HdrLen + BodyLen : u[i] = [frame |-> f, pos |-> i]
  <2>1. u \in Seq(Unit)
    BY UnitsType
  <2>2. u = [i \in 1..HdrLen + BodyLen |-> [frame |-> f, pos |-> i]]
    BY <1>1 DEF Units
  <2> HIDE DEF u
  <2>3. DOMAIN u = 1..HdrLen + BodyLen /\ HdrLen + BodyLen \in Nat
    BY <1>1, <2>2
  <2>4. Len(u) = HdrLen + BodyLen
    BY <1>1, <2>1, <2>3, LenProperties
  <2> QED
    BY <2>1, <2>2, <2>4
<1> HIDE DEF u
<1>3. /\ Len(Drop(u, HdrLen)) = Len(u) - HdrLen
      /\ \A i \in 1..Len(u) - HdrLen : Drop(u, HdrLen)[i] = u[i + HdrLen]
  <2>1. HdrLen \in 0..Len(u)
    BY <1>1, <1>2
  <2> QED
    BY <1>2, <2>1, DropElements
<1>4. Body(f) = Drop(u, HdrLen) /\ Body(f) \in Seq(Unit)
  BY BodyType DEF Body, u
<1> HIDE DEF Body
<1>5. ASSUME NEW i \in 1..BodyLen PROVE Body(f)[i] = [frame |-> f, pos |-> i + HdrLen]
  <2>1. i \in 1..Len(u) - HdrLen /\ i + HdrLen \in 1..HdrLen + BodyLen
    BY <1>1, <1>2
  <2> QED
    BY <1>2, <1>3, <1>4, <2>1
<1> QED
  BY <1>1, <1>2, <1>3, <1>4, <1>5

\* Reading a header takes the first frame away.
LEMMA HeaderTaken ==
    ASSUME TypeInv, FrameInv, ~cut, ~mixed', NEW r \in Reactors, ReadHeader(r)
    PROVE  LET f == Rest[1].frame
           IN /\ ~mixed /\ ~Reading /\ f \in Frame /\ Rest # <<>> /\ Framed(Rest)
              /\ Rest' = Drop(Rest, FrameLen(f)) /\ Boundary(Rest, FrameLen(f))
              /\ FrameLen(f) <= Len(pipe) /\ Held' = Len(pipe) - FrameLen(f) /\ Held = Len(pipe)
              /\ Boundary(Rest, Len(pipe)) /\ FrameLen(f) \in 1..Len(Rest)
              /\ rpc' = [rpc EXCEPT ![r] = IF f.type = "message" THEN "body" ELSE "close"]
              /\ at' = [at EXCEPT ![r] = f.conn] /\ data' = [data EXCEPT ![r] = Body(f)]
              /\ f.type = "message" => BodyLen <= Len(pipe') /\ Take(pipe', BodyLen) = Body(f)
<1>1. PICK f \in Frame \cup {None} : f = HeaderOf(Take(pipe, Least(HdrLen, Len(pipe)))) /\ f # None
  <2>1. pipe \in Seq(Unit) /\ HdrLen \in Nat
    BY SizesAssumption DEF TypeInv, TypeOK
  <2>2. Least(HdrLen, Len(pipe)) \in 0..Len(pipe)
    BY <2>1 DEF Least
  <2> QED
    BY <2>1, <2>2, HeaderProperties DEF ReadHeader
<1>2. /\ pipe # <<>> /\ rpc[r] = "idle" /\ pipe' = Drop(pipe, HdrLen)
      /\ rpc' = [rpc EXCEPT ![r] = IF f.type = "message" THEN "body" ELSE "close"]
      /\ at' = [at EXCEPT ![r] = f.conn] /\ data' = [data EXCEPT ![r] = Body(f)]
      /\ mixed' = (mixed \/ Interrupts(r)) /\ UNCHANGED wbuf
  BY <1>1 DEF ReadHeader, Begin, Go, workerVars
<1>3. ~mixed /\ ~Reading
  BY <1>2 DEF Interrupts, Reading
<1>4. /\ f = Rest[1].frame /\ f \in Frame /\ FrameLen(f) <= Len(pipe) /\ HdrLen <= FrameLen(f)
      /\ \A j \in 1..FrameLen(f) : pipe[j] = [frame |-> f, pos |-> j]
      /\ Rest = Stream /\ Rest # <<>> /\ Framed(Rest) /\ Boundary(Rest, FrameLen(f))
      /\ Boundary(Rest, Len(pipe))
  BY <1>1, <1>2, <1>3, HeaderThere
<1>5. /\ pipe \in Seq(Unit) /\ wbuf \in Seq(Unit) /\ Stream \in Seq(Unit)
      /\ Len(Stream) = Len(pipe) + Len(wbuf) /\ BodyLen \in Nat \ {0} /\ HdrLen \in Nat \ {0}
  BY <1>3, StreamType
<1>6. FrameLen(f) \in Nat \ {0} /\ FrameLen(f) = IF f.type = "message" THEN HdrLen + BodyLen ELSE HdrLen
  BY <1>4, FrameLenType DEF FrameLen
<1>7. HdrLen \in 0..Len(pipe) /\ FrameLen(f) \in 1..Len(Stream)
  BY <1>4, <1>5, <1>6
<1>8. pipe' \in Seq(Unit) /\ Len(pipe') = Len(pipe) - HdrLen
      /\ \A i \in 1..Len(pipe) - HdrLen : pipe'[i] = pipe[i + HdrLen]
  BY <1>2, <1>5, <1>7, DropType, DropElements
<1>9. Stream' = Drop(Stream, HdrLen)
  BY <1>2, <1>5, <1>7, DropConcat DEF Stream
<1>10. Reading' <=> f.type = "message"
  BY <1>2, <1>3 DEF Reading, TypeInv, TypeOK
<1>11. Rest' = Drop(Rest, FrameLen(f)) /\ Held' = Len(pipe) - FrameLen(f) /\ Held = Len(pipe)
  <2>1. CASE f.type = "message"
    <3>1. Rest' = Drop(Drop(Stream, HdrLen), BodyLen)
      BY <1>9, <1>10, <2>1 DEF Rest
    <3>2. Drop(Drop(Stream, HdrLen), BodyLen) = Drop(Stream, HdrLen + BodyLen)
      BY <1>5, <1>6, <1>7, <2>1, DropDrop
    <3> QED
      BY <1>3, <1>4, <1>5, <1>6, <1>8, <1>10, <2>1, <3>1, <3>2 DEF Held
  <2>2. CASE f.type # "message"
    BY <1>3, <1>4, <1>5, <1>6, <1>8, <1>9, <1>10, <2>2 DEF Rest, Held
  <2> QED
    BY <2>1, <2>2
<1>12. ASSUME f.type = "message"
       PROVE  BodyLen <= Len(pipe') /\ Take(pipe', BodyLen) = Body(f)
  <2>1. BodyLen \in 0..Len(pipe')
    BY <1>4, <1>5, <1>6, <1>8, <1>12
  <2>2. /\ Take(pipe', BodyLen) \in Seq(Unit) /\ Len(Take(pipe', BodyLen)) = BodyLen
        /\ \A i \in 1..BodyLen : Take(pipe', BodyLen)[i] = pipe'[i]
    BY <1>8, <2>1, TakeDrop, TakeElements
  <2>3. /\ Body(f) \in Seq(Unit) /\ Len(Body(f)) = BodyLen
        /\ \A i \in 1..BodyLen : Body(f)[i] = [frame |-> f, pos |-> i + HdrLen]
    BY <1>4, <1>12, BodyElements
  <2>4. ASSUME NEW i \in 1..BodyLen PROVE pipe'[i] = [frame |-> f, pos |-> i + HdrLen]
    <3>1. i \in 1..Len(pipe) - HdrLen /\ i + HdrLen \in 1..FrameLen(f)
      BY <1>4, <1>5, <1>6, <1>8, <1>12, <2>1
    <3> QED
      BY <1>4, <1>8, <3>1
  <2>5. Take(pipe', BodyLen) = Body(f)
    <3> DEFINE s == Take(pipe', BodyLen)
               t == Body(f)
    <3>1. s \in Seq(Unit) /\ t \in Seq(Unit) /\ Len(s) = Len(t) /\ \A i \in 1..Len(s) : s[i] = t[i]
      BY <2>2, <2>3, <2>4
    <3> HIDE DEF s, t
    <3>2. s = t
      BY <3>1, SameUnits
    <3> QED
      BY <3>2 DEF s, t
  <2> QED
    BY <2>1, <2>5
<1> QED
  BY <1>2, <1>3, <1>4, <1>5, <1>7, <1>10, <1>11, <1>12

\* A step that neither moves bytes nor begins or ends the reading of a body.
LEMMA FrameKept ==
    ASSUME FrameInv, UNCHANGED <<pipe, wbuf, cut, mixed, desync>>,
           \A r \in Reactors : /\ rpc'[r] = "body" <=> rpc[r] = "body"
                               /\ rpc[r] = "body" => at'[r] = at[r] /\ data'[r] = data[r]
    PROVE  FrameInv'
<1>1. (Reading' <=> Reading) /\ Stream' = Stream
  BY DEF Reading, Stream
<1>2. Rest' = Rest /\ Held' = Held
  BY <1>1 DEF Rest, Held
<1> QED
  BY <1>2 DEF FrameInv

LEMMA FramePost ==
    ASSUME TypeInv, FrameInv, NEW f \in Frame, Post(f),
           UNCHANGED <<pipe, rpc, at, data, cut, mixed, desync>>
    PROVE  FrameInv'
<1> SUFFICES ASSUME ~cut, ~mixed PROVE FrameInv'
  BY DEF FrameInv
<1>1. Reading => BodyLen <= Len(pipe)
  BY DEF FrameInv, Reading
<1>2. Rest' = Rest \o Units(f) /\ Held' = Held
  BY <1>1, RestPost
<1>3. Rest \in Seq(Unit) /\ Held \in 0..Len(pipe) /\ Len(Rest) = Held + Len(wbuf) /\ wbuf \in Seq(Unit)
      /\ pipe \in Seq(Unit)
  BY <1>1, StreamType
<1>4. Framed(Rest')
  BY <1>2, <1>3, FramedAppend DEF FrameInv
<1>5. Boundary(Rest', Held')
  <2> DEFINE u == Units(f)
  <2>1. u \in Seq(Unit) /\ Held \in 0..Len(Rest) /\ Boundary(Rest, Held)
    BY <1>3, UnitsType DEF FrameInv
  <2> HIDE DEF u
  <2>2. /\ Len(Rest \o u) = Len(Rest) + Len(u)
        /\ \A i \in 1..Len(Rest) + Len(u) :
             (Rest \o u)[i] = IF i <= Len(Rest) THEN Rest[i] ELSE u[i - Len(Rest)]
    BY <1>3, <2>1, ConcatProperties
  <2>3. Held \in 0..Len(Rest \o u) /\ (Held > 0 => (Rest \o u)[Held] = Rest[Held])
    <3>1. Held > 0 => Held \in 1..Len(Rest) + Len(u) /\ Held <= Len(Rest)
      BY <1>3, <2>1
    <3> QED
      BY <1>3, <2>1, <2>2, <3>1
  <2>4. Rest' = Rest \o u
    BY <1>2 DEF u
  <2> QED
    BY <1>2, <2>1, <2>3, <2>4 DEF Boundary
<1> QED
  BY <1>4, <1>5 DEF FrameInv

LEMMA FrameWrite ==
    ASSUME TypeInv, FrameInv, WorkerWrite
    PROVE  FrameInv'
<1>0. UNCHANGED <<rpc, at, data, mixed, desync>> /\ cut' \in BOOLEAN /\ cut \in BOOLEAN
  BY DEF WorkerWrite, threadVars, histVars, TypeInv, TypeOK
<1>r. ~cut /\ ~mixed => (Reading => BodyLen <= Len(pipe))
  BY DEF FrameInv, Reading
<1>c. ~cut' => ~cut
  BY <1>0 DEF WorkerWrite
<1> SUFFICES ASSUME ~cut', ~cut, ~mixed PROVE FrameInv'
  BY <1>0, <1>c DEF FrameInv
<1>1. PICK n \in 1..Len(wbuf) :
        /\ Rest' = Rest /\ Held' = Held + n /\ (Reading' <=> Reading)
        /\ Len(pipe') = Len(pipe) + n /\ pipe' = pipe \o Take(wbuf, n)
        /\ cut' = (cut \/ wbuf[n].pos < FrameLen(wbuf[n].frame))
  BY <1>r, RestWrite
<1>2. /\ Rest \in Seq(Unit) /\ Held \in 0..Len(pipe) /\ Len(Rest) = Held + Len(wbuf)
      /\ \A i \in 1..Len(wbuf) : Rest[Held + i] = wbuf[i]
      /\ pipe \in Seq(Unit) /\ wbuf \in Seq(Unit) /\ BodyLen \in Nat
  BY <1>r, StreamType
<1>3. Boundary(Rest, Held + n)
  <2>1. Held + n \in 1..Len(Rest)
    BY <1>2
  <2>2. Rest[Held + n] = wbuf[n]
    BY <1>2
  <2>3. ~(wbuf[n].pos < FrameLen(wbuf[n].frame))
    BY <1>1
  <2>4. wbuf[n].frame \in Frame /\ wbuf[n].pos \in 1..FrameLen(wbuf[n].frame)
    <3>1. Framed(Rest)
      BY DEF FrameInv
    <3>2. Rest[Held + n].frame \in Frame /\ Rest[Held + n].pos \in 1..FrameLen(Rest[Held + n].frame)
      BY <2>1, <3>1 DEF Framed
    <3> QED
      BY <2>2, <3>2
  <2>5. wbuf[n].pos = FrameLen(wbuf[n].frame)
    <3> DEFINE p == wbuf[n].pos
               f == wbuf[n].frame
    <3> HIDE DEF p, f
    <3>1. FrameLen(f) \in Nat /\ p \in 1..FrameLen(f) /\ ~(p < FrameLen(f))
      BY <2>3, <2>4, FrameLenType DEF p, f
    <3>2. p = FrameLen(f)
      BY <3>1
    <3> QED
      BY <3>2 DEF p, f
  <2> QED
    BY <2>1, <2>2, <2>5 DEF Boundary, EndsFrame
<1>4. ASSUME NEW r \in Reactors, rpc[r] = "body"
      PROVE  BodyLen <= Len(pipe') /\ Take(pipe', BodyLen) = Take(pipe, BodyLen)
  <2>1. BodyLen \in 0..Len(pipe)
    BY <1>2, <1>r, <1>4 DEF Reading
  <2>2. Take(wbuf, n) \in Seq(Unit)
    BY <1>2, TakeDrop
  <2>3. Take(pipe \o Take(wbuf, n), BodyLen) = Take(pipe, BodyLen)
    BY <1>2, <2>1, <2>2, TakeConcat
  <2> QED
    BY <1>1, <1>2, <2>1, <2>3
<1>5. Framed(Rest')
  BY <1>1 DEF FrameInv
<1> QED
  BY <1>0, <1>1, <1>3, <1>4, <1>5 DEF FrameInv

LEMMA FrameHeader ==
    ASSUME TypeInv, FrameInv, NEW r \in Reactors, ReadHeader(r) \/ ReadGarbage(r)
    PROVE  FrameInv'
<1>1. CASE ReadHeader(r)
  <2>1. UNCHANGED <<cut, desync>>
    BY <1>1 DEF ReadHeader, workerVars
  <2> SUFFICES ASSUME ~cut, ~mixed' PROVE FrameInv'
    BY <2>1 DEF FrameInv
  <2> DEFINE f == Rest[1].frame
             L == FrameLen(f)
  <2>2. /\ ~mixed /\ ~Reading /\ f \in Frame /\ Rest # <<>> /\ Framed(Rest)
        /\ Rest' = Drop(Rest, L) /\ Boundary(Rest, L)
        /\ L <= Len(pipe) /\ Held' = Len(pipe) - L /\ Held = Len(pipe)
        /\ Boundary(Rest, Len(pipe)) /\ L \in 1..Len(Rest)
        /\ rpc' = [rpc EXCEPT ![r] = IF f.type = "message" THEN "body" ELSE "close"]
        /\ at' = [at EXCEPT ![r] = f.conn] /\ data' = [data EXCEPT ![r] = Body(f)]
        /\ f.type = "message" => BodyLen <= Len(pipe') /\ Take(pipe', BodyLen) = Body(f)
    BY <1>1, HeaderTaken
  <2> HIDE DEF f, L
  <2>3. pipe \in Seq(Unit) /\ Rest \in Seq(Unit) /\ Len(pipe) \in 0..Len(Rest)
    <3>1. pipe \in Seq(Unit) /\ Rest \in Seq(Unit) /\ Len(Rest) = Held + Len(wbuf) /\ wbuf \in Seq(Unit)
      BY <2>2, StreamType
    <3> QED
      BY <2>2, <3>1
  <2>4. Framed(Rest') /\ Boundary(Rest', Held')
    <3>1. L \in 0..Len(Rest) /\ Len(pipe) \in L..Len(Rest)
      BY <2>2, <2>3
    <3>2. /\ Framed(Drop(Rest, L))
          /\ \A m \in L..Len(Rest) : Boundary(Rest, m) => Boundary(Drop(Rest, L), m - L)
      BY <2>2, <2>3, <3>1, FramedDrop
    <3> QED
      BY <2>2, <3>1, <3>2
  <2>5. \A q \in Reactors : rpc'[q] = "body" => q = r /\ f.type = "message"
    BY <2>2 DEF Reading, TypeInv, TypeOK
  <2>6. at'[r] = f.conn /\ data'[r] = Body(f)
    BY <2>2 DEF TypeInv, TypeOK
  <2>7. f.type = "message" => f.num \in 0..MaxMsgs /\ f = MessageTo(f.conn, f.num)
    BY <2>2 DEF Frame, MessageTo
  <2>8. ~desync'
    BY <2>1, <2>2 DEF FrameInv
  <2> QED
    BY <2>2, <2>4, <2>5, <2>6, <2>7, <2>8 DEF FrameInv
<1>2. CASE ReadGarbage(r)
  <2>1. /\ UNCHANGED cut /\ mixed' = (mixed \/ Interrupts(r)) /\ rpc[r] = "idle" /\ pipe # <<>>
        /\ HeaderOf(Take(pipe, Least(HdrLen, Len(pipe)))) = None
    BY <1>2 DEF ReadGarbage, Begin, workerVars
  <2> SUFFICES ASSUME ~cut, ~mixed' PROVE FALSE
    BY <2>1 DEF FrameInv
  <2>2. ~mixed /\ ~Reading
    BY <2>1 DEF Interrupts, Reading
  <2> QED
    BY <2>1, <2>2, HeaderThere, NoneAssumption
<1> QED
  BY <1>1, <1>2

\* A reactor reads the body of the frame whose header it has read.
LEMMA BodyTaken ==
    ASSUME TypeInv, FrameInv, ~cut, ~mixed', NEW r \in Reactors, ReadBody(r)
    PROVE  /\ ~mixed /\ ~Reading' /\ Rest' = Rest /\ Held' = Held /\ pipe # <<>>
           /\ data' = data /\ desync' = desync
           /\ \A q \in Reactors : q # r => rpc[q] # "body" /\ rpc'[q] = rpc[q]
           /\ \E n \in 0..MaxMsgs : data[r] = Body(MessageTo(at[r], n))
<1>1. PICK k \in BodyRead(r) :
        /\ rpc[r] = "body" /\ pipe' = Drop(pipe, k) /\ data' = [data EXCEPT ![r] = Take(pipe, k)]
        /\ desync' = (desync \/ Take(pipe, k) # data[r])
        /\ mixed' = (mixed \/ Interrupts(r)) /\ UNCHANGED wbuf
        /\ \E p \in {"idle", "append"} : \E c : Go(r, p, c)
  BY DEF ReadBody, workerVars
<1>2. ~mixed /\ \A q \in Reactors : q # r => rpc[q] # "body"
  BY <1>1 DEF Interrupts
<1>3. /\ BodyLen <= Len(pipe) /\ Take(pipe, BodyLen) = data[r] /\ Reading
      /\ \E n \in 0..MaxMsgs : data[r] = Body(MessageTo(at[r], n))
  BY <1>1, <1>2 DEF FrameInv, Reading
<1>4. /\ pipe \in Seq(Unit) /\ wbuf \in Seq(Unit) /\ BodyLen \in Nat \ {0}
      /\ BodyLen \in 0..Len(pipe) /\ pipe # <<>>
  <2>1. pipe \in Seq(Unit) /\ wbuf \in Seq(Unit) /\ BodyLen \in Nat \ {0}
    BY <1>3, StreamType
  <2> QED
    BY <1>3, <2>1
<1>5. k = BodyLen
  <2>1. Len(data[r]) = BodyLen
    BY <1>3, <1>4, TakeDrop
  <2>2. data[r] # <<>>
    BY <1>4, <2>1
  <2> QED
    BY <1>1, <1>3, <1>4, <2>2 DEF BodyRead, Least
<1>6. data' = data /\ desync' = desync
  <2>1. data' = [data EXCEPT ![r] = data[r]] /\ data \in [Reactors -> Seq(Unit)]
    BY <1>1, <1>3, <1>5 DEF TypeInv, TypeOK
  <2>2. desync' = (desync \/ FALSE) /\ desync \in BOOLEAN
    BY <1>1, <1>3, <1>5 DEF TypeInv, TypeOK
  <2>3. data' = data
    BY <2>1
  <2>4. desync' = desync
    BY <2>2
  <2> QED
    BY <2>3, <2>4
<1>7. /\ rpc'[r] # "body" /\ \A q \in Reactors : q # r => rpc'[q] = rpc[q]
  BY <1>1 DEF Go, TypeInv, TypeOK
<1>8. ~Reading'
  BY <1>2, <1>7 DEF Reading
<1>9. Drop(pipe, BodyLen) \o wbuf = Drop(pipe \o wbuf, BodyLen) /\ Len(Drop(pipe, BodyLen)) = Len(pipe) - BodyLen
  BY <1>4, DropConcat, DropElements
<1>10. Rest' = Rest /\ Held' = Held
  BY <1>1, <1>3, <1>5, <1>8, <1>9 DEF Rest, Held, Stream
<1> QED
  BY <1>2, <1>3, <1>4, <1>6, <1>7, <1>8, <1>10

LEMMA FrameBody ==
    ASSUME TypeInv, FrameInv, NEW r \in Reactors, ReadBody(r)
    PROVE  FrameInv'
<1>1. UNCHANGED cut
  BY DEF ReadBody, workerVars
<1> SUFFICES ASSUME ~cut, ~mixed' PROVE FrameInv'
  BY <1>1 DEF FrameInv
<1>2. ~mixed /\ ~Reading' /\ Rest' = Rest /\ Held' = Held /\ desync' = desync
  BY BodyTaken
<1> QED
  BY <1>2 DEF FrameInv, Reading

\* The other steps of a handler.
LEMMA FrameHandler ==
    ASSUME TypeInv, FrameInv, NEW r \in Reactors,
           \/ AppendStart(r) \/ AppendStore(r) \/ TestClose(r) \/ MarkClosing(r) \/ Trim(r)
           \/ \E c \in Conns : Write(r, c)
    PROVE  FrameInv'
<1>0. rpc \in [Reactors -> {"idle", "body", "append", "store", "close", "mark", "trim"}]
      /\ at \in [Reactors -> Conns \cup {None}] /\ data \in [Reactors -> Seq(Unit)]
  BY DEF TypeInv, TypeOK
<1>1. UNCHANGED <<pipe, wbuf, cut, mixed, desync>> /\ rpc[r] # "body"
  BY DEF AppendStart, AppendStore, TestClose, MarkClosing, Trim, Write, FlushNothing, Flush, Begin,
         workerVars, histVars
<1>2. /\ \E p : p # "body" /\ (rpc' = rpc \/ rpc' = [rpc EXCEPT ![r] = p])
      /\ \E c : at' = at \/ at' = [at EXCEPT ![r] = c]
      /\ \E s : data' = data \/ data' = [data EXCEPT ![r] = s]
  <2>1. CASE AppendStart(r)
    BY <2>1 DEF AppendStart
  <2>2. CASE AppendStore(r)
    BY <2>2 DEF AppendStore, Go
  <2>3. CASE TestClose(r)
    BY <2>3 DEF TestClose, Go
  <2>4. CASE MarkClosing(r)
    BY <2>4 DEF MarkClosing, Go
  <2>5. CASE Trim(r)
    BY <2>5 DEF Trim, Go
  <2>6. ASSUME NEW c \in Conns, FlushNothing(r, c)
        PROVE  rpc' = rpc /\ at' = at /\ data' = data
    BY <2>6 DEF FlushNothing, threadVars
  <2>7. ASSUME NEW c \in Conns, Flush(r, c)
        PROVE  /\ rpc' = [rpc EXCEPT ![r] = "trim"]
               /\ \E b : at' = [at EXCEPT ![r] = b]
               /\ \E s : data' = [data EXCEPT ![r] = s]
    BY <2>7 DEF Flush, Go
  <2> QED
    BY <2>1, <2>2, <2>3, <2>4, <2>5, <2>6, <2>7 DEF Write
<1>3. \A q \in Reactors : /\ rpc'[q] = "body" <=> rpc[q] = "body"
                          /\ rpc[q] = "body" => at'[q] = at[q] /\ data'[q] = data[q]
  BY <1>0, <1>1, <1>2
<1> QED
  BY <1>1, <1>3, FrameKept

LEMMA StepFrame == TypeInv /\ FrameInv /\ [Next]_vars => FrameInv'
<1> SUFFICES ASSUME TypeInv, FrameInv, [Next]_vars PROVE FrameInv'
  OBVIOUS
<1>1. ASSUME NEW c \in Conns, Reply(c) \/ Close(c) PROVE FrameInv'
  <2>1. \E f \in Frame : Post(f)
    <3>1. CASE Reply(c)
      <4>1. sent[c] + 1 \in 0..MaxMsgs
        BY <3>1, SizesAssumption DEF TypeInv, TypeOK, Reply
      <4>2. [conn |-> c, type |-> "message", num |-> sent[c] + 1] \in Frame
        BY <4>1, WorkerFrames
      <4> QED
        BY <3>1, <4>2 DEF Reply
    <3>2. CASE Close(c)
      <4>1. [conn |-> c, type |-> "close", num |-> 0] \in Frame
        BY SizesAssumption DEF Frame
      <4> QED
        BY <3>2, <4>1 DEF Close
    <3> QED
      BY <1>1, <3>1, <3>2
  <2>2. UNCHANGED <<pipe, rpc, at, data, cut, mixed, desync>>
    BY <1>1 DEF Reply, Close, threadVars, histVars
  <2> QED
    BY <2>1, <2>2, FramePost
<1>2. CASE WorkerWrite
  BY <1>2, FrameWrite
<1>3. ASSUME NEW r \in Reactors, Read(r) \/ Trim(r) \/ \E c \in Conns : Write(r, c)
      PROVE  FrameInv'
  BY <1>3, FrameHeader, FrameBody, FrameHandler DEF Read
<1>4. CASE UNCHANGED vars
  BY <1>4, FrameKept DEF vars, workerVars, threadVars, histVars
<1> QED
  BY <1>1, <1>2, <1>3, <1>4 DEF Next

LEMMA InitFrame == Init => FrameInv
<1> SUFFICES ASSUME Init PROVE FrameInv
  OBVIOUS
<1>1. \A r \in Reactors : rpc[r] # "body"
  BY DEF Init
<1>2. Rest = <<>> /\ Held = 0
  BY <1>1 DEF Init, Rest, Held, Stream, Reading
<1>3. Framed(Rest) /\ Boundary(Rest, Held)
  BY <1>2 DEF Framed, Boundary
<1> QED
  BY <1>1, <1>3 DEF Init, FrameInv

\* A reactor takes bytes for a header or a body that they are not only after a write()
\* of the worker stopped inside a frame, or after two reactors read the socketpair
\* between each other's header and body (aeserver.c:604-653).
THEOREM DesyncHasCauseCorrect == Spec => []DesyncHasCause
<1>1. TypeInv /\ FrameInv => DesyncHasCause
  BY DEF FrameInv, DesyncHasCause
<1> QED
  BY <1>1, InitType, StepType, InitFrame, StepFrame, PTL DEF Spec

-----------------------------------------------------------------------------
(* The bytes of a connection, from the worker to the client.               *)

\* The units of k message bodies.
Bytes(k) == k * BodyLen

\* What is owed to a client is the bodies of the messages posted to it, in order.
OwedRight(c) ==
    /\ Len(owed[c]) = Bytes(sent[c])
    /\ \A k \in 0..sent[c] - 1 :
         Take(owed[c], Bytes(k + 1)) = Take(owed[c], Bytes(k)) \o Body(MessageTo(c, k + 1))

\* A frame of connection c begins at the i-th unit of s.
Begins(s, i, c) == s[i].pos = 1 /\ s[i].frame.conn = c

\* Of the n messages posted to c, the d first have left s; the others are in s in order,
\* and then the close if there is one.
Queued(s, c, d, n, closed) ==
    /\ \A i \in 1..Len(s) : Begins(s, i, c) =>
         \/ s[i].frame.type = "close" /\ closed
         \/ \E k \in d + 1..n : s[i].frame = MessageTo(c, k)
    /\ \A i, j \in 1..Len(s) : i < j /\ Begins(s, i, c) /\ Begins(s, j, c) =>
         /\ s[i].frame.type = "message"
         /\ s[j].frame.type = "message" => s[i].frame.num < s[j].frame.num
    /\ \A k \in d + 1..n : \E i \in 1..Len(s) : s[i].pos = 1 /\ s[i].frame = MessageTo(c, k)

NoFrames(s, c) == \A i \in 1..Len(s) : ~Begins(s, i, c)

Adding == {"body", "append", "store"}

\* The first d messages to c are at the client, in the connection's send_buffer, or in
\* the hands of a reactor that appends to it or has written from it.
Moved(c, d) ==
    /\ (\A r \in Reactors : rpc[r] \in Adding \cup {"trim"} => at[r] # c) =>
         client[c] \o out[c] = Take(owed[c], Bytes(d))
    /\ \A r \in Reactors : rpc[r] \in Adding /\ at[r] = c =>
         client[c] \o (out[c] \o data[r]) = Take(owed[c], Bytes(d))
    /\ \A r \in Reactors : rpc[r] = "trim" /\ at[r] = c =>
         client[c] \o Drop(out[c], Len(data[r])) = Take(owed[c], Bytes(d))

BytesRight(c) ==
    \E d \in 0..sent[c] :
      /\ Queued(Rest, c, d, sent[c], c \in closing)
      /\ c \notin freed => Moved(c, d)

\* A connection is freed once all is sent that the worker will ever post to it, and an
\* HTTP connection with its first reply; what waits for the client is watched.
EndRight(c) ==
    /\ disable[c] = 1 <=> c \in freed
    /\ c \in freed => out[c] = <<>> /\ IsPrefix(client[c], owed[c])
    /\ c \in freed \ Http => client[c] = owed[c]
    /\ \/ c \in freed \ Http
       \/ disable[c] = 2
       \/ \E r \in Reactors : rpc[r] \in {"close", "mark"} /\ at[r] = c
       => c \in closing /\ NoFrames(Rest, c)
    /\ \/ out[c] # <<>>
       \/ \E r \in Reactors : rpc[r] \in {"append", "store"} /\ at[r] = c
       => \E q \in Reactors : c \in watched[q]

HandlerRight(r) ==
    /\ rpc[r] \in {"append", "store", "mark", "trim"} => at[r] \notin freed
    /\ rpc[r] \in {"body", "close"} => at[r] \notin freed \ Http
    /\ rpc[r] = "store" => seen[r] = out[at[r]]

Serial == \A r, q \in Reactors : rpc[r] # "idle" /\ rpc[q] # "idle" => r = q

FlowRight ==
    /\ \A c \in Conns : BytesRight(c) /\ EndRight(c)
    /\ \A r \in Reactors : HandlerRight(r)
    /\ stale \subseteq Http

\* Until the handlers of two reactors overlap or a frame is cut, every byte that the
\* worker posts to a connection is accounted for.
FlowInv ==
    /\ \A c \in Conns : OwedRight(c)
    /\ mixed => overlap
    /\ ~overlap => Serial
    /\ ~overlap /\ ~cut => FlowRight

-----------------------------------------------------------------------------
(* What is queued for a connection.                                        *)

\* The frames of s \o Units(f) are those of s, and f.
LEMMA BeginsPost ==
    ASSUME NEW s \in Seq(Unit), NEW f \in Frame
    PROVE  LET t == s \o Units(f)
           IN /\ \A i \in 1..Len(s) : i \in 1..Len(t) /\ t[i] = s[i]
              /\ Len(s) + 1 \in 1..Len(t)
              /\ t[Len(s) + 1] = [frame |-> f, pos |-> 1]
              /\ \A i \in 1..Len(t) : t[i].pos = 1 => i \in 1..Len(s) \/ i = Len(s) + 1
<1> DEFINE u == Units(f)
           t == s \o u
           L == FrameLen(f)
<1>1. L \in Nat \ {0} /\ u \in Seq(Unit)
  BY FrameLenType, UnitsType
<1>2. u = [i \in 1..L |-> [frame |-> f, pos |-> i]]
  BY DEF Units
<1> HIDE DEF u, L
<1>3. Len(u) = L /\ \A i \in 1..L : u[i] = [frame |-> f, pos |-> i]
  BY <1>1, <1>2
<1>4. /\ t \in Seq(Unit) /\ Len(t) = Len(s) + L
      /\ \A i \in 1..Len(s) + L : t[i] = IF i <= Len(s) THEN s[i] ELSE u[i - Len(s)]
  BY <1>1, <1>3, ConcatProperties
<1> HIDE DEF t
<1>5. ASSUME NEW i \in 1..Len(s) PROVE i \in 1..Len(t) /\ t[i] = s[i]
  <2>1. i \in 1..Len(s) + L /\ i <= Len(s)
    BY <1>1
  <2> QED
    BY <1>4, <2>1
<1>6. ASSUME NEW i \in 1..Len(t), i > Len(s) PROVE t[i] = [frame |-> f, pos |-> i - Len(s)]
  <2>1. i \in 1..Len(s) + L /\ ~(i <= Len(s)) /\ i - Len(s) \in 1..L
    BY <1>1, <1>4, <1>6
  <2> QED
    BY <1>3, <1>4, <2>1
<1>7. /\ Len(s) + 1 \in 1..Len(t)
      /\ t[Len(s) + 1] = [frame |-> f, pos |-> 1]
  <2>1. Len(s) + 1 \in 1..Len(t) /\ Len(s) + 1 > Len(s) /\ Len(s) + 1 - Len(s) = 1
    BY <1>1, <1>4
  <2> QED
    BY <1>6, <2>1
<1>8. ASSUME NEW i \in 1..Len(t), t[i].pos = 1 PROVE i \in 1..Len(s) \/ i = Len(s) + 1
  <2>1. CASE i > Len(s)
    <3>1. t[i] = [frame |-> f, pos |-> i - Len(s)]
      BY <1>6, <2>1
    <3>2. t[i].pos = i - Len(s)
      BY <3>1
    <3>3. i \in Nat /\ Len(s) \in Nat
      OBVIOUS
    <3> QED
      BY <1>8, <3>2, <3>3
  <2>2. CASE ~(i > Len(s))
    BY <2>2
  <2> QED
    BY <2>1, <2>2
<1> QED
  BY <1>5, <1>7, <1>8 DEF t, u

\* The frames of what follows the first frame.
LEMMA BeginsTake ==
    ASSUME NEW s \in Seq(Unit), Framed(s), s # <<>>
    PROVE  LET f == s[1].frame
               L == FrameLen(f)
               t == Drop(s, L)
           IN /\ \A i \in 1..Len(t) : i + L \in 2..Len(s) /\ t[i] = s[i + L]
              /\ \A i \in 1..Len(s) : s[i].pos = 1 => i = 1 \/ (i - L \in 1..Len(t) /\ t[i - L] = s[i])
              /\ 1 \in 1..Len(s) /\ s[1].pos = 1 /\ f \in Frame
<1> DEFINE f == s[1].frame
           L == FrameLen(f)
           t == Drop(s, L)
<1>1. /\ f \in Frame /\ L \in 1..Len(s)
      /\ \A j \in 1..L : s[j] = [frame |-> f, pos |-> j]
  BY FirstFrame
<1> HIDE DEF f, L
<1>2. t \in Seq(Unit) /\ Len(t) = Len(s) - L /\ \A i \in 1..Len(s) - L : t[i] = s[i + L]
  <2>1. L \in 0..Len(s) /\ L \in Nat
    BY <1>1
  <2>2. Drop(s, L) \in Seq(Unit)
    BY <2>1, DropType
  <2>3. /\ Len(Drop(s, L)) = Len(s) - L
        /\ \A i \in 1..Len(s) - L : Drop(s, L)[i] = s[i + L]
    BY <2>1, DropElements
  <2> QED
    BY <2>2, <2>3
<1> HIDE DEF t
<1>3. ASSUME NEW i \in 1..Len(t) PROVE i + L \in 2..Len(s) /\ t[i] = s[i + L]
  BY <1>1, <1>2
<1>4. ASSUME NEW i \in 1..Len(s), s[i].pos = 1
      PROVE  i = 1 \/ (i - L \in 1..Len(t) /\ t[i - L] = s[i])
  <2>1. CASE i <= L
    <3>1. i \in 1..L
      BY <2>1, <1>1
    <3>2. s[i] = [frame |-> f, pos |-> i]
      BY <1>1, <3>1
    <3>3. s[i].pos = i
      BY <3>2
    <3> QED
      BY <1>4, <3>3
  <2>2. CASE ~(i <= L)
    <3>1. i - L \in 1..Len(s) - L /\ i - L + L = i
      BY <1>1, <2>2
    <3> QED
      BY <1>2, <3>1
  <2> QED
    BY <2>1, <2>2
<1>5. 1 \in 1..Len(s) /\ s[1].pos = 1
  <2>1. 1 \in 1..L /\ 1 \in 1..Len(s)
    BY <1>1
  <2>2. s[1] = [frame |-> f, pos |-> 1]
    BY <1>1, <2>1
  <2> QED
    BY <2>1, <2>2
<1> QED
  BY <1>1, <1>3, <1>4, <1>5 DEF f, L, t

\* What is posted for another connection.
LEMMA QueuedOther ==
    ASSUME NEW s \in Seq(Unit), NEW f \in Frame, NEW c \in Conns, f.conn # c
    PROVE  /\ \A d, n \in Nat : \A closed \in BOOLEAN :
                Queued(s, c, d, n, closed) => Queued(s \o Units(f), c, d, n, closed)
           /\ NoFrames(s, c) => NoFrames(s \o Units(f), c)
<1> DEFINE t == s \o Units(f)
           m == Len(s) + 1
<1>1. /\ \A i \in 1..Len(s) : i \in 1..Len(t) /\ t[i] = s[i]
      /\ t[m] = [frame |-> f, pos |-> 1]
      /\ \A i \in 1..Len(t) : t[i].pos = 1 => i \in 1..Len(s) \/ i = m
  BY BeginsPost
<1>2. t[m].frame = f
  BY <1>1
<1> HIDE DEF t, m
<1>3. \A i \in 1..Len(t) : Begins(t, i, c) => i \in 1..Len(s) /\ t[i] = s[i] /\ Begins(s, i, c)
  BY <1>1, <1>2 DEF Begins
<1>4. NoFrames(s, c) => NoFrames(t, c)
  BY <1>3 DEF NoFrames
<1>5. ASSUME NEW d \in Nat, NEW n \in Nat, NEW closed \in BOOLEAN, Queued(s, c, d, n, closed)
      PROVE  Queued(t, c, d, n, closed)
  <2>1. ASSUME NEW i \in 1..Len(t), Begins(t, i, c)
        PROVE  \/ t[i].frame.type = "close" /\ closed
               \/ \E k \in d + 1..n : t[i].frame = MessageTo(c, k)
    BY <1>3, <1>5, <2>1 DEF Queued
  <2>2. ASSUME NEW i \in 1..Len(t), NEW j \in 1..Len(t), i < j, Begins(t, i, c), Begins(t, j, c)
        PROVE  /\ t[i].frame.type = "message"
               /\ t[j].frame.type = "message" => t[i].frame.num < t[j].frame.num
    <3>1. /\ i \in 1..Len(s) /\ t[i] = s[i] /\ Begins(s, i, c)
          /\ j \in 1..Len(s) /\ t[j] = s[j] /\ Begins(s, j, c)
      BY <1>3, <2>2
    <3> QED
      BY <1>5, <2>2, <3>1 DEF Queued
  <2>3. ASSUME NEW k \in d + 1..n PROVE \E i \in 1..Len(t) : t[i].pos = 1 /\ t[i].frame = MessageTo(c, k)
    <3>1. PICK i \in 1..Len(s) : s[i].pos = 1 /\ s[i].frame = MessageTo(c, k)
      BY <1>5 DEF Queued
    <3> QED
      BY <1>1, <3>1
  <2> QED
    BY <2>1, <2>2, <2>3 DEF Queued
<1> QED
  BY <1>4, <1>5 DEF t

\* A message or a close that is posted for c.
LEMMA QueuedPost ==
    ASSUME NEW s \in Seq(Unit), NEW c \in Conns, NEW d \in Nat, NEW n \in Nat, d <= n,
           Queued(s, c, d, n, FALSE)
    PROVE  /\ MessageTo(c, n + 1) \in Frame =>
                Queued(s \o Units(MessageTo(c, n + 1)), c, d, n + 1, FALSE)
           /\ \A f \in Frame : f.conn = c /\ f.type = "close" =>
                Queued(s \o Units(f), c, d, n, TRUE)
<1>1. ASSUME NEW f \in Frame, f.conn = c, NEW p \in Nat, NEW closed \in BOOLEAN,
             \/ f = MessageTo(c, n + 1) /\ p = n + 1
             \/ f.type = "close" /\ p = n /\ closed
      PROVE  Queued(s \o Units(f), c, d, p, closed)
  <2> DEFINE t == s \o Units(f)
             m == Len(s) + 1
  <2>1. /\ \A i \in 1..Len(s) : i \in 1..Len(t) /\ t[i] = s[i]
        /\ m \in 1..Len(t) /\ t[m] = [frame |-> f, pos |-> 1]
        /\ \A i \in 1..Len(t) : t[i].pos = 1 => i \in 1..Len(s) \/ i = m
    BY BeginsPost
  <2>2. t[m].frame = f /\ t[m].pos = 1 /\ \A i \in 1..Len(s) : i < m
    BY <2>1
  <2>3. /\ n + 1 \in d + 1..n + 1 /\ \A k \in d + 1..n : k \in d + 1..p
        /\ \A k \in d + 1..p : k \in d + 1..n \/ (k = n + 1 /\ p = n + 1)
    BY <1>1
  <2> HIDE DEF t, m
  <2>4. \A i \in 1..Len(t) : Begins(t, i, c) =>
           \/ i \in 1..Len(s) /\ t[i] = s[i] /\ Begins(s, i, c)
           \/ i = m
    BY <2>1 DEF Begins
  <2>5. \A i \in 1..Len(s) : Begins(s, i, c) => \E k \in d + 1..n : s[i].frame = MessageTo(c, k)
    BY <1>1 DEF Queued
  <2>7. f.type = "message" => p = n + 1 /\ f.num = n + 1 /\ f = MessageTo(c, n + 1)
    BY <1>1 DEF MessageTo
  <2>8. ASSUME NEW i \in 1..Len(t), Begins(t, i, c)
        PROVE  \/ t[i].frame.type = "close" /\ closed
               \/ \E k \in d + 1..p : t[i].frame = MessageTo(c, k)
    <3>1. CASE i = m
      BY <1>1, <2>2, <2>3, <3>1
    <3>2. CASE i # m
      BY <2>3, <2>4, <2>5, <2>8, <3>2
    <3> QED
      BY <3>1, <3>2
  <2>9. ASSUME NEW i \in 1..Len(t), NEW j \in 1..Len(t), i < j, Begins(t, i, c), Begins(t, j, c)
        PROVE  /\ t[i].frame.type = "message"
               /\ t[j].frame.type = "message" => t[i].frame.num < t[j].frame.num
    <3>1. i # m
      BY <2>2, <2>4, <2>9
    <3>2. i \in 1..Len(s) /\ t[i] = s[i] /\ Begins(s, i, c)
      BY <2>4, <2>9, <3>1
    <3>3. s[i].frame.type = "message" /\ s[i].frame.num \in d + 1..n
      <4>1. PICK k \in d + 1..n : s[i].frame = MessageTo(c, k)
        BY <2>5, <3>2
      <4>2. s[i].frame.type = "message" /\ s[i].frame.num = k
        BY <4>1 DEF MessageTo
      <4> QED
        BY <4>2
    <3>4. CASE j = m
      BY <2>2, <2>7, <3>2, <3>3, <3>4
    <3>5. CASE j # m
      <4>1. j \in 1..Len(s) /\ t[j] = s[j] /\ Begins(s, j, c)
        BY <2>4, <2>9, <3>5
      <4> QED
        BY <1>1, <2>9, <3>2, <4>1 DEF Queued
    <3> QED
      BY <3>4, <3>5
  <2>10. ASSUME NEW k \in d + 1..p PROVE \E i \in 1..Len(t) : t[i].pos = 1 /\ t[i].frame = MessageTo(c, k)
    <3>1. CASE k \in d + 1..n
      <4>1. PICK i \in 1..Len(s) : s[i].pos = 1 /\ s[i].frame = MessageTo(c, k)
        BY <3>1 DEF Queued
      <4> QED
        BY <2>1, <4>1
    <3>2. CASE k = n + 1 /\ p = n + 1
      <4>1. f = MessageTo(c, n + 1)
        BY <1>1, <3>2
      <4> QED
        BY <2>1, <2>2, <3>2, <4>1
    <3> QED
      BY <2>3, <3>1, <3>2
  <2> QED
    BY <2>8, <2>9, <2>10 DEF Queued, t
<1>2. ASSUME NEW f \in Frame, f = MessageTo(c, n + 1)
      PROVE  Queued(s \o Units(f), c, d, n + 1, FALSE)
  <2>1. f.conn = c
    BY <1>2 DEF MessageTo
  <2>2. n + 1 \in Nat /\ FALSE \in BOOLEAN
    OBVIOUS
  <2> DEFINE p == n + 1
  <2>3. f = MessageTo(c, n + 1) /\ p = n + 1 /\ p \in Nat
    BY <1>2, <2>2
  <2> HIDE DEF p
  <2>4. Queued(s \o Units(f), c, d, p, FALSE)
    BY <1>1, <2>1, <2>2, <2>3
  <2> QED
    BY <2>3, <2>4
<1>3. \A f \in Frame : f.conn = c /\ f.type = "close" => Queued(s \o Units(f), c, d, n, TRUE)
  BY <1>1
<1> QED
  BY <1>2, <1>3

\* The first frame of s is taken away.
LEMMA QueuedTake ==
    ASSUME NEW s \in Seq(Unit), Framed(s), s # <<>>, NEW c \in Conns,
           NEW d \in Nat, NEW n \in Nat, d <= n, NEW closed \in BOOLEAN, Queued(s, c, d, n, closed)
    PROVE  LET f == s[1].frame
               t == Drop(s, FrameLen(f))
           IN /\ f.conn # c => Queued(t, c, d, n, closed)
              /\ f.conn = c /\ f.type = "message" =>
                   d < n /\ f = MessageTo(c, d + 1) /\ Queued(t, c, d + 1, n, closed)
              /\ f.conn = c /\ f.type # "message" =>
                   d = n /\ f.type = "close" /\ closed /\ Queued(t, c, d, n, closed) /\ NoFrames(t, c)
<1> DEFINE f == s[1].frame
           L == FrameLen(f)
           t == Drop(s, L)
<1>1. /\ \A i \in 1..Len(t) : i + L \in 2..Len(s) /\ t[i] = s[i + L]
      /\ \A i \in 1..Len(s) : s[i].pos = 1 => i = 1 \/ (i - L \in 1..Len(t) /\ t[i - L] = s[i])
      /\ 1 \in 1..Len(s) /\ s[1].pos = 1 /\ f \in Frame
  BY BeginsTake
<1>2. L \in Nat \ {0}
  BY <1>1, FrameLenType
<1> HIDE DEF t, L
<1>3. ASSUME NEW i \in 1..Len(t), Begins(t, i, c)
      PROVE  /\ i + L \in 1..Len(s) /\ 1 < i + L /\ t[i] = s[i + L] /\ Begins(s, i + L, c)
             /\ \/ t[i].frame.type = "close" /\ closed
                \/ \E k \in d + 1..n : t[i].frame = MessageTo(c, k)
  <2>1. /\ i + L \in 1..Len(s) /\ 1 < i + L /\ t[i] = s[i + L] /\ Begins(s, i + L, c)
    BY <1>1, <1>2, <1>3 DEF Begins
  <2> QED
    BY <2>1 DEF Queued
<1>4. ASSUME NEW i \in 1..Len(t), NEW j \in 1..Len(t), i < j, Begins(t, i, c), Begins(t, j, c)
      PROVE  /\ t[i].frame.type = "message"
             /\ t[j].frame.type = "message" => t[i].frame.num < t[j].frame.num
  <2>1. /\ i + L \in 1..Len(s) /\ t[i] = s[i + L] /\ Begins(s, i + L, c)
        /\ j + L \in 1..Len(s) /\ t[j] = s[j + L] /\ Begins(s, j + L, c)
    BY <1>3, <1>4
  <2>2. i + L < j + L
    BY <1>2, <1>4
  <2> QED
    BY <2>1, <2>2 DEF Queued
<1>5. ASSUME NEW k \in d + 1..n, f # MessageTo(c, k)
      PROVE  \E i \in 1..Len(t) : t[i].pos = 1 /\ t[i].frame = MessageTo(c, k)
  <2>1. PICK i \in 1..Len(s) : s[i].pos = 1 /\ s[i].frame = MessageTo(c, k)
    BY DEF Queued
  <2>2. i # 1
    BY <1>5, <2>1
  <2>3. i - L \in 1..Len(t) /\ t[i - L] = s[i]
    BY <1>1, <2>1, <2>2
  <2> QED
    BY <2>1, <2>3
<1>6. ASSUME f.conn # c PROVE Queued(t, c, d, n, closed)
  <2>1. \A k \in d + 1..n : f # MessageTo(c, k)
    BY <1>6 DEF MessageTo
  <2> QED
    BY <1>3, <1>4, <1>5, <2>1 DEF Queued
<1>7. ASSUME f.conn = c, f.type = "message"
      PROVE  d < n /\ f = MessageTo(c, d + 1) /\ Queued(t, c, d + 1, n, closed)
  <2>1. Begins(s, 1, c)
    BY <1>1, <1>7 DEF Begins
  <2>2. PICK k \in d + 1..n : f = MessageTo(c, k)
    <3>1. f.type # "close"
      BY <1>7
    <3> QED
      BY <1>1, <2>1, <3>1 DEF Queued
  <2>3. d < n /\ d + 1 \in d + 1..n /\ k >= d + 1
    BY <2>2
  <2>4. k = d + 1
    <3> SUFFICES ASSUME k # d + 1 PROVE FALSE
      OBVIOUS
    <3>1. PICK i \in 1..Len(s) : s[i].pos = 1 /\ s[i].frame = MessageTo(c, d + 1)
      BY <2>3 DEF Queued
    <3>2. /\ MessageTo(c, d + 1).conn = c /\ MessageTo(c, d + 1).type = "message"
          /\ MessageTo(c, d + 1).num = d + 1 /\ MessageTo(c, k).num = k
      BY DEF MessageTo
    <3>3. Begins(s, i, c) /\ s[i].frame.type = "message" /\ s[i].frame.num = d + 1 /\ f.num = k
      BY <2>2, <3>1, <3>2 DEF Begins
    <3>4. i # 1
      BY <2>2, <3>3
    <3>5. 1 < i
      BY <3>4
    <3>6. f.num < s[i].frame.num
      BY <1>1, <2>1, <3>3, <3>5 DEF Queued
    <3> QED
      BY <2>3, <3>3, <3>6
  <2>5. ASSUME NEW i \in 1..Len(t), Begins(t, i, c)
        PROVE  \/ t[i].frame.type = "close" /\ closed
               \/ \E m \in d + 1 + 1..n : t[i].frame = MessageTo(c, m)
    <3> SUFFICES ASSUME ~(t[i].frame.type = "close" /\ closed)
                 PROVE  \E m \in d + 1 + 1..n : t[i].frame = MessageTo(c, m)
      OBVIOUS
    <3>1. /\ i + L \in 1..Len(s) /\ 1 < i + L /\ t[i] = s[i + L] /\ Begins(s, i + L, c)
          /\ \E m \in d + 1..n : t[i].frame = MessageTo(c, m)
      BY <1>3, <2>5
    <3>2. PICK m \in d + 1..n : t[i].frame = MessageTo(c, m)
      BY <3>1
    <3>3. MessageTo(c, m).type = "message" /\ MessageTo(c, m).num = m /\ MessageTo(c, k).num = k
      BY DEF MessageTo
    <3>4. f.num < s[i + L].frame.num
      BY <1>1, <2>1, <3>1, <3>2, <3>3 DEF Queued
    <3>5. k < m
      BY <2>2, <3>1, <3>2, <3>3, <3>4
    <3>6. m \in d + 1 + 1..n
      BY <2>4, <3>5
    <3> QED
      BY <3>2, <3>6
  <2>6. ASSUME NEW m \in d + 1 + 1..n
        PROVE  \E i \in 1..Len(t) : t[i].pos = 1 /\ t[i].frame = MessageTo(c, m)
    <3>1. m \in d + 1..n /\ m # k
      BY <2>4
    <3>2. f # MessageTo(c, m)
      <4>1. MessageTo(c, m).num = m /\ MessageTo(c, k).num = k
        BY DEF MessageTo
      <4> QED
        BY <2>2, <3>1, <4>1
    <3> QED
      BY <1>5, <3>1, <3>2
  <2>7. Queued(t, c, d + 1, n, closed)
    BY <1>4, <2>5, <2>6 DEF Queued
  <2> QED
    BY <2>2, <2>3, <2>4, <2>7
<1>8. ASSUME f.conn = c, f.type # "message"
      PROVE  d = n /\ f.type = "close" /\ closed /\ Queued(t, c, d, n, closed) /\ NoFrames(t, c)
  <2>1. Begins(s, 1, c)
    BY <1>1, <1>8 DEF Begins
  <2>2. \A k \in d + 1..n : f # MessageTo(c, k)
    BY <1>8 DEF MessageTo
  <2>3. f.type = "close" /\ closed
    BY <1>1, <2>1, <2>2 DEF Queued
  <2>4. NoFrames(t, c)
    <3> SUFFICES ASSUME NEW i \in 1..Len(t), Begins(t, i, c) PROVE FALSE
      BY DEF NoFrames
    <3>1. i + L \in 1..Len(s) /\ 1 < i + L /\ Begins(s, i + L, c)
      BY <1>3
    <3> QED
      BY <1>1, <1>8, <2>1, <3>1 DEF Queued
  <2>5. d = n
    <3> SUFFICES ASSUME d # n PROVE FALSE
      OBVIOUS
    <3>1. n \in d + 1..n
      OBVIOUS
    <3>2. PICK i \in 1..Len(t) : t[i].pos = 1 /\ t[i].frame = MessageTo(c, n)
      BY <1>5, <2>2, <3>1
    <3>3. Begins(t, i, c)
      BY <3>2 DEF Begins, MessageTo
    <3> QED
      BY <2>4, <3>3 DEF NoFrames
  <2> QED
    BY <1>3, <1>4, <1>5, <2>2, <2>3, <2>4, <2>5 DEF Queued
<1> QED
  BY <1>6, <1>7, <1>8 DEF L, t

\* Nothing is left of the messages to c when no frame of c is left.
LEMMA QueuedNone ==
    ASSUME NEW s, NEW c \in Conns, NEW n \in Nat, NEW d \in 0..n, NEW closed,
           Queued(s, c, d, n, closed), NoFrames(s, c)
    PROVE  d = n
<1> SUFFICES ASSUME d # n PROVE FALSE
  OBVIOUS
<1>1. n \in d + 1..n
  OBVIOUS
<1>2. PICK i \in 1..Len(s) : s[i].pos = 1 /\ s[i].frame = MessageTo(c, n)
  BY <1>1 DEF Queued
<1>3. Begins(s, i, c)
  BY <1>2 DEF Begins, MessageTo
<1> QED
  BY <1>3 DEF NoFrames

\* No frame of c is left when the first frame is taken away.
LEMMA NoFramesTake ==
    ASSUME NEW s \in Seq(Unit), Framed(s), s # <<>>, NEW c \in Conns, NoFrames(s, c)
    PROVE  s[1].frame.conn # c /\ NoFrames(Drop(s, FrameLen(s[1].frame)), c)
<1> DEFINE f == s[1].frame
           L == FrameLen(f)
           t == Drop(s, L)
<1>1. /\ \A i \in 1..Len(t) : i + L \in 2..Len(s) /\ t[i] = s[i + L]
      /\ 1 \in 1..Len(s) /\ s[1].pos = 1 /\ f \in Frame
  BY BeginsTake
<1>2. L \in Nat \ {0}
  BY <1>1, FrameLenType
<1> HIDE DEF t, L
<1>3. f.conn # c
  BY <1>1 DEF NoFrames, Begins
<1>4. ASSUME NEW i \in 1..Len(t) PROVE ~Begins(t, i, c)
  <2>1. i + L \in 1..Len(s) /\ t[i] = s[i + L]
    BY <1>1, <1>2
  <2> QED
    BY <2>1 DEF NoFrames, Begins
<1> QED
  BY <1>3, <1>4 DEF NoFrames, t, L

\* Sizes of whole bodies.
LEMMA BytesProperties ==
    ASSUME NEW k \in Nat, NEW n \in Nat, k <= n
    PROVE  /\ Bytes(k) \in Nat /\ Bytes(n) \in Nat /\ Bytes(k) <= Bytes(n)
           /\ Bytes(k + 1) = Bytes(k) + BodyLen /\ Bytes(0) = 0
<1>1. BodyLen \in Nat
  BY SizesAssumption
<1>2. k * BodyLen \in Nat /\ n * BodyLen \in Nat /\ 0 * BodyLen = 0
  BY <1>1
<1>3. (k + 1) * BodyLen = k * BodyLen + BodyLen
  BY <1>1
<1>4. k * BodyLen <= n * BodyLen
  <2>1. PICK m \in Nat : n = k + m
    <3>1. n - k \in Nat /\ n = k + (n - k)
      OBVIOUS
    <3> QED
      BY <3>1
  <2>2. n * BodyLen = k * BodyLen + m * BodyLen /\ m * BodyLen \in Nat
    BY <1>1, <2>1
  <2> QED
    BY <1>2, <2>2
<1> QED
  BY <1>2, <1>3, <1>4 DEF Bytes

\* The whole of a sequence.
LEMMA TakeAll ==
    ASSUME NEW S, NEW s \in Seq(S)
    PROVE  Take(s, Len(s)) = s
<1> DEFINE t == Take(s, Len(s))
<1>1. t \in Seq(S) /\ Len(t) = Len(s) /\ \A i \in 1..Len(s) : t[i] = s[i]
  <2>1. Len(s) \in 0..Len(s)
    OBVIOUS
  <2> QED
    BY <2>1, TakeDrop, TakeElements
<1> HIDE DEF t
<1>2. t = s
  BY <1>1, SameUnits
<1> QED
  BY <1>2 DEF t

\* What is owed to a client begins with what was owed to it.
LEMMA OwedPrefix ==
    ASSUME TypeInv, NEW c \in Conns, OwedRight(c), NEW d \in 0..sent[c]
    PROVE  /\ owed[c] \in Seq(Unit) /\ sent[c] \in Nat /\ Bytes(d) \in 0..Len(owed[c])
           /\ Take(owed[c], Bytes(d)) \in Seq(Unit)
           /\ d = sent[c] => Take(owed[c], Bytes(d)) = owed[c]
           /\ d < sent[c] => Take(owed[c], Bytes(d + 1)) = Take(owed[c], Bytes(d)) \o Body(MessageTo(c, d + 1))
<1>1. owed[c] \in Seq(Unit) /\ sent[c] \in 0..MaxMsgs /\ MaxMsgs \in Nat
  BY SizesAssumption DEF TypeInv, TypeOK
<1>2. sent[c] \in Nat /\ d \in Nat /\ d <= sent[c] /\ Len(owed[c]) = Bytes(sent[c])
  BY <1>1 DEF OwedRight
<1>3. Bytes(d) \in 0..Len(owed[c])
  <2>1. Bytes(d) \in Nat /\ Bytes(sent[c]) \in Nat /\ Bytes(d) <= Bytes(sent[c])
    BY <1>2, BytesProperties
  <2> QED
    BY <1>2, <2>1
<1>4. Take(owed[c], Bytes(d)) \in Seq(Unit)
  BY <1>1, <1>3, TakeDrop
<1>5. d = sent[c] => Take(owed[c], Bytes(d)) = owed[c]
  BY <1>1, <1>2, TakeAll
<1>6. ASSUME d < sent[c]
      PROVE  Take(owed[c], Bytes(d + 1)) = Take(owed[c], Bytes(d)) \o Body(MessageTo(c, d + 1))
  <2>1. d \in 0..sent[c] - 1
    BY <1>1, <1>6
  <2> QED
    BY <2>1 DEF OwedRight
<1> QED
  BY <1>1, <1>2, <1>3, <1>4, <1>5, <1>6

\* A message adds its body to what is owed.
LEMMA OwedPost ==
    ASSUME TypeInv, NEW c \in Conns, OwedRight(c), Reply(c)
    PROVE  /\ OwedRight(c)' /\ sent'[c] = sent[c] + 1
           /\ owed'[c] = owed[c] \o Body(MessageTo(c, sent[c] + 1))
           /\ \A d \in 0..sent[c] : Take(owed'[c], Bytes(d)) = Take(owed[c], Bytes(d))
           /\ MessageTo(c, sent[c] + 1) \in Frame
           /\ \A b \in Conns : b # c => owed'[b] = owed[b] /\ sent'[b] = sent[b]
<1> DEFINE n == sent[c]
           f == MessageTo(c, n + 1)
           b == Body(f)
           o == owed[c]
           p == o \o b
<1>1. owed \in [Conns -> Seq(Unit)] /\ sent \in [Conns -> 0..MaxMsgs] /\ MaxMsgs \in Nat
  BY SizesAssumption DEF TypeInv, TypeOK
<1>2. /\ n < MaxMsgs /\ sent' = [sent EXCEPT ![c] = n + 1]
      /\ owed' = [owed EXCEPT ![c] = o \o b]
  BY DEF Reply, MessageTo
<1>3. f \in Frame /\ f.type = "message"
  <2>1. n + 1 \in 0..MaxMsgs
    BY <1>1, <1>2
  <2> QED
    BY <2>1 DEF Frame, MessageTo
<1>4. b \in Seq(Unit) /\ Len(b) = BodyLen
  BY <1>3, BodyElements
<1>5. o \in Seq(Unit) /\ n \in Nat /\ Len(o) = Bytes(n)
  BY <1>1 DEF OwedRight
<1>6. /\ sent'[c] = n + 1 /\ owed'[c] = p
      /\ \A q \in Conns : q # c => owed'[q] = owed[q] /\ sent'[q] = sent[q]
  BY <1>1, <1>2
<1>7. ASSUME NEW d \in 0..n PROVE Bytes(d) \in 0..Len(o)
  BY <1>7, OwedPrefix
<1> HIDE DEF b, o
<1>8. p \in Seq(Unit) /\ Len(p) = Len(o) + BodyLen
  BY <1>4, <1>5, ConcatProperties
<1>9. ASSUME NEW d \in 0..n PROVE Take(p, Bytes(d)) = Take(o, Bytes(d))
  BY <1>4, <1>5, <1>7, TakeConcat
<1>10. Len(p) = Bytes(n + 1)
  <2>1. n <= n
    BY <1>5
  <2>2. Bytes(n + 1) = Bytes(n) + BodyLen
    BY <1>5, <2>1, BytesProperties
  <2> QED
    BY <1>5, <1>8, <2>2
<1>11. Take(p, Bytes(n + 1)) = p
  BY <1>8, <1>10, TakeAll
<1>12. Take(p, Bytes(n)) = o
  <2>1. n \in 0..n
    BY <1>5
  <2>2. Take(p, Bytes(n)) = Take(o, Bytes(n))
    BY <1>9, <2>1
  <2>3. Take(o, Len(o)) = o
    BY <1>5, TakeAll
  <2> QED
    BY <1>5, <2>2, <2>3
<1> HIDE DEF p
<1>13. ASSUME NEW k \in 0..n
       PROVE  Take(p, Bytes(k + 1)) = Take(p, Bytes(k)) \o Body(MessageTo(c, k + 1))
  <2>1. CASE k = n
    BY <1>11, <1>12, <2>1 DEF p, b
  <2>2. CASE k # n
    <3>1. k \in 0..n /\ k + 1 \in 0..n /\ k \in 0..n - 1
      BY <1>5, <2>2
    <3>2. Take(o, Bytes(k + 1)) = Take(o, Bytes(k)) \o Body(MessageTo(c, k + 1))
      BY <3>1 DEF OwedRight, o
    <3> QED
      BY <1>9, <3>1, <3>2 DEF p
  <2> QED
    BY <2>1, <2>2
<1>14. OwedRight(c)'
  <2>1. owed'[c] = p /\ sent'[c] = n + 1 /\ 0..sent'[c] - 1 = 0..n
    BY <1>5, <1>6
  <2>2. Len(owed'[c]) = Bytes(sent'[c])
    BY <1>10, <2>1
  <2> HIDE DEF n
  <2>3. \A k \in 0..sent'[c] - 1 :
          Take(owed'[c], Bytes(k + 1)) = Take(owed'[c], Bytes(k)) \o Body(MessageTo(c, k + 1))
    BY <1>13, <2>1
  <2> QED
    BY <2>2, <2>3 DEF OwedRight
<1> QED
  BY <1>3, <1>6, <1>9, <1>14 DEF p, o, b

\* What is owed is the bodies of the messages that were posted.
LEMMA StepOwed ==
    ASSUME TypeInv, \A c \in Conns : OwedRight(c), [Next]_vars
    PROVE  \A c \in Conns : OwedRight(c)'
<1>1. ASSUME NEW b \in Conns, Reply(b) PROVE \A c \in Conns : OwedRight(c)'
  <2>1. OwedRight(b)' /\ \A c \in Conns : c # b => owed'[c] = owed[c] /\ sent'[c] = sent[c]
    BY <1>1, OwedPost
  <2> QED
    BY <2>1 DEF OwedRight
<1>2. ASSUME ~(\E b \in Conns : Reply(b)) PROVE UNCHANGED <<owed, sent>>
  BY <1>2 DEF Next, Close, WorkerWrite, Read, Write, ReadHeader, ReadGarbage, ReadBody, AppendStart, AppendStore,
              TestClose, MarkClosing, FlushNothing, Flush, Trim, vars, workerVars
<1>3. UNCHANGED <<owed, sent>> => \A c \in Conns : OwedRight(c)'
  BY DEF OwedRight
<1> QED
  BY <1>1, <1>2, <1>3

-----------------------------------------------------------------------------
(* Handlers that do not overlap.                                           *)

\* A step of a handler changes where its reactor is, begins only when the reactor is
\* idle, and reads the socketpair, if it does, at the start or within ReadBody.
LEMMA HandlerSteps ==
    ASSUME NEW r \in Reactors, Read(r) \/ Trim(r) \/ \E c \in Conns : Write(r, c)
    PROVE  /\ \E p : rpc' = rpc \/ rpc' = [rpc EXCEPT ![r] = p]
           /\ Begin(r) \/ (rpc[r] # "idle" /\ overlap' = overlap)
           /\ mixed' = mixed \/ (mixed' = (mixed \/ Interrupts(r)) /\ (Begin(r) \/ rpc[r] = "body"))
<1>1. CASE ReadHeader(r)
  BY <1>1 DEF ReadHeader, Go
<1>2. CASE ReadGarbage(r)
  BY <1>2 DEF ReadGarbage, Go
<1>3. CASE ReadBody(r)
  <2>1. rpc[r] = "body" /\ overlap' = overlap /\ mixed' = (mixed \/ Interrupts(r))
    BY <1>3 DEF ReadBody
  <2>2. \E p : rpc' = rpc \/ rpc' = [rpc EXCEPT ![r] = p]
    BY <1>3 DEF ReadBody, Go
  <2> QED
    BY <2>1, <2>2
<1>4. CASE AppendStart(r)
  BY <1>4 DEF AppendStart, histVars
<1>5. CASE AppendStore(r)
  BY <1>5 DEF AppendStore, Go
<1>6. CASE TestClose(r)
  <2>1. rpc[r] # "idle" /\ overlap' = overlap /\ mixed' = mixed
    BY <1>6 DEF TestClose
  <2>2. \E p : rpc' = rpc \/ rpc' = [rpc EXCEPT ![r] = p]
    BY <1>6 DEF TestClose, Go
  <2> QED
    BY <2>1, <2>2
<1>7. CASE MarkClosing(r)
  BY <1>7 DEF MarkClosing, Go, histVars
<1>8. CASE Trim(r)
  BY <1>8 DEF Trim, Go
<1>9. ASSUME NEW c \in Conns, FlushNothing(r, c)
      PROVE  Begin(r) /\ rpc' = rpc /\ mixed' = mixed
  BY <1>9 DEF FlushNothing, threadVars
<1>10. ASSUME NEW c \in Conns, Flush(r, c)
       PROVE  Begin(r) /\ rpc' = [rpc EXCEPT ![r] = "trim"] /\ mixed' = mixed
  BY <1>10 DEF Flush, Go
<1> QED
  BY <1>1, <1>2, <1>3, <1>4, <1>5, <1>6, <1>7, <1>8, <1>9, <1>10 DEF Read, Write

\* As long as no two handlers overlap, the other reactors are idle.
LEMMA OthersIdle ==
    ASSUME TypeInv, ~overlap => Serial, ~overlap',
           NEW r \in Reactors, Read(r) \/ Trim(r) \/ \E c \in Conns : Write(r, c)
    PROVE  ~overlap /\ \A q \in Reactors : q # r => rpc[q] = "idle" /\ rpc'[q] = "idle"
<1>1. PICK p : rpc' = rpc \/ rpc' = [rpc EXCEPT ![r] = p]
  BY HandlerSteps
<1>2. \A q \in Reactors : q # r => rpc'[q] = rpc[q]
  BY <1>1 DEF TypeInv, TypeOK
<1>3. Begin(r) \/ (rpc[r] # "idle" /\ overlap' = overlap)
  BY HandlerSteps
<1>4. ~overlap /\ \A q \in Reactors : q # r => rpc[q] = "idle"
  <2>1. CASE Begin(r)
    <3>1. overlap' = (overlap \/ \E q \in Reactors \ {r} : rpc[q] # "idle")
      BY <2>1 DEF Begin
    <3>2. ~overlap /\ ~\E q \in Reactors \ {r} : rpc[q] # "idle"
      BY <3>1
    <3> QED
      BY <3>2
  <2>2. CASE rpc[r] # "idle" /\ overlap' = overlap
    BY <2>2 DEF Serial
  <2> QED
    BY <1>3, <2>1, <2>2
<1> QED
  BY <1>2, <1>4

\* Handlers follow each other until overlap says that they did not.
LEMMA StepSerial ==
    ASSUME TypeInv, mixed => overlap, ~overlap => Serial, [Next]_vars
    PROVE  (mixed' => overlap') /\ (~overlap' => Serial')
<1>1. ASSUME NEW r \in Reactors, Read(r) \/ Trim(r) \/ \E c \in Conns : Write(r, c)
      PROVE  (mixed' => overlap') /\ (~overlap' => Serial')
  <2> SUFFICES ASSUME ~overlap' PROVE ~mixed' /\ Serial'
    OBVIOUS
  <2>1. ~overlap /\ \A q \in Reactors : q # r => rpc[q] = "idle" /\ rpc'[q] = "idle"
    BY <1>1, OthersIdle
  <2>2. ~mixed /\ ~Interrupts(r)
    BY <2>1 DEF Interrupts
  <2>3. mixed' = mixed \/ mixed' = (mixed \/ Interrupts(r))
    BY <1>1, HandlerSteps
  <2>4. ~mixed'
    BY <2>2, <2>3
  <2>5. Serial'
    BY <2>1 DEF Serial
  <2> QED
    BY <2>4, <2>5
<1>2. ASSUME ~\E r \in Reactors : Read(r) \/ Trim(r) \/ \E c \in Conns : Write(r, c)
      PROVE  UNCHANGED <<rpc, mixed, overlap>>
  <2>1. \/ \E c \in Conns : Reply(c) \/ Close(c)
        \/ WorkerWrite
        \/ UNCHANGED vars
    BY <1>2 DEF Next
  <2> QED
    BY <2>1 DEF Reply, Close, WorkerWrite, threadVars, histVars, vars
<1>3. UNCHANGED <<rpc, mixed, overlap>> => (mixed' => overlap') /\ (~overlap' => Serial')
  BY DEF Serial
<1> QED
  BY <1>1, <1>2, <1>3

-----------------------------------------------------------------------------
(* One handler at work on one connection.                                  *)

\* A connection that no handler works on and whose state does not change.
LEMMA OtherConns ==
    ASSUME TypeInv, NEW r \in Reactors, NEW c \in Conns, BytesRight(c), EndRight(c),
           \A q \in Reactors : q # r => rpc[q] = "idle" /\ rpc'[q] = "idle",
           rpc[r] # "idle" => at[r] # c,
           rpc'[r] # "idle" => at'[r] # c,
           /\ out'[c] = out[c] /\ client'[c] = client[c] /\ disable'[c] = disable[c]
           /\ c \in freed' <=> c \in freed
           /\ \A q \in Reactors : c \in watched'[q] <=> c \in watched[q],
           UNCHANGED <<sent, closing, owed>>,
           \A n \in Nat : \A d \in 0..n : \A closed \in BOOLEAN :
             Queued(Rest, c, d, n, closed) => Queued(Rest', c, d, n, closed),
           NoFrames(Rest, c) => NoFrames(Rest', c)
    PROVE  BytesRight(c)' /\ EndRight(c)'
<1>1. /\ \A q \in Reactors : rpc[q] \in Adding \cup {"trim", "close", "mark"} => at[q] # c
      /\ \A q \in Reactors : rpc'[q] \in Adding \cup {"trim", "close", "mark"} => at'[q] # c
  BY DEF Adding
<1>2. BytesRight(c)'
  <2>1. PICK d \in 0..sent[c] :
          Queued(Rest, c, d, sent[c], c \in closing) /\ (c \notin freed => Moved(c, d))
    BY DEF BytesRight
  <2>2. sent[c] \in Nat /\ d \in Nat
    <3>1. sent[c] \in 0..MaxMsgs /\ MaxMsgs \in Nat
      BY SizesAssumption DEF TypeInv, TypeOK
    <3> QED
      BY <3>1
  <2>3. Queued(Rest', c, d, sent[c], c \in closing)
    <3>1. CASE c \in closing
      BY <2>1, <2>2, <3>1
    <3>2. CASE c \notin closing
      <4>1. (c \in closing) = FALSE
        BY <3>2
      <4>2. Queued(Rest, c, d, sent[c], FALSE)
        BY <2>1, <4>1
      <4>3. Queued(Rest', c, d, sent[c], FALSE)
        BY <2>2, <4>2
      <4> QED
        BY <4>1, <4>3
    <3> QED
      BY <3>1, <3>2
  <2>4. c \notin freed' => Moved(c, d)'
    BY <1>1, <2>1 DEF Moved
  <2> QED
    BY <2>3, <2>4 DEF BytesRight
<1>3. EndRight(c)'
  <2>1. /\ \A q \in Reactors : ~(rpc[q] \in {"close", "mark"} /\ at[q] = c)
        /\ \A q \in Reactors : ~(rpc'[q] \in {"close", "mark"} /\ at'[q] = c)
        /\ \A q \in Reactors : ~(rpc'[q] \in {"append", "store"} /\ at'[q] = c)
    BY <1>1 DEF Adding
  <2> QED
    BY <2>1 DEF EndRight
<1> QED
  BY <1>2, <1>3

\* What of c waits, when r is the reactor that works on c if any does.
Waiting(r, c) ==
    IF rpc[r] \in Adding THEN out[c] \o data[r]
    ELSE IF rpc[r] = "trim" THEN Drop(out[c], Len(data[r]))
    ELSE out[c]

\* Where the bytes of a connection are when only r is within a handler.
LEMMA BytesAt ==
    ASSUME NEW r \in Reactors, NEW c \in Conns, BytesRight(c), c \notin freed,
           \A q \in Reactors : q # r => rpc[q] = "idle",
           rpc[r] # "idle" => at[r] = c
    PROVE  \E d \in 0..sent[c] :
             /\ Queued(Rest, c, d, sent[c], c \in closing)
             /\ client[c] \o Waiting(r, c) = Take(owed[c], Bytes(d))
<1>1. PICK d \in 0..sent[c] : Queued(Rest, c, d, sent[c], c \in closing) /\ Moved(c, d)
  BY DEF BytesRight
<1>2. CASE rpc[r] \in Adding
  <2>1. at[r] = c
    BY <1>2 DEF Adding
  <2> QED
    BY <1>1, <1>2, <2>1 DEF Moved, Waiting
<1>3. CASE rpc[r] = "trim"
  BY <1>1, <1>3 DEF Moved, Waiting, Adding
<1>4. CASE rpc[r] \notin Adding \cup {"trim"}
  <2>1. \A q \in Reactors : rpc[q] \notin Adding \cup {"trim"}
    BY <1>4 DEF Adding
  <2> QED
    BY <1>1, <1>4, <2>1 DEF Moved, Waiting
<1> QED
  BY <1>2, <1>3, <1>4

\* A step of r that works on c, and moves none of its bytes past the others.
LEMMA StepAt ==
    ASSUME TypeInv, FlowRight, NEW r \in Reactors, NEW c \in Conns,
           \A q \in Reactors : q # r => rpc[q] = "idle" /\ rpc'[q] = "idle",
           rpc[r] # "idle" => at[r] = c,
           rpc'[r] # "idle" => at'[r] = c,
           \A b \in Conns : b # c =>
             /\ out'[b] = out[b] /\ client'[b] = client[b] /\ disable'[b] = disable[b]
             /\ b \in freed' <=> b \in freed
             /\ \A q \in Reactors : b \in watched'[q] <=> b \in watched[q],
           UNCHANGED <<sent, closing, owed>>, Rest' = Rest,
           c \notin freed' => c \notin freed /\ client'[c] \o Waiting(r, c)' = client[c] \o Waiting(r, c),
           EndRight(c)', HandlerRight(r)', stale' \subseteq Http
    PROVE  FlowRight'
<1>1. ASSUME NEW b \in Conns, b # c PROVE BytesRight(b)' /\ EndRight(b)'
  BY <1>1, OtherConns DEF FlowRight
<1>2. \A q \in Reactors : HandlerRight(q)'
  BY DEF HandlerRight
<1>3. CASE c \in freed'
  <2>1. PICK d \in 0..sent[c] : Queued(Rest, c, d, sent[c], c \in closing)
    BY DEF FlowRight, BytesRight
  <2>2. BytesRight(c)'
    BY <1>3, <2>1 DEF BytesRight
  <2> QED
    BY <1>1, <1>2, <2>2 DEF FlowRight
<1>4. CASE c \notin freed'
  <2>1. PICK d \in 0..sent[c] :
          /\ Queued(Rest, c, d, sent[c], c \in closing)
          /\ client[c] \o Waiting(r, c) = Take(owed[c], Bytes(d))
    BY <1>4, BytesAt DEF FlowRight
  <2>2. Moved(c, d)'
    <3>1. \A q \in Reactors : rpc'[q] \in Adding \cup {"trim"} => q = r /\ at'[r] = c
      BY DEF Adding
    <3>2. client'[c] \o Waiting(r, c)' = Take(owed'[c], Bytes(d))
      BY <1>4, <2>1
    <3> QED
      BY <3>1, <3>2 DEF Moved, Waiting, Adding
  <2>3. BytesRight(c)'
    BY <2>1, <2>2 DEF BytesRight
  <2> QED
    BY <1>1, <1>2, <2>3 DEF FlowRight
<1> QED
  BY <1>3, <1>4

-----------------------------------------------------------------------------
(* The steps of a handler.                                                 *)

Alone(r) == \A q \in Reactors : q # r => rpc[q] = "idle" /\ rpc'[q] = "idle"

\* A step of a lone handler that does not read the socketpair.
LEMMA RestKept ==
    ASSUME NEW r \in Reactors, Alone(r), UNCHANGED <<pipe, wbuf>>, rpc[r] # "body", rpc'[r] # "body"
    PROVE  Rest' = Rest
<1>1. ~Reading /\ ~Reading'
  BY DEF Alone, Reading
<1> QED
  BY <1>1 DEF Rest, Stream

\* sdscatlen finds the string as it is when it stores its result.
LEMMA FlowAppendStart ==
    ASSUME TypeInv, FlowRight, NEW r \in Reactors, Alone(r), AppendStart(r)
    PROVE  FlowRight'
<1>0. PICK c \in Conns : c = at[r]
  BY DEF AppendStart, TypeInv, AtHand
<1>1. /\ c = at[r] /\ rpc[r] = "append" /\ seen' = [seen EXCEPT ![r] = out[c]]
      /\ rpc' = [rpc EXCEPT ![r] = "store"]
      /\ UNCHANGED <<sent, closing, owed, wbuf, pipe, at, data, out, disable, watched, client, freed, stale>>
  BY <1>0 DEF AppendStart, workerVars, connVars, histVars
<1>2. rpc'[r] = "store" /\ at'[r] = c /\ seen'[r] = out[c]
  BY <1>1 DEF TypeInv, TypeOK, AtHand
<1>3. Rest' = Rest
  BY <1>1, <1>2, RestKept
<1>4. HandlerRight(r)'
  BY <1>1, <1>2 DEF HandlerRight, FlowRight
<1>5. EndRight(c)'
  <2>1. EndRight(c)
    BY <1>2 DEF FlowRight
  <2>2. \A q \in Reactors : ~(rpc'[q] \in {"close", "mark"} /\ at'[q] = c)
    BY <1>2 DEF Alone
  <2>3. \E q \in Reactors : c \in watched[q]
    BY <1>1, <2>1 DEF EndRight
  <2> QED
    BY <1>1, <1>3, <2>1, <2>2, <2>3 DEF EndRight
<1>6. Waiting(r, c)' = Waiting(r, c)
  BY <1>1, <1>2 DEF Waiting, Adding
<1>7. stale' \subseteq Http
  BY <1>1 DEF FlowRight
<1>8. rpc[r] # "idle" => at[r] = c
  BY <1>0
<1> QED
  BY <1>1, <1>2, <1>3, <1>4, <1>5, <1>6, <1>7, <1>8, StepAt DEF Alone

\* sdscatlen stores the string that it found, and the message behind it.
LEMMA FlowAppendStore ==
    ASSUME TypeInv, FlowRight, NEW r \in Reactors, Alone(r), AppendStore(r)
    PROVE  FlowRight'
<1>0. PICK c \in Conns : c = at[r]
  BY DEF AppendStore, TypeInv, AtHand
<1>1. /\ c = at[r] /\ rpc[r] = "store" /\ Go(r, "idle", None)
      /\ UNCHANGED <<sent, closing, owed, wbuf, pipe, disable, watched, client, freed>>
  BY <1>0 DEF AppendStore, workerVars
<1>2. rpc'[r] = "idle"
  BY <1>1 DEF TypeInv, TypeOK, AtHand, Go
<1>3. c \notin freed /\ seen[r] = out[c]
  BY <1>1 DEF FlowRight, HandlerRight
<1>4. out' = [out EXCEPT ![c] = out[c] \o data[r]] /\ stale' = stale
  <2>1. /\ out' \in {[out EXCEPT ![c] = s] : s \in IF out[c] = seen[r] THEN {seen[r] \o data[r]}
                        ELSE {seen[r] \o data[r], out[c] \o data[r], out[c]}}
        /\ UNCHANGED stale
    BY <1>0, <1>3 DEF AppendStore
  <2>2. PICK s \in {seen[r] \o data[r]} : out' = [out EXCEPT ![c] = s]
    BY <1>3, <2>1
  <2> QED
    BY <1>3, <2>1, <2>2
<1>5. out'[c] = out[c] \o data[r] /\ \A b \in Conns : b # c => out'[b] = out[b]
  BY <1>2, <1>4 DEF TypeInv, TypeOK
<1>8. rpc[r] # "idle" => at[r] = c
  BY <1>0
<1>9. Rest' = Rest
  BY <1>1, <1>2, RestKept
<1>10. HandlerRight(r)'
  BY <1>2 DEF HandlerRight
<1>11. EndRight(c)'
  <2>1. EndRight(c)
    BY <1>2 DEF FlowRight
  <2>2. \A q \in Reactors : rpc'[q] = "idle"
    BY <1>2 DEF Alone
  <2>3. \E q \in Reactors : c \in watched[q]
    BY <1>1, <1>8, <2>1 DEF EndRight
  <2> QED
    BY <1>1, <1>3, <1>9, <2>1, <2>2, <2>3 DEF EndRight
<1>12. Waiting(r, c)' = Waiting(r, c)
  BY <1>1, <1>2, <1>5 DEF Waiting, Adding
<1>13. stale' \subseteq Http
  BY <1>4 DEF FlowRight
<1> QED
  BY <1>1, <1>2, <1>3, <1>5, <1>8, <1>9, <1>10, <1>11, <1>12, <1>13, StepAt DEF Alone

\* A connection is marked only while bytes wait for its client.
LEMMA FlowMarkClosing ==
    ASSUME TypeInv, FlowRight, NEW r \in Reactors, Alone(r), MarkClosing(r)
    PROVE  FlowRight'
<1>0. PICK c \in Conns : c = at[r]
  BY DEF MarkClosing, TypeInv, AtHand
<1>1. /\ c = at[r] /\ rpc[r] = "mark" /\ Go(r, "idle", None) /\ disable' = [disable EXCEPT ![c] = 2]
      /\ UNCHANGED <<sent, closing, owed, wbuf, pipe, out, watched, client, freed, stale>>
  BY <1>0 DEF MarkClosing, workerVars, histVars
<1>2. rpc'[r] = "idle"
  BY <1>1 DEF TypeInv, TypeOK, AtHand, Go
<1>3. c \notin freed
  BY <1>1 DEF FlowRight, HandlerRight
<1>4. disable'[c] = 2 /\ \A b \in Conns : b # c => disable'[b] = disable[b]
  BY <1>1, <1>2 DEF TypeInv, TypeOK
<1>8. rpc[r] # "idle" => at[r] = c
  BY <1>0
<1>9. Rest' = Rest
  BY <1>1, <1>2, RestKept
<1>10. HandlerRight(r)'
  BY <1>2 DEF HandlerRight
<1>11. EndRight(c)'
  <2>1. EndRight(c)
    BY <1>2 DEF FlowRight
  <2>2. \A q \in Reactors : rpc'[q] = "idle"
    BY <1>2 DEF Alone
  <2>3. c \in closing /\ NoFrames(Rest, c)
    BY <1>1, <1>8, <2>1 DEF EndRight
  <2> QED
    BY <1>1, <1>3, <1>4, <1>9, <2>1, <2>2, <2>3 DEF EndRight
<1>12. Waiting(r, c)' = Waiting(r, c)
  BY <1>1, <1>2 DEF Waiting, Adding
<1>13. stale' \subseteq Http
  BY <1>1 DEF FlowRight
<1> QED
  BY <1>1, <1>2, <1>3, <1>4, <1>8, <1>9, <1>10, <1>11, <1>12, <1>13, StepAt DEF Alone

\* What freeing a connection needs.
LEMMA FreeRight ==
    ASSUME TypeInv, FlowRight, NEW r \in Reactors, Alone(r), NEW c \in Conns, OwedRight(c),
           rpc[r] # "idle" => at[r] = c, rpc'[r] = "idle",
           c \notin freed, Free(c), UNCHANGED <<sent, closing, owed, client>>, Rest' = Rest,
           Waiting(r, c) = <<>>,
           c \in Http \/ (c \in closing /\ NoFrames(Rest, c))
    PROVE  EndRight(c)'
<1>1. PICK d \in 0..sent[c] :
        /\ Queued(Rest, c, d, sent[c], c \in closing)
        /\ client[c] \o Waiting(r, c) = Take(owed[c], Bytes(d))
  BY BytesAt DEF FlowRight, Alone
<1>2. /\ owed[c] \in Seq(Unit) /\ sent[c] \in Nat /\ Bytes(d) \in 0..Len(owed[c])
      /\ d = sent[c] => Take(owed[c], Bytes(d)) = owed[c]
  BY OwedPrefix
<1>3. client[c] \in Seq(Unit)
  BY DEF TypeInv, TypeOK
<1>4. client[c] = Take(owed[c], Bytes(d))
  BY <1>1, <1>3
<1>5. IsPrefix(client[c], owed[c])
  <2>1. Len(client[c]) = Bytes(d)
    BY <1>2, <1>4, TakeDrop
  <2> QED
    BY <1>2, <1>4, <2>1 DEF IsPrefix
<1>6. c \notin Http => client[c] = owed[c]
  <2>1. c \notin Http => d = sent[c]
    BY <1>1, <1>2, QueuedNone
  <2> QED
    BY <1>2, <1>4, <2>1
<1>7. /\ disable'[c] = 1 /\ out'[c] = <<>> /\ c \in freed'
  BY DEF Free, TypeInv, TypeOK
<1>8. \A q \in Reactors : rpc'[q] = "idle"
  BY DEF Alone
<1> QED
  BY <1>5, <1>6, <1>7, <1>8 DEF EndRight

\* PIPE_EVENT_CLOSE is the last frame of its connection.
LEMMA FlowTestClose ==
    ASSUME TypeInv, FlowRight, \A c \in Conns : OwedRight(c),
           NEW r \in Reactors, Alone(r), TestClose(r)
    PROVE  FlowRight'
<1>0. PICK c \in Conns : c = at[r]
  BY DEF TestClose, TypeInv, AtHand
<1>1. /\ c = at[r] /\ rpc[r] = "close"
      /\ UNCHANGED <<sent, closing, owed, wbuf, pipe, data, seen, client>>
      /\ \/ c \in freed /\ stale' = stale \cup {c} /\ Go(r, "idle", None) /\ UNCHANGED connVars
         \/ c \notin freed /\ out[c] = <<>> /\ Free(c) /\ Go(r, "idle", None) /\ UNCHANGED stale
         \/ c \notin freed /\ Go(r, "mark", c) /\ UNCHANGED <<out, disable, watched, freed, stale>>
  BY <1>0 DEF TestClose, workerVars, connVars
<1>2. /\ EndRight(c) /\ HandlerRight(r) /\ c \in closing /\ NoFrames(Rest, c)
  <2>1. EndRight(c) /\ HandlerRight(r)
    BY DEF FlowRight
  <2> QED
    BY <1>1, <2>1 DEF EndRight
<1>3. rpc[r] # "idle" => at[r] = c
  BY <1>1
<1>4. Waiting(r, c) = out[c]
  BY <1>1 DEF Waiting, Adding
<1>5. CASE /\ c \in freed /\ stale' = stale \cup {c} /\ Go(r, "idle", None)
           /\ UNCHANGED <<out, disable, watched, client, freed>>
  <2>1. rpc'[r] = "idle"
    BY <1>5 DEF Go, TypeInv, TypeOK
  <2>2. Rest' = Rest
    BY <1>1, <2>1, RestKept
  <2>3. HandlerRight(r)'
    BY <2>1 DEF HandlerRight
  <2>4. \A q \in Reactors : rpc'[q] = "idle"
    BY <2>1 DEF Alone
  <2>5. EndRight(c)'
    BY <1>1, <1>2, <1>5, <2>2, <2>4 DEF EndRight
  <2>6. stale' \subseteq Http
    BY <1>1, <1>2, <1>5 DEF FlowRight, HandlerRight
  <2> QED
    BY <1>1, <1>3, <1>5, <2>1, <2>2, <2>3, <2>5, <2>6, StepAt DEF Alone
<1>6. CASE c \notin freed /\ out[c] = <<>> /\ Free(c) /\ Go(r, "idle", None) /\ UNCHANGED stale
  <2>1. rpc'[r] = "idle"
    BY <1>6 DEF Go, TypeInv, TypeOK
  <2>2. Rest' = Rest
    BY <1>1, <2>1, RestKept
  <2>3. HandlerRight(r)'
    BY <2>1 DEF HandlerRight
  <2>5. EndRight(c)'
    BY <1>1, <1>2, <1>3, <1>4, <1>6, <2>1, <2>2, FreeRight
  <2>6. stale' \subseteq Http
    BY <1>6 DEF FlowRight
  <2>7. \A b \in Conns : b # c =>
             /\ out'[b] = out[b] /\ client'[b] = client[b] /\ disable'[b] = disable[b]
             /\ b \in freed' <=> b \in freed
             /\ \A q \in Reactors : b \in watched'[q] <=> b \in watched[q]
    BY <1>1, <1>6 DEF Free, TypeInv, TypeOK
  <2>8. c \in freed'
    BY <1>6 DEF Free
  <2> QED
    BY <1>1, <1>3, <2>1, <2>2, <2>3, <2>5, <2>6, <2>7, <2>8, StepAt DEF Alone
<1>7. CASE c \notin freed /\ Go(r, "mark", c) /\ UNCHANGED <<out, disable, watched, freed, stale>>
  <2>1. rpc'[r] = "mark" /\ at'[r] = c
    BY <1>7 DEF Go, TypeInv, TypeOK
  <2>2. Rest' = Rest
    BY <1>1, <2>1, RestKept
  <2>3. HandlerRight(r)'
    BY <1>7, <2>1 DEF HandlerRight
  <2>4. \A q \in Reactors : rpc'[q] \notin {"append", "store"}
    BY <2>1 DEF Alone
  <2>5. EndRight(c)'
    BY <1>1, <1>2, <1>7, <2>2, <2>4 DEF EndRight
  <2>6. stale' \subseteq Http
    BY <1>7 DEF FlowRight
  <2>7. Waiting(r, c)' = Waiting(r, c)
    BY <1>4, <1>7, <2>1 DEF Waiting, Adding
  <2> QED
    BY <1>1, <1>3, <1>7, <2>1, <2>2, <2>3, <2>5, <2>6, <2>7, StepAt DEF Alone
<1> QED
  BY <1>1, <1>5, <1>6, <1>7 DEF connVars

\* Nothing waits, so the event may go.
LEMMA FlowFlushNothing ==
    ASSUME TypeInv, FlowRight, NEW r \in Reactors, Alone(r), NEW c \in Conns, FlushNothing(r, c)
    PROVE  FlowRight'
<1>1. /\ rpc[r] = "idle" /\ out[c] = <<>> /\ watched' = [watched EXCEPT ![r] = @ \ {c}]
      /\ UNCHANGED <<sent, closing, owed, wbuf, pipe, rpc, at, data, seen, out, disable, client, freed, stale>>
  BY DEF FlushNothing, Begin, workerVars, threadVars
<1>2. \A q \in Reactors : rpc'[q] = "idle"
  BY <1>1 DEF Alone
<1>3. Rest' = Rest
  BY <1>1, RestKept
<1>4. EndRight(c)'
  <2>1. EndRight(c)
    BY DEF FlowRight
  <2> QED
    BY <1>1, <1>2, <1>3, <2>1 DEF EndRight
<1>5. HandlerRight(r)'
  BY <1>2 DEF HandlerRight
<1>6. Waiting(r, c)' = Waiting(r, c)
  BY <1>1 DEF Waiting
<1>7. stale' \subseteq Http
  BY <1>1 DEF FlowRight
<1>8. \A b \in Conns : b # c => \A q \in Reactors : b \in watched'[q] <=> b \in watched[q]
  BY <1>1 DEF TypeInv, TypeOK
<1> QED
  BY <1>1, <1>2, <1>3, <1>4, <1>5, <1>6, <1>7, <1>8, StepAt DEF Alone

\* What write() takes from the front of the send_buffer goes to the end of the socket.
LEMMA FlowFlush ==
    ASSUME TypeInv, FlowRight, NEW r \in Reactors, Alone(r), NEW c \in Conns, Flush(r, c)
    PROVE  FlowRight'
<1>1. PICK n \in 1..Len(out[c]) :
        /\ client' = [client EXCEPT ![c] = client[c] \o Take(out[c], n)]
        /\ data' = [data EXCEPT ![r] = Take(out[c], n)]
  <2>1. ~Mutating(r, c)
    BY DEF Mutating, Alone
  <2> QED
    BY <2>1 DEF Flush
<1>2. /\ rpc[r] = "idle" /\ disable[c] # 1 /\ Go(r, "trim", c)
      /\ UNCHANGED <<sent, closing, owed, wbuf, pipe, seen, out, disable, watched, freed, stale>>
  BY DEF Flush, Begin, workerVars
<1>3. rpc'[r] = "trim" /\ at'[r] = c
  BY <1>2 DEF Go, TypeInv, TypeOK
<1>4. EndRight(c) /\ c \notin freed
  BY <1>2 DEF FlowRight, EndRight
<1>5. out[c] \in Seq(Unit) /\ client[c] \in Seq(Unit)
  BY DEF TypeInv, TypeOK
<1>6. /\ Take(out[c], n) \in Seq(Unit) /\ Len(Take(out[c], n)) = n
      /\ Drop(out[c], n) \in Seq(Unit) /\ Take(out[c], n) \o Drop(out[c], n) = out[c]
  <2>1. n \in 0..Len(out[c])
    BY <1>5
  <2> QED
    BY <1>5, <2>1, TakeDrop
<1>7. /\ client'[c] = client[c] \o Take(out[c], n) /\ data'[r] = Take(out[c], n)
      /\ \A b \in Conns : b # c => client'[b] = client[b]
  BY <1>1 DEF TypeInv, TypeOK
<1>8. client'[c] \o Waiting(r, c)' = client[c] \o Waiting(r, c)
  <2> DEFINE t == Take(out[c], n)
             d == Drop(out[c], n)
  <2>1. Waiting(r, c)' = d /\ Waiting(r, c) = t \o d
    BY <1>2, <1>3, <1>6, <1>7 DEF Waiting, Adding
  <2>2. client'[c] = client[c] \o t /\ t \in Seq(Unit) /\ d \in Seq(Unit)
    BY <1>6, <1>7
  <2> HIDE DEF t, d
  <2>3. (client[c] \o t) \o d = client[c] \o (t \o d)
    BY <1>5, <2>2, UnitsAssociative
  <2> QED
    BY <2>1, <2>2, <2>3
<1>9. Rest' = Rest
  BY <1>2, <1>3, RestKept
<1>10. EndRight(c)'
  <2>1. \A q \in Reactors : rpc'[q] \notin {"close", "mark", "append", "store"}
    BY <1>3 DEF Alone
  <2> QED
    BY <1>2, <1>4, <1>9, <2>1 DEF EndRight
<1>11. HandlerRight(r)'
  BY <1>2, <1>3, <1>4 DEF HandlerRight
<1>12. stale' \subseteq Http
  BY <1>2 DEF FlowRight
<1> QED
  BY <1>2, <1>3, <1>4, <1>7, <1>8, <1>9, <1>10, <1>11, <1>12, StepAt DEF Alone

\* Only what was written leaves the send_buffer.
LEMMA FlowTrim ==
    ASSUME TypeInv, FlowRight, \A c \in Conns : OwedRight(c),
           NEW r \in Reactors, Alone(r), Trim(r)
    PROVE  FlowRight'
<1>0. PICK c \in Conns : c = at[r]
  BY DEF Trim, TypeInv, AtHand
<1> DEFINE rest == Drop(out[c], Len(data[r]))
<1>1. /\ rpc[r] = "trim" /\ Go(r, "idle", None)
      /\ UNCHANGED <<sent, closing, owed, wbuf, pipe, client>>
  BY DEF Trim, workerVars
<1>2. EndRight(c) /\ c \notin freed
  BY <1>0, <1>1 DEF FlowRight, HandlerRight
<1>3. /\ UNCHANGED stale
      /\ \/ rest = <<>> /\ (disable[c] = 2 \/ c \in Http) /\ Free(c)
         \/ /\ rest = <<>> /\ out' = [out EXCEPT ![c] = rest] /\ watched' = [watched EXCEPT ![r] = @ \ {c}]
            /\ UNCHANGED <<disable, freed>>
         \/ /\ rest # <<>> /\ out' = [out EXCEPT ![c] = rest]
            /\ UNCHANGED <<disable, watched, freed>>
  BY <1>0, <1>2 DEF Trim
<1>4. rpc'[r] = "idle" /\ \A q \in Reactors : rpc'[q] = "idle"
  BY <1>1 DEF Go, TypeInv, TypeOK, Alone
<1>5. Rest' = Rest
  BY <1>1, <1>4, RestKept
<1>6. HandlerRight(r)'
  BY <1>4 DEF HandlerRight
<1>7. stale' \subseteq Http
  BY <1>3 DEF FlowRight
<1>8. rpc[r] # "idle" => at[r] = c
  BY <1>0
<1>9. Waiting(r, c) = rest
  BY <1>1 DEF Waiting, Adding
<1> HIDE DEF rest
<1>10. CASE rest = <<>> /\ (disable[c] = 2 \/ c \in Http) /\ Free(c)
  <2>1. c \in Http \/ (c \in closing /\ NoFrames(Rest, c))
    BY <1>2, <1>10 DEF EndRight
  <2>2. EndRight(c)'
    BY <1>1, <1>2, <1>4, <1>5, <1>8, <1>9, <1>10, <2>1, FreeRight
  <2>3. /\ \A b \in Conns : b # c =>
             /\ out'[b] = out[b] /\ client'[b] = client[b] /\ disable'[b] = disable[b]
             /\ b \in freed' <=> b \in freed
             /\ \A q \in Reactors : b \in watched'[q] <=> b \in watched[q]
    BY <1>1, <1>10 DEF Free, TypeInv, TypeOK
  <2>4. c \in freed'
    BY <1>10 DEF Free
  <2> QED
    BY <1>1, <1>4, <1>5, <1>6, <1>7, <1>8, <2>2, <2>3, <2>4, StepAt DEF Alone
<1>11. ASSUME out' = [out EXCEPT ![c] = rest], UNCHANGED <<disable, freed>>,
              \/ rest = <<>> /\ watched' = [watched EXCEPT ![r] = @ \ {c}]
              \/ rest # <<>> /\ UNCHANGED watched
       PROVE  FlowRight'
  <2>1. out'[c] = rest /\ \A b \in Conns : b # c => out'[b] = out[b]
    BY <1>11 DEF TypeInv, TypeOK
  <2>2. \A b \in Conns : b # c => \A q \in Reactors : b \in watched'[q] <=> b \in watched[q]
    BY <1>11 DEF TypeInv, TypeOK
  <2>3. Waiting(r, c)' = Waiting(r, c)
    BY <1>4, <1>9, <2>1 DEF Waiting, Adding
  <2>4. ASSUME rest # <<>> PROVE \E q \in Reactors : c \in watched'[q]
    <3>1. out[c] # <<>>
      <4> SUFFICES ASSUME out[c] = <<>> PROVE FALSE
        OBVIOUS
      <4>1. Len(data[r]) \in Nat
        BY DEF TypeInv, TypeOK
      <4>2. SubSeq(<<>>, Len(data[r]) + 1, 0) = <<>>
        BY <4>1
      <4> QED
        BY <2>4, <4>2 DEF rest, Drop
    <3> QED
      BY <1>2, <1>11, <2>4, <3>1 DEF EndRight
  <2>5. EndRight(c)'
    BY <1>1, <1>2, <1>4, <1>5, <1>11, <2>1, <2>4 DEF EndRight
  <2> QED
    BY <1>1, <1>2, <1>4, <1>5, <1>6, <1>7, <1>8, <1>11, <2>1, <2>2, <2>3, <2>5, StepAt DEF Alone
<1> QED
  BY <1>3, <1>10, <1>11

\* A reactor that reads the body reads what the header announced.
LEMMA FlowBody ==
    ASSUME TypeInv, FrameInv, FlowRight, ~cut, ~mixed', NEW r \in Reactors, Alone(r), ReadBody(r)
    PROVE  FlowRight'
<1>0. PICK c \in Conns : c = at[r]
  BY DEF ReadBody, TypeInv, AtHand
<1>1. Rest' = Rest /\ pipe # <<>> /\ data' = data
  BY BodyTaken
<1>2. /\ rpc[r] = "body"
      /\ UNCHANGED <<sent, closing, owed, out, disable, client, freed>>
  BY DEF ReadBody, workerVars
<1>3. \/ /\ c \notin freed /\ Go(r, "append", c)
         /\ watched' = IF out[c] = <<>> THEN [watched EXCEPT ![r] = @ \cup {c}] ELSE watched
         /\ UNCHANGED stale
      \/ /\ c \in freed /\ Go(r, "idle", None)
         /\ stale' = stale \cup {c} /\ UNCHANGED watched
  <2>1. ~Mutating(r, c)
    BY DEF Mutating, Alone
  <2> QED
    BY <1>0, <1>1, <2>1 DEF ReadBody
<1>4. EndRight(c) /\ HandlerRight(r)
  BY DEF FlowRight
<1>5. rpc[r] # "idle" => at[r] = c
  BY <1>0
<1>6. CASE c \notin freed /\ Go(r, "append", c) /\ UNCHANGED stale
           /\ watched' = IF out[c] = <<>> THEN [watched EXCEPT ![r] = @ \cup {c}] ELSE watched
  <2>1. rpc'[r] = "append" /\ at'[r] = c
    BY <1>6 DEF Go, TypeInv, TypeOK
  <2>2. HandlerRight(r)'
    BY <1>2, <1>6, <2>1 DEF HandlerRight
  <2>3. \E q \in Reactors : c \in watched'[q]
    <3>1. CASE out[c] = <<>>
      BY <1>6, <3>1 DEF TypeInv, TypeOK
    <3>2. CASE out[c] # <<>>
      BY <1>4, <1>6, <3>2 DEF EndRight
    <3> QED
      BY <3>1, <3>2
  <2>4. \A q \in Reactors : rpc'[q] \notin {"close", "mark"}
    BY <2>1 DEF Alone
  <2>5. EndRight(c)'
    BY <1>1, <1>2, <1>4, <1>6, <2>3, <2>4 DEF EndRight
  <2>6. stale' \subseteq Http
    BY <1>6 DEF FlowRight
  <2>7. Waiting(r, c)' = Waiting(r, c)
    BY <1>1, <1>2, <2>1 DEF Waiting, Adding
  <2>8. \A b \in Conns : b # c => \A q \in Reactors : b \in watched'[q] <=> b \in watched[q]
    BY <1>6 DEF TypeInv, TypeOK
  <2> QED
    BY <1>1, <1>2, <1>5, <1>6, <2>1, <2>2, <2>5, <2>6, <2>7, <2>8, StepAt DEF Alone
<1>7. CASE c \in freed /\ Go(r, "idle", None) /\ stale' = stale \cup {c} /\ UNCHANGED watched
  <2>1. rpc'[r] = "idle"
    BY <1>7 DEF Go, TypeInv, TypeOK
  <2>2. HandlerRight(r)'
    BY <2>1 DEF HandlerRight
  <2>3. \A q \in Reactors : rpc'[q] = "idle"
    BY <2>1 DEF Alone
  <2>4. EndRight(c)'
    BY <1>1, <1>2, <1>4, <1>7, <2>3 DEF EndRight
  <2>5. stale' \subseteq Http
    BY <1>0, <1>2, <1>4, <1>7 DEF FlowRight, HandlerRight
  <2> QED
    BY <1>1, <1>2, <1>5, <1>7, <2>1, <2>2, <2>4, <2>5, StepAt DEF Alone
<1> QED
  BY <1>3, <1>6, <1>7

\* The first frame that is left is the next one of its connection.
LEMMA FlowHeader ==
    ASSUME TypeInv, FrameInv, FlowRight, \A c \in Conns : OwedRight(c), ~cut, ~mixed',
           NEW r \in Reactors, Alone(r), ReadHeader(r)
    PROVE  FlowRight'
<1> DEFINE g == Rest[1].frame
<1>1. /\ ~Reading /\ g \in Frame /\ Rest # <<>> /\ Framed(Rest) /\ Rest' = Drop(Rest, FrameLen(g))
      /\ rpc' = [rpc EXCEPT ![r] = IF g.type = "message" THEN "body" ELSE "close"]
      /\ at' = [at EXCEPT ![r] = g.conn] /\ data' = [data EXCEPT ![r] = Body(g)]
  BY HeaderTaken
<1>2. PICK f \in Frame : f = g
  BY <1>1
<1>3. PICK c \in Conns : c = f.conn
  BY DEF Frame
<1>4. /\ rpc'[r] = (IF f.type = "message" THEN "body" ELSE "close")
      /\ at'[r] = c /\ data'[r] = Body(f)
  BY <1>1, <1>2, <1>3 DEF TypeInv, TypeOK
<1>5. /\ rpc[r] = "idle"
      /\ UNCHANGED <<sent, closing, owed, out, disable, client, freed, watched, stale>>
  BY DEF ReadHeader, Begin, workerVars, connVars
<1>6. Rest \in Seq(Unit)
  BY <1>1, StreamType
<1>7. Rest[1].frame = f /\ Rest' = Drop(Rest, FrameLen(f))
  BY <1>1, <1>2
<1> HIDE DEF g
<1>8. ASSUME NEW b \in Conns, NoFrames(Rest, b) PROVE f.conn # b /\ NoFrames(Rest', b)
  BY <1>1, <1>6, <1>7, <1>8, NoFramesTake
<1>9. ASSUME NEW b \in Conns, b # c PROVE BytesRight(b)' /\ EndRight(b)'
  <2>1. ASSUME NEW n \in Nat, NEW d \in 0..n, NEW closed \in BOOLEAN, Queued(Rest, b, d, n, closed)
        PROVE  Queued(Rest', b, d, n, closed)
    <3>1. d \in Nat /\ d <= n /\ Rest[1].frame.conn # b
      BY <1>3, <1>7, <1>9
    <3>2. Rest[1].frame.conn # b => Queued(Drop(Rest, FrameLen(Rest[1].frame)), b, d, n, closed)
      BY <1>1, <1>6, <2>1, <3>1, QueuedTake
    <3> QED
      BY <1>7, <3>1, <3>2
  <2>2. NoFrames(Rest, b) => NoFrames(Rest', b)
    BY <1>8
  <2> QED
    BY <1>4, <1>5, <1>9, <2>1, <2>2, OtherConns DEF FlowRight, Alone
<1>10. PICK d \in 0..sent[c] :
         /\ Queued(Rest, c, d, sent[c], c \in closing)
         /\ c \notin freed => client[c] \o out[c] = Take(owed[c], Bytes(d))
  <2>1. BytesRight(c)
    BY DEF FlowRight
  <2>2. CASE c \in freed
    BY <2>1, <2>2 DEF BytesRight
  <2>3. CASE c \notin freed
    <3>1. Waiting(r, c) = out[c]
      BY <1>5 DEF Waiting, Adding
    <3> QED
      BY <1>5, <2>1, <2>3, <3>1, BytesAt DEF Alone
  <2> QED
    BY <2>2, <2>3
<1>11. /\ sent[c] \in Nat /\ d \in Nat /\ d <= sent[c] /\ (c \in closing) \in BOOLEAN
       /\ owed[c] \in Seq(Unit) /\ out[c] \in Seq(Unit) /\ client[c] \in Seq(Unit)
  <2>1. sent[c] \in 0..MaxMsgs /\ MaxMsgs \in Nat
    BY SizesAssumption DEF TypeInv, TypeOK
  <2>2. owed[c] \in Seq(Unit) /\ out[c] \in Seq(Unit) /\ client[c] \in Seq(Unit)
    BY DEF TypeInv, TypeOK
  <2> QED
    BY <2>1, <2>2
<1>12. /\ f.type = "message" =>
            /\ d < sent[c] /\ f = MessageTo(c, d + 1)
            /\ Queued(Rest', c, d + 1, sent[c], c \in closing)
       /\ f.type # "message" =>
            /\ c \in closing /\ Queued(Rest', c, d, sent[c], c \in closing) /\ NoFrames(Rest', c)
  <2>1. PICK closed \in BOOLEAN : closed = (c \in closing)
    BY <1>11
  <2>2. Queued(Rest, c, d, sent[c], closed)
    BY <1>10, <2>1
  <2>3. /\ Rest[1].frame.conn = c /\ Rest[1].frame.type = "message" =>
             /\ d < sent[c] /\ Rest[1].frame = MessageTo(c, d + 1)
             /\ Queued(Drop(Rest, FrameLen(Rest[1].frame)), c, d + 1, sent[c], closed)
        /\ Rest[1].frame.conn = c /\ Rest[1].frame.type # "message" =>
             /\ closed /\ Queued(Drop(Rest, FrameLen(Rest[1].frame)), c, d, sent[c], closed)
             /\ NoFrames(Drop(Rest, FrameLen(Rest[1].frame)), c)
    BY <1>1, <1>6, <1>11, <2>2, QueuedTake
  <2> QED
    BY <1>3, <1>7, <2>1, <2>3
<1>13. EndRight(c) /\ ~NoFrames(Rest, c)
  BY <1>3, <1>8 DEF FlowRight
<1>14. c \notin freed \ Http /\ disable[c] # 2
  BY <1>13 DEF EndRight
<1>15. HandlerRight(r)'
  BY <1>4, <1>5, <1>14 DEF HandlerRight
<1>16. EndRight(c)'
  <2>1. \A q \in Reactors : rpc'[q] \in {"close", "mark"} => f.type # "message"
    BY <1>4 DEF Alone
  <2>2. \A q \in Reactors : rpc'[q] \notin {"append", "store"}
    BY <1>4 DEF Alone
  <2> QED
    BY <1>5, <1>12, <1>13, <1>14, <2>1, <2>2 DEF EndRight
<1>17. BytesRight(c)'
  <2>1. CASE f.type = "message"
    <3>1. d + 1 \in 0..sent[c]
      BY <1>11, <1>12, <2>1
    <3>2. ASSUME c \notin freed PROVE Moved(c, d + 1)'
      <4>1. Body(f) \in Seq(Unit)
        BY <2>1, BodyElements
      <4>2. Take(owed[c], Bytes(d + 1)) = Take(owed[c], Bytes(d)) \o Body(f)
        BY <1>12, <2>1, OwedPrefix
      <4>3. client[c] \o out[c] = Take(owed[c], Bytes(d))
        BY <1>10, <3>2
      <4>4. client[c] \o (out[c] \o Body(f)) = Take(owed[c], Bytes(d + 1))
        <5> DEFINE b == Body(f)
        <5> HIDE DEF b
        <5>1. (client[c] \o out[c]) \o b = client[c] \o (out[c] \o b)
          BY <1>11, <4>1, UnitsAssociative DEF b
        <5> QED
          BY <4>2, <4>3, <5>1 DEF b
      <4>5. rpc'[r] = "body" /\ \A q \in Reactors : q # r => rpc'[q] = "idle"
        BY <1>4, <2>1 DEF Alone
      <4> HIDE DEF Body
      <4>6. \A q \in Reactors : rpc'[q] \in Adding \cup {"trim"} => q = r /\ rpc'[q] = "body"
        BY <4>5 DEF Adding
      <4> QED
        BY <1>4, <1>5, <4>4, <4>5, <4>6 DEF Moved, Adding
    <3> QED
      BY <1>5, <1>12, <2>1, <3>1, <3>2 DEF BytesRight
  <2>2. CASE f.type # "message"
    <3>1. \A q \in Reactors : rpc'[q] \notin Adding \cup {"trim"}
      BY <1>4, <2>2 DEF Alone, Adding
    <3>2. ASSUME c \notin freed PROVE Moved(c, d)'
      BY <1>5, <1>10, <3>1, <3>2 DEF Moved
    <3> QED
      BY <1>5, <1>12, <2>2, <3>2 DEF BytesRight
  <2> QED
    BY <2>1, <2>2
<1>18. \A q \in Reactors : HandlerRight(q)'
  BY <1>15 DEF HandlerRight, Alone
<1> QED
  BY <1>5, <1>9, <1>16, <1>17, <1>18 DEF FlowRight

-----------------------------------------------------------------------------
(* The steps of the worker, and the whole invariant.                       *)

\* The worker posts a message or a close.
LEMMA FlowPost ==
    ASSUME TypeInv, FrameInv, FlowRight, \A c \in Conns : OwedRight(c), ~cut, ~mixed,
           NEW b \in Conns, Reply(b) \/ Close(b)
    PROVE  FlowRight'
<1>1. /\ b \notin closing
      /\ UNCHANGED <<pipe, rpc, at, data, seen, out, disable, watched, client, freed, stale>>
  BY DEF Reply, Close, threadVars, connVars, histVars
<1>2. /\ sent \in [Conns -> 0..MaxMsgs] /\ MaxMsgs \in Nat
      /\ \A c \in Conns : sent[c] \in Nat
  BY SizesAssumption DEF TypeInv, TypeOK
<1>3. PICK f \in Frame :
        /\ Post(f) /\ f.conn = b
        /\ \/ Reply(b) /\ f = MessageTo(b, sent[b] + 1) /\ closing' = closing
           \/ f.type = "close" /\ closing' = closing \cup {b} /\ UNCHANGED <<sent, owed>>
  <2>1. CASE Reply(b)
    <3>1. MessageTo(b, sent[b] + 1) \in Frame
      BY <2>1, OwedPost
    <3>2. Post(MessageTo(b, sent[b] + 1)) /\ closing' = closing
      BY <2>1 DEF Reply, MessageTo
    <3>3. MessageTo(b, sent[b] + 1).conn = b
      BY DEF MessageTo
    <3> QED
      BY <2>1, <3>1, <3>2, <3>3
  <2>2. CASE Close(b)
    <3> DEFINE f == [conn |-> b, type |-> "close", num |-> 0]
    <3>1. f \in Frame /\ f.conn = b /\ f.type = "close"
      BY SizesAssumption DEF Frame
    <3>2. Post(f) /\ closing' = closing \cup {b} /\ UNCHANGED <<sent, owed>>
      BY <2>2 DEF Close
    <3> QED
      BY <3>1, <3>2
  <2> QED
    BY <2>1, <2>2
<1>4. Rest \in Seq(Unit) /\ Rest' = Rest \o Units(f)
  <2>1. Reading => BodyLen <= Len(pipe)
    BY DEF FrameInv, Reading
  <2> QED
    BY <1>1, <1>3, <2>1, StreamType, RestPost
<1>5. \A c \in Conns : c # b => owed'[c] = owed[c] /\ sent'[c] = sent[c] /\ (c \in closing' <=> c \in closing)
  BY <1>3, OwedPost
<1>6. ASSUME NEW c \in Conns, c # b PROVE BytesRight(c)' /\ EndRight(c)'
  <2>1. PICK d \in 0..sent[c] :
          Queued(Rest, c, d, sent[c], c \in closing) /\ (c \notin freed => Moved(c, d))
    BY DEF FlowRight, BytesRight
  <2>2. d \in Nat /\ sent[c] \in Nat
    BY <1>2
  <2>c. (c \in closing) \in BOOLEAN
    OBVIOUS
  <2>3. PICK closed \in BOOLEAN : closed = (c \in closing)
    BY <2>c
  <2>4. Queued(Rest', c, d, sent[c], closed) /\ (NoFrames(Rest, c) => NoFrames(Rest', c))
    <3>1. Queued(Rest, c, d, sent[c], closed)
      BY <2>1, <2>3
    <3>2. f.conn # c
      BY <1>3, <1>6
    <3>3. /\ Queued(Rest \o Units(f), c, d, sent[c], closed)
          /\ NoFrames(Rest, c) => NoFrames(Rest \o Units(f), c)
      BY <1>4, <2>2, <3>1, <3>2, QueuedOther
    <3> QED
      BY <1>4, <3>3
  <2>5. closed = (c \in closing')
    BY <1>5, <1>6, <2>3
  <2>6. c \notin freed' => Moved(c, d)'
    BY <1>1, <1>5, <1>6, <2>1 DEF Moved
  <2>7. BytesRight(c)'
    BY <1>5, <1>6, <2>4, <2>5, <2>6 DEF BytesRight
  <2>8. EndRight(c)
    BY DEF FlowRight
  <2>9. EndRight(c)'
    BY <1>1, <1>5, <1>6, <2>4, <2>8 DEF EndRight
  <2> QED
    BY <2>7, <2>9
<1>7. /\ EndRight(b) /\ b \notin freed \ Http /\ disable[b] # 2
      /\ \A q \in Reactors : ~(rpc[q] \in {"close", "mark"} /\ at[q] = b)
  <2>1. EndRight(b)
    BY DEF FlowRight
  <2> QED
    BY <1>1, <2>1 DEF EndRight
<1>8. PICK d \in 0..sent[b] :
        Queued(Rest, b, d, sent[b], b \in closing) /\ (b \notin freed => Moved(b, d))
  BY DEF FlowRight, BytesRight
<1>9. d \in Nat /\ sent[b] \in Nat /\ d <= sent[b] /\ Queued(Rest, b, d, sent[b], FALSE)
  <2>1. (b \in closing) = FALSE
    BY <1>1
  <2>2. Queued(Rest, b, d, sent[b], FALSE)
    BY <1>8, <2>1
  <2>3. d \in Nat /\ sent[b] \in Nat /\ d <= sent[b]
    BY <1>2
  <2> QED
    BY <2>2, <2>3
<1>10. CASE Reply(b) /\ f = MessageTo(b, sent[b] + 1) /\ closing' = closing
  <2>1. /\ sent'[b] = sent[b] + 1 /\ owed'[b] = owed[b] \o Body(f)
        /\ Take(owed'[b], Bytes(d)) = Take(owed[b], Bytes(d))
    BY <1>10, OwedPost
  <2>2. (b \in closing') = FALSE
    BY <1>1, <1>10
  <2>3. Queued(Rest', b, d, sent[b] + 1, FALSE)
    <3>1. MessageTo(b, sent[b] + 1) \in Frame
      BY <1>10
    <3> QED
      BY <1>4, <1>9, <1>10, <3>1, QueuedPost
  <2>4. BytesRight(b)'
    <3>1. d \in 0..sent'[b]
      BY <1>9, <2>1
    <3>2. b \notin freed' => Moved(b, d)'
      BY <1>1, <1>8, <2>1 DEF Moved
    <3>3. Queued(Rest', b, d, sent'[b], b \in closing')
      BY <2>1, <2>2, <2>3
    <3> QED
      BY <3>1, <3>2, <3>3 DEF BytesRight
  <2>5. IsPrefix(client[b], owed[b]) => IsPrefix(client[b], owed'[b])
    <3> DEFINE s == client[b]
               o == owed[b]
               x == Body(f)
    <3>1. s \in Seq(Unit) /\ o \in Seq(Unit)
      BY DEF TypeInv, TypeOK
    <3>2. x \in Seq(Unit)
      <4>1. f.type = "message"
        BY <1>10 DEF MessageTo
      <4> QED
        BY <4>1, BodyElements
    <3> HIDE DEF s, o, x
    <3>3. ASSUME IsPrefix(s, o) PROVE IsPrefix(s, o \o x)
      <4>1. Len(s) \in 0..Len(o) /\ s = Take(o, Len(s))
        BY <3>1, <3>3 DEF IsPrefix
      <4>2. Take(o \o x, Len(s)) = Take(o, Len(s))
        BY <3>1, <3>2, <4>1, TakeConcat
      <4>3. Len(s) <= Len(o \o x)
        BY <3>1, <3>2, <4>1, ConcatProperties
      <4> QED
        BY <4>1, <4>2, <4>3 DEF IsPrefix
    <3> QED
      BY <2>1, <3>3 DEF s, o, x
  <2>6. EndRight(b)'
    BY <1>1, <1>7, <2>5 DEF EndRight
  <2> QED
    BY <1>1, <1>6, <2>4, <2>6 DEF FlowRight, HandlerRight
<1>11. CASE f.type = "close" /\ closing' = closing \cup {b} /\ UNCHANGED <<sent, owed>>
  <2>1. (b \in closing') = TRUE
    BY <1>11
  <2>2. Queued(Rest', b, d, sent[b], TRUE)
    BY <1>3, <1>4, <1>9, <1>11, QueuedPost
  <2>3. BytesRight(b)'
    <3>1. b \notin freed' => Moved(b, d)'
      BY <1>1, <1>8, <1>11 DEF Moved
    <3>2. Queued(Rest', b, d, sent'[b], b \in closing')
      BY <1>11, <2>1, <2>2
    <3> QED
      BY <1>8, <1>11, <3>1, <3>2 DEF BytesRight
  <2>4. EndRight(b)'
    BY <1>1, <1>7, <1>11 DEF EndRight
  <2> QED
    BY <1>1, <1>6, <2>3, <2>4 DEF FlowRight, HandlerRight
<1> QED
  BY <1>3, <1>10, <1>11

\* A step that leaves the unread frames, the handlers and the connections alone.
LEMMA FlowKept ==
    ASSUME FlowRight, Rest' = Rest, UNCHANGED <<sent, closing, owed, rpc, at, data, seen, connVars, stale>>
    PROVE  FlowRight'
<1>0. UNCHANGED <<out, disable, watched, client, freed>>
  BY DEF connVars
<1>1. ASSUME NEW c \in Conns PROVE BytesRight(c)'
  <2>1. PICK d \in 0..sent[c] :
          Queued(Rest, c, d, sent[c], c \in closing) /\ (c \notin freed => Moved(c, d))
    BY DEF FlowRight, BytesRight
  <2>2. Moved(c, d) => Moved(c, d)'
    BY <1>0 DEF Moved
  <2> QED
    BY <1>0, <2>1, <2>2 DEF BytesRight
<1>2. ASSUME NEW c \in Conns PROVE EndRight(c)'
  <2>1. EndRight(c)
    BY DEF FlowRight
  <2> QED
    BY <1>0, <2>1 DEF EndRight
<1>3. ASSUME NEW r \in Reactors PROVE HandlerRight(r)'
  <2>1. HandlerRight(r)
    BY DEF FlowRight
  <2> QED
    BY <1>0, <2>1 DEF HandlerRight
<1> QED
  BY <1>1, <1>2, <1>3 DEF FlowRight

\* Every step keeps the bytes accounted for until overlap or cut.
LEMMA StepFlow == TypeInv /\ FrameInv /\ FlowInv /\ [Next]_vars => FlowInv'
<1> SUFFICES ASSUME TypeInv, FrameInv, FlowInv, [Next]_vars PROVE FlowInv'
  OBVIOUS
<1>1. \A c \in Conns : OwedRight(c) /\ OwedRight(c)'
  BY StepOwed DEF FlowInv
<1>2. (mixed' => overlap') /\ (~overlap' => Serial')
  BY StepSerial DEF FlowInv
<1>3. ASSUME ~overlap', ~cut' PROVE FlowRight'
  <2>0. cut \in BOOLEAN /\ cut' \in BOOLEAN /\ mixed \in BOOLEAN /\ overlap \in BOOLEAN
    BY StepType DEF TypeInv, TypeOK
  <2>1. ~mixed'
    BY <1>2, <1>3
  <2>2. ASSUME ~overlap, ~cut PROVE ~mixed /\ FlowRight
    BY <2>2 DEF FlowInv
  <2>3. ASSUME NEW b \in Conns, Reply(b) \/ Close(b) PROVE FlowRight'
    <3>1. ~overlap /\ ~cut
      BY <1>3, <2>3 DEF Reply, Close, histVars
    <3> QED
      BY <1>1, <2>2, <2>3, <3>1, FlowPost
  <2>4. CASE WorkerWrite
    <3>1. UNCHANGED <<overlap, sent, closing, owed, rpc, at, data, seen, connVars, stale>>
      BY <2>4 DEF WorkerWrite, threadVars, histVars
    <3>2. ~cut
      BY <1>3, <2>0, <2>4 DEF WorkerWrite
    <3>3. ~overlap
      BY <1>3, <3>1
    <3>4. ~mixed /\ FlowRight
      BY <2>2, <3>2, <3>3
    <3>5. Reading => BodyLen <= Len(pipe)
      BY <3>2, <3>4 DEF FrameInv, Reading
    <3>6. Rest' = Rest
      BY <2>4, <3>5, RestWrite
    <3> QED
      BY <3>1, <3>4, <3>6, FlowKept
  <2>5. ASSUME NEW r \in Reactors, Read(r) \/ Trim(r) \/ \E c \in Conns : Write(r, c)
        PROVE  FlowRight'
    <3>1. UNCHANGED cut
      BY <2>5 DEF Read, Write, ReadHeader, ReadGarbage, ReadBody, AppendStart, AppendStore,
                  TestClose, MarkClosing, FlushNothing, Flush, Trim, workerVars
    <3>2. ~overlap /\ Alone(r)
      BY <1>3, <2>5, OthersIdle DEF FlowInv, Alone
    <3>3. ~cut /\ ~mixed /\ FlowRight
      BY <1>3, <2>2, <3>1, <3>2
    <3>4. CASE ReadGarbage(r)
      <4>1. pipe # <<>> /\ HeaderOf(Take(pipe, Least(HdrLen, Len(pipe)))) = None /\ rpc[r] = "idle"
        BY <3>4 DEF ReadGarbage, Begin
      <4>2. ~Reading
        BY <3>2, <4>1 DEF Reading, Alone
      <4> QED
        BY <3>3, <4>1, <4>2, HeaderThere, NoneAssumption
    <3>5. CASE ReadHeader(r)
      BY <1>1, <2>1, <3>2, <3>3, <3>5, FlowHeader
    <3>6. CASE ReadBody(r)
      BY <2>1, <3>2, <3>3, <3>6, FlowBody
    <3>7. CASE AppendStart(r)
      BY <3>2, <3>3, <3>7, FlowAppendStart
    <3>8. CASE AppendStore(r)
      BY <3>2, <3>3, <3>8, FlowAppendStore
    <3>9. CASE TestClose(r)
      BY <1>1, <3>2, <3>3, <3>9, FlowTestClose
    <3>10. CASE MarkClosing(r)
      BY <3>2, <3>3, <3>10, FlowMarkClosing
    <3>11. CASE Trim(r)
      BY <1>1, <3>2, <3>3, <3>11, FlowTrim
    <3>12. CASE \E c \in Conns : Write(r, c)
      BY <3>2, <3>3, <3>12, FlowFlushNothing, FlowFlush DEF Write
    <3> QED
      BY <2>5, <3>4, <3>5, <3>6, <3>7, <3>8, <3>9, <3>10, <3>11, <3>12 DEF Read
  <2>6. CASE UNCHANGED vars
    <3>1. /\ UNCHANGED <<overlap, cut, pipe, wbuf>>
          /\ UNCHANGED <<sent, closing, owed, rpc, at, data, seen, connVars, stale>>
      BY <2>6 DEF vars, workerVars, threadVars, histVars
    <3>2. Rest' = Rest
      BY <3>1 DEF Rest, Stream, Reading
    <3>3. FlowRight
      BY <1>3, <2>2, <3>1
    <3> QED
      BY <3>1, <3>2, <3>3, FlowKept
  <2> QED
    BY <2>3, <2>4, <2>5, <2>6 DEF Next
<1> QED
  BY <1>1, <1>2, <1>3 DEF FlowInv

\* Nothing is posted, read or written at first.
LEMMA InitFlow == Init => FlowInv
<1> SUFFICES ASSUME Init PROVE FlowInv
  OBVIOUS
<1>1. /\ \A r \in Reactors : rpc[r] = "idle"
      /\ \A c \in Conns : /\ sent[c] = 0 /\ owed[c] = <<>> /\ out[c] = <<>> /\ client[c] = <<>>
                          /\ disable[c] = 0
      /\ freed = {} /\ stale = {} /\ ~mixed /\ ~overlap
  BY DEF Init
<1>2. Rest = <<>>
  <2>1. ~Reading
    BY <1>1 DEF Reading
  <2> QED
    BY <2>1 DEF Init, Rest, Stream
<1>3. Bytes(0) = 0 /\ Take(<<>>, 0) = <<>>
  <2>1. 0 \in Nat /\ 0 <= 0
    OBVIOUS
  <2>2. Bytes(0) = 0
    BY <2>1, BytesProperties
  <2>3. Take(<<>>, 0) = <<>>
    BY DEF Take
  <2> QED
    BY <2>2, <2>3
<1>4. ASSUME NEW c \in Conns PROVE OwedRight(c)
  BY <1>1, <1>3 DEF OwedRight
<1>5. ASSUME NEW c \in Conns PROVE BytesRight(c)
  <2>1. Queued(Rest, c, 0, sent[c], c \in closing)
    BY <1>1, <1>2 DEF Queued
  <2>2. Moved(c, 0)
    <3>1. <<>> \o <<>> = <<>>
      OBVIOUS
    <3>2. client[c] \o out[c] = Take(owed[c], Bytes(0))
      BY <1>1, <1>3, <3>1
    <3> QED
      BY <1>1, <3>2 DEF Moved, Adding
  <2> QED
    BY <1>1, <2>1, <2>2 DEF BytesRight
<1>6. ASSUME NEW c \in Conns PROVE EndRight(c)
  BY <1>1 DEF EndRight
<1>7. \A r \in Reactors : HandlerRight(r)
  BY <1>1 DEF HandlerRight
<1>8. Serial
  BY <1>1 DEF Serial
<1> QED
  BY <1>1, <1>4, <1>5, <1>6, <1>7, <1>8 DEF FlowInv, FlowRight

-----------------------------------------------------------------------------
(* What the clients receive.                                               *)

\* Two sequences of which one continues to a prefix of the other.
LEMMA PrefixOfTake ==
    ASSUME NEW s \in Seq(Unit), NEW x \in Seq(Unit), NEW o \in Seq(Unit), NEW k \in 0..Len(o),
           s \o x = Take(o, k)
    PROVE  IsPrefix(s, o)
<1>1. Len(Take(o, k)) = k /\ \A i \in 1..k : Take(o, k)[i] = o[i]
  BY TakeElements
<1>2. /\ Len(s \o x) = Len(s) + Len(x)
      /\ \A i \in 1..Len(s) + Len(x) : (s \o x)[i] = IF i <= Len(s) THEN s[i] ELSE x[i - Len(s)]
  BY ConcatProperties
<1>3. Len(s) \in 0..Len(o) /\ Len(s) + Len(x) = k
  BY <1>1, <1>2
<1>4. ASSUME NEW i \in 1..Len(s) PROVE s[i] = o[i]
  <2>1. i \in 1..Len(s) + Len(x) /\ i <= Len(s) /\ i \in 1..k
    BY <1>3
  <2> QED
    BY <1>1, <1>2, <2>1
<1> DEFINE t == Take(o, Len(s))
<1>5. t \in Seq(Unit) /\ Len(t) = Len(s) /\ \A i \in 1..Len(s) : t[i] = o[i]
  BY <1>3, TakeDrop, TakeElements
<1> HIDE DEF t
<1>6. s = t
  BY <1>4, <1>5, SameUnits
<1> QED
  BY <1>3, <1>6 DEF IsPrefix, t

\* What the clients see follows from where their bytes are.
LEMMA RepliesRight ==
    ASSUME TypeInv, FlowRight, \A c \in Conns : OwedRight(c)
    PROVE  ClientGetsReplies /\ ClosedAfterReplies /\ ReplyIsWatched
<1>1. ASSUME NEW c \in Conns PROVE IsPrefix(client[c], owed[c])
  <2>1. CASE c \in freed
    BY <2>1 DEF FlowRight, EndRight
  <2>2. CASE c \notin freed
    <3>1. PICK d \in 0..sent[c] : Moved(c, d)
      BY <2>2 DEF FlowRight, BytesRight
    <3>2. /\ client[c] \in Seq(Unit) /\ out[c] \in Seq(Unit)
          /\ \A r \in Reactors : data[r] \in Seq(Unit) /\ Len(data[r]) \in Nat
      BY DEF TypeInv, TypeOK
    <3>3. owed[c] \in Seq(Unit) /\ Bytes(d) \in 0..Len(owed[c])
      BY OwedPrefix
    <3>4. \E x \in Seq(Unit) : client[c] \o x = Take(owed[c], Bytes(d))
      <4>1. ASSUME NEW r \in Reactors, rpc[r] \in Adding, at[r] = c
            PROVE  \E x \in Seq(Unit) : client[c] \o x = Take(owed[c], Bytes(d))
        <5>1. out[c] \o data[r] \in Seq(Unit)
          BY <3>2, ConcatProperties
        <5> QED
          BY <3>1, <4>1, <5>1 DEF Moved
      <4>2. ASSUME NEW r \in Reactors, rpc[r] = "trim", at[r] = c
            PROVE  \E x \in Seq(Unit) : client[c] \o x = Take(owed[c], Bytes(d))
        <5>1. Drop(out[c], Len(data[r])) \in Seq(Unit)
          BY <3>2, DropType
        <5> QED
          BY <3>1, <4>2, <5>1 DEF Moved
      <4>3. ASSUME \A r \in Reactors : rpc[r] \in Adding \cup {"trim"} => at[r] # c
            PROVE  \E x \in Seq(Unit) : client[c] \o x = Take(owed[c], Bytes(d))
        BY <3>1, <3>2, <4>3 DEF Moved
      <4> QED
        BY <4>1, <4>2, <4>3
    <3> QED
      BY <3>2, <3>3, <3>4, PrefixOfTake
  <2> QED
    BY <2>1, <2>2
<1>2. \A c \in Conns : EndRight(c)
  BY DEF FlowRight
<1>3. ClosedAfterReplies
  <2>1. \A c \in Conns : c \in freed \ Http => client[c] = owed[c]
    BY <1>2 DEF EndRight
  <2>2. freed \subseteq Conns
    BY DEF TypeInv, TypeOK
  <2> QED
    BY <2>1, <2>2 DEF ClosedAfterReplies
<1>4. ReplyIsWatched
  <2>1. \A c \in Conns : out[c] # <<>> => \E r \in Reactors : c \in watched[r]
    BY <1>2 DEF EndRight
  <2> QED
    BY <2>1 DEF ReplyIsWatched
<1> QED
  BY <1>1, <1>3, <1>4 DEF ClientGetsReplies

ReplyInv == TypeInv /\ FrameInv /\ FlowInv

\* The invariant of the reply path.
LEMMA ReplyInvCorrect == Spec => []ReplyInv
<1>1. Init => ReplyInv
  BY InitType, InitFrame, InitFlow DEF ReplyInv
<1>2. ReplyInv /\ [Next]_vars => ReplyInv'
  BY StepType, StepFrame, StepFlow DEF ReplyInv
<1> QED
  BY <1>1, <1>2, PTL DEF Spec

\* As long as the handlers of no two reactors overlap and no write() of the worker ends
\* inside a frame, every client receives a prefix of its replies, a connection is freed
\* only when all of them were written, what waits is watched, and only an HTTP
\* connection is used after it was freed (aeserver.c:175-183, 585, 595, 604, 621-634).
THEOREM OnlyOverlapsHarmCorrect == Spec => []OnlyOverlapsHarm
<1>1. ReplyInv => OnlyOverlapsHarm
  BY RepliesRight DEF ReplyInv, FlowInv, FlowRight, OnlyOverlapsHarm
<1> QED
  BY <1>1, ReplyInvCorrect, PTL

\* With one reactor no two handlers overlap.
LEMMA SoloReplies ==
    ASSUME NEW r, Reactors = {r}
    PROVE  Spec => [](ReplyInv /\ ~overlap)
<1>1. Init => ~overlap
  BY DEF Init
<1>2. ReplyInv /\ ~overlap /\ [Next]_vars => ~overlap'
  <2> SUFFICES ASSUME ReplyInv, ~overlap, [Next]_vars PROVE ~overlap'
    OBVIOUS
  <2>1. ASSUME NEW q \in Reactors, Read(q) \/ Trim(q) \/ \E c \in Conns : Write(q, c)
        PROVE  ~overlap'
    <3>1. Begin(q) \/ overlap' = overlap
      BY <2>1, HandlerSteps
    <3>2. Begin(q) => overlap' = (overlap \/ \E p \in Reactors \ {q} : rpc[p] # "idle")
      BY DEF Begin
    <3>3. ~\E p \in Reactors \ {q} : rpc[p] # "idle"
      OBVIOUS
    <3> QED
      BY <3>1, <3>2, <3>3
  <2>2. ASSUME ~\E q \in Reactors : Read(q) \/ Trim(q) \/ \E c \in Conns : Write(q, c)
        PROVE  ~overlap'
    BY <2>2 DEF Next, Reply, Close, WorkerWrite, histVars, vars
  <2> QED
    BY <2>1, <2>2
<1> QED
  BY <1>1, <1>2, ReplyInvCorrect, PTL DEF Spec

\* With one reactor, and until a write() of the worker ends inside a frame, every client
\* receives a prefix of the replies that the worker made to it (aeserver.c:613).
THEOREM ClientGetsRepliesSolo ==
    ASSUME NEW r, Reactors = {r}
    PROVE  Spec => [](cut \/ ClientGetsReplies)
<1>1. ReplyInv /\ ~overlap => cut \/ ClientGetsReplies
  BY RepliesRight DEF ReplyInv, FlowInv
<1> QED
  BY <1>1, SoloReplies, PTL

\* With one reactor, and until a write() of the worker ends inside a frame, a connection
\* that the worker closes is freed only when all of its replies were written
\* (aeserver.c:175-183, 621-634).
THEOREM ClosedAfterRepliesSolo ==
    ASSUME NEW r, Reactors = {r}
    PROVE  Spec => [](cut \/ ClosedAfterReplies)
<1>1. ReplyInv /\ ~overlap => cut \/ ClosedAfterReplies
  BY RepliesRight DEF ReplyInv, FlowInv
<1> QED
  BY <1>1, SoloReplies, PTL
=============================================================================
