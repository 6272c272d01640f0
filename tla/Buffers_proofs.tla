-------------------------- MODULE Buffers_proofs --------------------------
(***************************************************************************)
(* The two byte buffers of the library, for every capacity and alphabet:   *)
(* RingBuffer implements BoundedFifo, and the strings of Sds keep a header *)
(* that describes their allocation and the text that was asked for.        *)
(***************************************************************************)
EXTENDS RingBuffer, Sds, SequenceTheorems, WellFoundedInduction, TLAPS

-----------------------------------------------------------------------------
(* The ring buffer.                                                        *)

\* A modulo by the length changes no index of the allocation.
LEMMA ModIsIdentity ==
    ASSUME NEW x \in 0..length - 1
    PROVE  x % length = x
<1>1. length \in Nat /\ length > 0
  BY CapacityAssumption DEF length
<1> QED
  BY <1>1

\* What the macros compute while the indices do not cross.
LEMMA Available ==
    ASSUME TypeOK
    PROVE  available_data = end - start
<1>1. end \in 0..length - 1
  BY CapacityAssumption DEF TypeOK, length
<1>2. end % length = end
  BY <1>1, ModIsIdentity
<1> QED
  BY <1>2 DEF available_data

\* A request of n bytes is a sequence of n bytes.
LEMMA RequestIsSeq ==
    ASSUME NEW n \in Requests, NEW data \in [1..n -> Byte]
    PROVE  data \in Seq(Byte) /\ Len(data) = n /\ n \in Nat
BY CapacityAssumption DEF Requests

LEMMA ContentsType ==
    ASSUME TypeOK
    PROVE  /\ Contents \in Seq(Byte)
           /\ Len(Contents) = end - start
           /\ \A i \in 1..end - start : Contents[i] = cells[start + i - 1]
<1>1. end - start \in Nat
  BY CapacityAssumption DEF TypeOK, length
<1>2. \A i \in 1..end - start : cells[start + i - 1] \in Byte
  BY CapacityAssumption DEF TypeOK, length
<1> QED
  BY <1>1, <1>2 DEF Contents

\* Where a write starts: an empty buffer starts over.
WriteAt == IF start = end THEN 0 ELSE end

\* The values that ringBuffer_write leaves behind, without the modulo.
LEMMA WriteValues ==
    ASSUME TypeOK, NEW n \in Requests, NEW data \in [1..n -> Byte], Write(data)
    PROVE  /\ start' = IF start = end THEN 0 ELSE start
           /\ target' = target
           /\ \/ /\ WriteAt + n <= Capacity
                 /\ cells' = Copied(cells, WriteAt, data)
                 /\ end' = WriteAt + n /\ call' = Call("write", n, n)
              \/ /\ WriteAt + n > Capacity
                 /\ end' = WriteAt /\ call' = Call("write", n, -1) /\ cells' = cells
<1>1. (available_data = 0) <=> (start = end)
  BY Available, CapacityAssumption DEF TypeOK, length
<1>2. WriteAt \in 0..Capacity /\ n \in Nat /\ Len(data) = n
  BY RequestIsSeq, CapacityAssumption DEF TypeOK, length, WriteAt
<1>3. Capacity \in Nat /\ length = Capacity + 1
  BY CapacityAssumption DEF length
<1>4. Len(data) <= SpaceFrom(WriteAt) <=> WriteAt + n <= Capacity
  BY <1>2, <1>3 DEF SpaceFrom
<1>5. WriteAt + n <= Capacity => (WriteAt + n) % length = WriteAt + n
  BY <1>2, <1>3, ModIsIdentity
<1>6. /\ start' = IF start = end THEN 0 ELSE start
      /\ IF Len(data) <= SpaceFrom(WriteAt)
           THEN /\ cells' = Copied(cells, WriteAt, data)
                /\ end' = (WriteAt + Len(data)) % length
                /\ call' = Call("write", Len(data), Len(data))
           ELSE /\ end' = WriteAt
                /\ call' = Call("write", Len(data), -1)
                /\ cells' = cells
      /\ target' = target
  BY <1>1 DEF Write, WriteAt
<1>7. CASE WriteAt + n <= Capacity
  BY <1>2, <1>4, <1>5, <1>6, <1>7
<1>8. CASE ~(WriteAt + n <= Capacity)
  <2>1. WriteAt + n > Capacity
    BY <1>2, <1>3, <1>8
  <2> QED
    BY <1>2, <1>4, <1>6, <1>8, <2>1
<1> QED
  BY <1>7, <1>8

\* The values that ringBuffer_read leaves behind, without the modulo.
LEMMA ReadValues ==
    ASSUME TypeOK, NEW n \in Requests, Read(n)
    PROVE  \/ /\ n <= end - start
              /\ target' = [i \in 1..n |-> cells[start + i - 1]]
              /\ call' = Call("read", n, n) /\ cells' = cells
              /\ start' = IF end = start + n THEN 0 ELSE start + n
              /\ end' = IF end = start + n THEN 0 ELSE end
           \/ /\ n > end - start
              /\ call' = Call("read", n, -1)
              /\ UNCHANGED <<cells, start, end, target>>
<1>1. available_data = end - start
  BY Available
<1>2. n \in Nat /\ start \in 0..Capacity /\ end \in start..Capacity
  BY CapacityAssumption DEF Requests, TypeOK, length
<1>3. n <= end - start => (start + n) % length = start + n
  BY <1>2, ModIsIdentity, CapacityAssumption DEF length
<1> QED
  BY <1>1, <1>2, <1>3 DEF Read

\* ringBuffer_clear moves the start index to the end index.
LEMMA ClearValues ==
    ASSUME TypeOK, Clear
    PROVE  start' = end /\ call' = Call("clear", 0, 0) /\ UNCHANGED <<cells, end, target>>
<1>1. available_data = end - start /\ end \in 0..length - 1
  BY Available, CapacityAssumption DEF TypeOK, length
<1>2. start + available_data = end
  BY <1>1, CapacityAssumption DEF TypeOK, length
<1> QED
  BY <1>1, <1>2, ModIsIdentity DEF Clear

-----------------------------------------------------------------------------

LEMMA InitType == Init => TypeOK
BY ByteAssumption, CapacityAssumption DEF Call, Init, TypeOK, length

LEMMA StepType == TypeOK /\ [Next]_vars => TypeOK'
<1> SUFFICES ASSUME TypeOK, [Next]_vars PROVE TypeOK'
  OBVIOUS
<1>0. Capacity \in Nat /\ length = Capacity + 1
  BY CapacityAssumption DEF length
<1>1. CASE UNCHANGED vars
  BY <1>1 DEF vars, TypeOK
<1>2. ASSUME NEW n \in Requests, NEW data \in [1..n -> Byte], Write(data)
      PROVE  TypeOK'
  <2>1. WriteAt \in 0..Capacity /\ n \in Nat
    BY <1>0 DEF Requests, TypeOK, WriteAt
  <2>2. Copied(cells, WriteAt, data) \in [0..length - 1 -> Byte]
    <3>1. Len(data) = n
      BY RequestIsSeq
    <3>2. \A i \in 0..length - 1 :
             i \in WriteAt..WriteAt + n - 1 => data[i - WriteAt + 1] \in Byte
      <4> SUFFICES ASSUME NEW i \in 0..length - 1, i \in WriteAt..WriteAt + n - 1
                   PROVE  data[i - WriteAt + 1] \in Byte
        OBVIOUS
      <4>1. i - WriteAt + 1 \in 1..n
        BY <1>0, <2>1
      <4> QED
        BY <4>1
    <3> QED
      BY <3>1, <3>2 DEF Copied, TypeOK
  <2>3. cells' \in [0..length - 1 -> Byte]
    BY <1>2, <2>2, WriteValues DEF TypeOK
  <2>4. start' \in 0..length - 1 /\ end' \in start'..length - 1
    BY <1>0, <1>2, <2>1, WriteValues DEF TypeOK, WriteAt
  <2>5. target' \in Seq(Byte) /\ call' \in [op : {"create", "write", "read", "clear"}, asked : Nat, returned : Int]
    BY <1>2, <2>1, WriteValues DEF Call, TypeOK
  <2> QED
    BY <2>3, <2>4, <2>5 DEF TypeOK
<1>3. ASSUME NEW n \in Requests, Read(n)
      PROVE  TypeOK'
  <2>1. n \in Nat /\ start \in 0..Capacity /\ end \in start..Capacity
    BY <1>0 DEF Requests, TypeOK
  <2>2. n <= end - start => [i \in 1..n |-> cells[start + i - 1]] \in Seq(Byte)
    <3> SUFFICES ASSUME n <= end - start
                 PROVE  [i \in 1..n |-> cells[start + i - 1]] \in Seq(Byte)
      OBVIOUS
    <3>1. \A i \in 1..n : cells[start + i - 1] \in Byte
      BY <1>0, <2>1 DEF TypeOK
    <3> QED
      BY <2>1, <3>1
  <2>3. target' \in Seq(Byte) /\ call' \in [op : {"create", "write", "read", "clear"}, asked : Nat, returned : Int]
    <3>1. CASE n <= end - start
      <4>1. target' = [i \in 1..n |-> cells[start + i - 1]] /\ call' = Call("read", n, n)
        BY <1>3, <2>1, <3>1, ReadValues
      <4> QED
        BY <2>1, <2>2, <3>1, <4>1 DEF Call
    <3>2. CASE n > end - start
      BY <1>3, <2>1, <3>2, ReadValues DEF Call, TypeOK
    <3> QED
      BY <2>1, <3>1, <3>2
  <2>4. start' \in 0..length - 1 /\ end' \in start'..length - 1
    BY <1>0, <1>3, <2>1, ReadValues
  <2> QED
    BY <1>3, <2>3, <2>4, ReadValues DEF TypeOK
<1>4. CASE Clear
  BY <1>0, <1>4, ClearValues DEF Call, TypeOK
<1> QED
  BY <1>1, <1>2, <1>3, <1>4 DEF Next

\* The indices never cross and never leave the allocation.
THEOREM TypeCorrect == Spec => []TypeOK
BY InitType, StepType, PTL DEF Spec

-----------------------------------------------------------------------------
(* The refinement of BoundedFifo.                                          *)

LEMMA InitFifo == Init => Fifo!Init
<1> SUFFICES ASSUME Init PROVE Fifo!Init
  OBVIOUS
<1>1. Contents \in Seq(Byte) /\ Len(Contents) = 0
  BY InitType, ContentsType DEF Init
<1> QED
  BY <1>1 DEF Call, Fifo!Call, Init, Fifo!Init

\* An accepted write puts its data behind what is there.
LEMMA WriteAccepted ==
    ASSUME TypeOK, TypeOK', NEW n \in Requests, NEW data \in [1..n -> Byte],
           Write(data), WriteAt + n <= Capacity
    PROVE  Contents' = Contents \o data /\ Len(Contents) + n <= Capacity
<1> DEFINE s == IF start = end THEN 0 ELSE start
<1>1. /\ start' = s /\ end' = WriteAt + n
      /\ cells' = Copied(cells, WriteAt, data)
  BY WriteValues, CapacityAssumption DEF WriteAt, TypeOK, length, Requests
<1>2. /\ n \in Nat /\ Capacity \in Nat /\ length = Capacity + 1
      /\ s \in 0..Capacity /\ WriteAt \in s..Capacity
      /\ start \in 0..Capacity /\ end \in start..Capacity
      /\ WriteAt - s = end - start
      /\ (s # start => end - start = 0)
  BY CapacityAssumption DEF Requests, TypeOK, length, WriteAt
<1>3. /\ Contents \in Seq(Byte) /\ Len(Contents) = end - start
      /\ \A i \in 1..end - start : Contents[i] = cells[start + i - 1]
  BY ContentsType
<1>4. data \in Seq(Byte) /\ Len(data) = n
  BY RequestIsSeq
<1>5. /\ Contents \o data \in Seq(Byte)
      /\ Len(Contents \o data) = end - start + n
      /\ \A i \in 1..end - start + n :
            (Contents \o data)[i] =
              IF i <= end - start THEN Contents[i] ELSE data[i - (end - start)]
  <2>1. Contents \in Seq(Byte) /\ data \in Seq(Byte)
    BY <1>3, <1>4
  <2>2. /\ Contents \o data \in Seq(Byte)
        /\ Len(Contents \o data) = Len(Contents) + Len(data)
        /\ \A i \in 1..Len(Contents) + Len(data) :
              (Contents \o data)[i] =
                IF i <= Len(Contents) THEN Contents[i] ELSE data[i - Len(Contents)]
    BY <2>1, ConcatProperties
  <2> QED
    BY <1>3, <1>4, <2>2
<1>6. /\ Contents' \in Seq(Byte) /\ Len(Contents') = end' - start'
      /\ \A i \in 1..end' - start' : Contents'[i] = cells'[start' + i - 1]
  <2>1. Contents' = [i \in 1..end' - start' |-> cells'[start' + i - 1]]
    BY DEF Contents
  <2>2. end' - start' \in Nat
    BY <1>1, <1>2
  <2>3. \A i \in 1..end' - start' : cells'[start' + i - 1] \in Byte
    BY <1>1, <1>2 DEF TypeOK
  <2> QED
    BY <2>1, <2>2, <2>3
<1>7. ASSUME NEW i \in 1..end - start + n
      PROVE  Contents'[i] = (Contents \o data)[i]
  <2>0. end' - start' = end - start + n
    BY <1>1, <1>2
  <2>1. s + i - 1 \in 0..length - 1 /\ Contents'[i] = cells'[s + i - 1]
    BY <1>1, <1>2, <1>6, <2>0
  <2>2. cells'[s + i - 1] =
          IF s + i - 1 \in WriteAt..WriteAt + n - 1
            THEN data[(s + i - 1) - WriteAt + 1] ELSE cells[s + i - 1]
    BY <1>1, <1>4, <2>1 DEF Copied, TypeOK
  <2>3. CASE i <= end - start
    <3>1. s + i - 1 \notin WriteAt..WriteAt + n - 1 /\ s = start /\ i \in 1..end - start
      BY <1>2, <2>3
    <3> QED
      BY <1>3, <1>5, <2>1, <2>2, <2>3, <3>1
  <2>4. CASE ~(i <= end - start)
    <3>1. /\ s + i - 1 \in WriteAt..WriteAt + n - 1
          /\ (s + i - 1) - WriteAt + 1 = i - (end - start)
      BY <1>2, <2>4
    <3>2. (Contents \o data)[i] = data[i - (end - start)]
      BY <1>5, <2>4
    <3> QED
      BY <2>1, <2>2, <3>1, <3>2
  <2> QED
    BY <2>3, <2>4
<1>8. Len(Contents') = Len(Contents \o data)
  BY <1>1, <1>2, <1>5, <1>6
<1>9. Contents' = Contents \o data
  <2>1. Contents' \in Seq(Byte) /\ Contents \o data \in Seq(Byte)
    BY <1>5, <1>6
  <2>2. \A i \in 1..Len(Contents') : Contents'[i] = (Contents \o data)[i]
    BY <1>5, <1>7, <1>8
  <2> QED
    BY <1>8, <2>1, <2>2, SeqEqual
<1> QED
  BY <1>2, <1>3, <1>9

\* A read hands out and removes the first bytes.
LEMMA ReadAccepted ==
    ASSUME TypeOK, TypeOK', NEW n \in Requests, Read(n), n <= end - start
    PROVE  /\ target' = SubSeq(Contents, 1, n)
           /\ Contents' = SubSeq(Contents, n + 1, Len(Contents))
<1>1. /\ target' = [i \in 1..n |-> cells[start + i - 1]]
      /\ cells' = cells
      /\ start' = IF end = start + n THEN 0 ELSE start + n
      /\ end' = IF end = start + n THEN 0 ELSE end
  BY ReadValues, CapacityAssumption DEF TypeOK, length, Requests
<1>2. n \in Nat /\ start \in Nat /\ end \in Nat /\ start + n <= end
  BY CapacityAssumption DEF Requests, TypeOK, length
<1>3. /\ Contents \in Seq(Byte) /\ Len(Contents) = end - start
      /\ \A i \in 1..end - start : Contents[i] = cells[start + i - 1]
  BY ContentsType
<1>4. target' = SubSeq(Contents, 1, n)
  <2>1. SubSeq(Contents, 1, n) = [i \in 1..n |-> Contents[i]]
    BY <1>2, <1>3
  <2>2. \A i \in 1..n : Contents[i] = cells[start + i - 1]
    BY <1>2, <1>3
  <2> QED
    BY <1>1, <2>1, <2>2
<1>5. Contents' = SubSeq(Contents, n + 1, Len(Contents))
  <2>1. /\ Contents' = [i \in 1..end' - start' |-> cells'[start' + i - 1]]
        /\ end' - start' = (end - start) - n
    BY <1>1, <1>2 DEF Contents
  <2>2. SubSeq(Contents, n + 1, Len(Contents))
          = [i \in 1..(end - start) - n |-> Contents[i + n]]
    BY <1>2, <1>3
  <2>3. ASSUME NEW i \in 1..(end - start) - n
        PROVE  cells'[start' + i - 1] = Contents[i + n]
    <3>1. start' = start + n
      BY <1>1, <1>2
    <3>2. i + n \in 1..end - start /\ start' + i - 1 = start + (i + n) - 1
      BY <1>2, <3>1
    <3> QED
      BY <1>1, <1>3, <3>2
  <2> QED
    BY <2>1, <2>2, <2>3
<1> QED
  BY <1>4, <1>5

\* Every step is a step of the abstract buffer.
LEMMA StepFifo ==
    ASSUME TypeOK, TypeOK', [Next]_vars
    PROVE  [Fifo!Next]_Fifo!fvars
<1>0. /\ Contents \in Seq(Byte) /\ Len(Contents) = end - start
      /\ start \in Nat /\ end \in Nat /\ start <= end
  BY ContentsType, CapacityAssumption DEF TypeOK, length
<1>1. CASE UNCHANGED vars
  BY <1>1 DEF vars, Fifo!fvars, Contents
<1>2. ASSUME NEW n \in Requests, NEW data \in [1..n -> Byte], Write(data)
      PROVE  Fifo!Put(data) \/ Fifo!RefusePut(data)
  <2>0. Len(data) = n /\ n \in Nat /\ Capacity \in Nat
    BY RequestIsSeq, CapacityAssumption
  <2>1. CASE WriteAt + n <= Capacity
    <3>1. call' = Call("write", n, n) /\ target' = target
      BY <1>0, <1>2, <2>0, <2>1, WriteValues DEF WriteAt
    <3>2. Contents' = Contents \o data /\ Len(Contents) + n <= Capacity
      BY <1>2, <2>1, WriteAccepted
    <3> QED
      BY <2>0, <3>1, <3>2 DEF Call, Fifo!Call, Fifo!Put
  <2>2. CASE ~(WriteAt + n <= Capacity)
    <3>1. /\ call' = Call("write", n, -1) /\ target' = target /\ cells' = cells
          /\ start' = IF start = end THEN 0 ELSE start
          /\ end' = WriteAt
      BY <1>2, <2>2, WriteValues
    <3>2. Contents' = Contents
      <4>1. CASE start = end
        <5>1. start' = 0 /\ end' = 0
          BY <3>1, <4>1 DEF WriteAt
        <5> QED
          BY <1>0, <4>1, <5>1 DEF Contents
      <4>2. CASE start # end
        BY <3>1, <4>2 DEF Contents, WriteAt
      <4> QED
        BY <4>1, <4>2
    <3>3. Contents # <<>> \/ n > Capacity
      BY <1>0, <2>0, <2>2 DEF WriteAt
    <3> QED
      BY <2>0, <3>1, <3>2, <3>3 DEF Call, Fifo!Call, Fifo!RefusePut
  <2> QED
    BY <2>1, <2>2
<1>3. ASSUME NEW n \in Requests, Read(n)
      PROVE  Fifo!Get(n) \/ Fifo!RefuseGet(n)
  <2>0. n \in Nat
    BY CapacityAssumption DEF Requests
  <2>1. CASE n <= end - start
    <3>1. call' = Call("read", n, n)
      BY <1>0, <1>3, <2>0, <2>1, ReadValues
    <3>2. /\ target' = SubSeq(Contents, 1, n)
          /\ Contents' = SubSeq(Contents, n + 1, Len(Contents))
      BY <1>3, <2>1, ReadAccepted
    <3> QED
      BY <1>0, <2>1, <3>1, <3>2 DEF Call, Fifo!Call, Fifo!Get
  <2>2. CASE n > end - start
    <3>1. call' = Call("read", n, -1) /\ UNCHANGED <<cells, start, end, target>>
      BY <1>0, <1>3, <2>0, <2>2, ReadValues
    <3> QED
      BY <1>0, <2>2, <3>1 DEF Call, Fifo!Call, Fifo!RefuseGet, Contents
  <2> QED
    BY <1>0, <2>0, <2>1, <2>2
<1>4. CASE Clear
  <2>1. start' = end /\ call' = Call("clear", 0, 0) /\ UNCHANGED <<cells, end, target>>
    BY <1>4, ClearValues
  <2>2. Contents' = <<>>
    BY <1>0, <2>1 DEF Contents
  <2> QED
    BY <2>1, <2>2 DEF Call, Fifo!Call, Fifo!Next, Fifo!Clear
<1> QED
  BY <1>1, <1>2, <1>3, <1>4 DEF Next, Requests, Fifo!Next, Fifo!Requests

\* The ring buffer is a first-in first-out buffer of its capacity.
THEOREM ImplementsFifo == Spec => FifoSpec
<1>1. Init => TypeOK /\ Fifo!Init
  BY InitType, InitFifo
<1>2. TypeOK /\ [Next]_vars => TypeOK'
  BY StepType
<1>3. TypeOK /\ TypeOK' /\ [Next]_vars => [Fifo!Next]_Fifo!fvars
  BY StepFifo
<1> QED
  BY <1>1, <1>2, <1>3, PTL DEF Spec, FifoSpec, Fifo!Spec

-----------------------------------------------------------------------------
(* Strings.                                                                *)

Cells == Seq(Char \cup {Junk})

Shaped(s) == s = [cells |-> s.cells, len |-> s.len, free |-> s.free, inside |-> s.inside]

\* The header describes the allocation.
Sound(s) ==
    /\ Shaped(s) /\ s.cells \in Cells /\ s.len \in Nat /\ s.free \in Nat
    /\ s.len + s.free + 1 = Len(s.cells) /\ s.inside = TRUE

\* The first cells are those of the text u.
Begins(s, u) == \A i \in 1..Len(u) : s.cells[i] = u[i]

\* The text is t; it ends with a NUL.
Says(s, t) == Sound(s) /\ t \in Seq(Char) /\ Len(t) = s.len /\ Begins(s, t)
Fine(s, t) == Says(s, t) /\ s.cells[s.len + 1] = Nul

Overwritten(c, at, t) == [i \in DOMAIN c |-> IF i \in at + 1..at + Len(t) THEN t[i - at] ELSE c[i]]

\* A text is made of characters, and may stand in an allocation.
LEMMA TextInCells ==
    ASSUME NEW t \in Seq(Char)
    PROVE  /\ t \in Cells /\ Len(t) \in Nat /\ DOMAIN t = 1..Len(t)
           /\ \A i \in 1..Len(t) : t[i] \in Char
BY DEF Cells

\* Two texts one behind the other.
LEMMA Joined ==
    ASSUME NEW t \in Seq(Char), NEW u \in Seq(Char)
    PROVE  /\ t \o u \in Seq(Char) /\ Len(t \o u) = Len(t) + Len(u)
           /\ \A i \in 1..Len(t) + Len(u) : (t \o u)[i] = IF i <= Len(t) THEN t[i] ELSE u[i - Len(t)]
OBVIOUS

\* What a copy leaves in the allocation.
LEMMA OverType ==
    ASSUME NEW c \in Cells, NEW at \in Nat, NEW t \in Cells
    PROVE  /\ Overwritten(c, at, t) \in Cells /\ Len(Overwritten(c, at, t)) = Len(c)
           /\ \A i \in 1..Len(c) : Overwritten(c, at, t)[i] =
                IF i \in at + 1..at + Len(t) THEN t[i - at] ELSE c[i]
<1> DEFINE o == Overwritten(c, at, t)
<1>1. DOMAIN c = 1..Len(c) /\ Len(c) \in Nat /\ Len(t) \in Nat
  BY DEF Cells
<1>2. \A i \in 1..Len(c) : o[i] = IF i \in at + 1..at + Len(t) THEN t[i - at] ELSE c[i]
  BY <1>1 DEF Overwritten
<1>3. ASSUME NEW i \in 1..Len(c) PROVE o[i] \in Char \cup {Junk}
  <2>1. CASE i \in at + 1..at + Len(t)
    <3>1. i - at \in 1..Len(t)
      BY <1>1, <2>1
    <3>2. t[i - at] \in Char \cup {Junk}
      BY <3>1 DEF Cells
    <3> QED
      BY <1>2, <2>1, <3>2
  <2>2. CASE i \notin at + 1..at + Len(t)
    BY <1>2, <2>2 DEF Cells
  <2> QED
    BY <2>1, <2>2
<1>4. o = [i \in 1..Len(c) |-> o[i]]
  BY <1>1 DEF Overwritten
<1> HIDE DEF o
<1>5. o \in [1..Len(c) -> Char \cup {Junk}]
  BY <1>3, <1>4
<1>6. o \in Seq(Char \cup {Junk}) /\ Len(o) = Len(c)
  BY <1>1, <1>5
<1>7. o \in Cells
  BY <1>6 DEF Cells
<1> QED
  BY <1>2, <1>6, <1>7 DEF o

\* Fields that are set.
LEMMA CellsSet ==
    ASSUME NEW s, Shaped(s), NEW x
    PROVE  [s EXCEPT !.cells = x] =
             [cells |-> x, len |-> s.len, free |-> s.free, inside |-> s.inside]
BY DEF Shaped

\* An assignment to one field of the header leaves the others alone.
LEMMA FreeSet ==
    ASSUME NEW s, Shaped(s), NEW x
    PROVE  [s EXCEPT !.free = x] =
             [cells |-> s.cells, len |-> s.len, free |-> x, inside |-> s.inside]
BY DEF Shaped

\* The same of the length.
LEMMA LenSet ==
    ASSUME NEW s, Shaped(s), NEW x
    PROVE  [s EXCEPT !.len = x] =
             [cells |-> s.cells, len |-> x, free |-> s.free, inside |-> s.inside]
BY DEF Shaped

\* The same of the bytes and the mark of an access beyond them.
LEMMA CellsInsideSet ==
    ASSUME NEW s, Shaped(s), NEW x, NEW y
    PROVE  [s EXCEPT !.cells = x, !.inside = y] =
             [cells |-> x, len |-> s.len, free |-> s.free, inside |-> y]
<1> DEFINE r == [s EXCEPT !.cells = x]
<1>1. r = [cells |-> x, len |-> s.len, free |-> s.free, inside |-> s.inside]
  BY CellsSet
<1>2. [s EXCEPT !.cells = x, !.inside = y] = [r EXCEPT !.inside = y]
  OBVIOUS
<1> HIDE DEF r
<1>3. [r EXCEPT !.inside = y] = [cells |-> x, len |-> s.len, free |-> s.free, inside |-> y]
  BY <1>1
<1> QED
  BY <1>2, <1>3

\* The same of both counts of the header.
LEMMA LenFreeSet ==
    ASSUME NEW s, Shaped(s), NEW x, NEW y
    PROVE  [s EXCEPT !.len = x, !.free = y] =
             [cells |-> s.cells, len |-> x, free |-> y, inside |-> s.inside]
<1> DEFINE r == [s EXCEPT !.len = x]
<1>1. r = [cells |-> s.cells, len |-> x, free |-> s.free, inside |-> s.inside]
  BY LenSet
<1>2. [s EXCEPT !.len = x, !.free = y] = [r EXCEPT !.free = y]
  OBVIOUS
<1> HIDE DEF r
<1>3. [r EXCEPT !.free = y] = [cells |-> s.cells, len |-> x, free |-> y, inside |-> s.inside]
  BY <1>1
<1> QED
  BY <1>2, <1>3

\* What Put writes when it stays inside the allocation.
LEMMA PutIs ==
    ASSUME NEW s, Shaped(s), s.inside = TRUE, s.cells \in Cells, NEW at \in Nat, NEW t,
           at + Len(t) <= Len(s.cells)
    PROVE  Put(s, at, t) = [cells |-> Overwritten(s.cells, at, t), len |-> s.len, free |-> s.free,
                            inside |-> TRUE]
<1> DEFINE o == Overwritten(s.cells, at, t)
           b == s.inside /\ at + Len(t) <= Len(s.cells)
<1>1. Put(s, at, t) = [s EXCEPT !.cells = o, !.inside = b]
  BY DEF Put, Overwritten
<1>2. b = TRUE
  OBVIOUS
<1> HIDE DEF o
<1>3. [s EXCEPT !.cells = o, !.inside = b] =
        [cells |-> o, len |-> s.len, free |-> s.free, inside |-> b]
  <2> HIDE DEF b
  <2> QED
    BY CellsInsideSet
<1> QED
  BY <1>1, <1>2, <1>3 DEF o

\* A header is what its four fields are.
LEMMA Reshaped ==
    ASSUME NEW c, NEW l, NEW f, NEW i
    PROVE  /\ Shaped([cells |-> c, len |-> l, free |-> f, inside |-> i])
           /\ [cells |-> c, len |-> l, free |-> f, inside |-> i].cells = c
           /\ [cells |-> c, len |-> l, free |-> f, inside |-> i].len = l
           /\ [cells |-> c, len |-> l, free |-> f, inside |-> i].free = f
           /\ [cells |-> c, len |-> l, free |-> f, inside |-> i].inside = i
BY DEF Shaped

\* Writing t behind the text u, which becomes the text.
LEMMA EndsFine ==
    ASSUME NEW s, Sound(s), NEW u \in Seq(Char), Begins(s, u), NEW t \in Seq(Char),
           Len(u) + Len(t) <= Total(s)
    PROVE  Fine(Ends(s, Len(u), t, Total(s)), u \o t)
<1> DEFINE at == Len(u)
           z == Append(t, Nul)
           p == Put(s, at, z)
           o == Overwritten(s.cells, at, z)
           l == at + Len(t)
           f == Total(s) - at - Len(t)
           e == Ends(s, at, t, Total(s))
<1>1. /\ z \in Seq(Char) /\ Len(z) = Len(t) + 1 /\ z[Len(t) + 1] = Nul
      /\ \A i \in 1..Len(t) : z[i] = t[i]
  BY CharAssumption
<1>2. at \in Nat /\ Len(t) \in Nat /\ z \in Cells
  BY <1>1, TextInCells
<1>3. at + Len(z) <= Len(s.cells) /\ l \in Nat /\ f \in Nat /\ l + f + 1 = Len(s.cells)
  BY <1>1, <1>2 DEF Sound, Total
<1>4. p = [cells |-> o, len |-> s.len, free |-> s.free, inside |-> TRUE]
  BY <1>2, <1>3, PutIs DEF Sound
<1>5. e = [p EXCEPT !.len = l, !.free = f]
  BY DEF Ends
<1>6. e = [cells |-> o, len |-> l, free |-> f, inside |-> TRUE]
  <2> HIDE DEF p, o, l, f, e
  <2>1. Shaped(p)
    BY <1>4, Reshaped
  <2>2. e = [cells |-> p.cells, len |-> l, free |-> f, inside |-> p.inside]
    BY <1>5, <2>1, LenFreeSet
  <2>3. p.cells = o /\ p.inside = TRUE
    BY <1>4, Reshaped
  <2> QED
    BY <2>2, <2>3
<1>7. /\ o \in Cells /\ Len(o) = Len(s.cells)
      /\ \A i \in 1..Len(s.cells) : o[i] = IF i \in at + 1..at + Len(z) THEN z[i - at] ELSE s.cells[i]
  <2>1. s.cells \in Cells
    BY DEF Sound
  <2> HIDE DEF at, z
  <2> QED
    BY <1>2, <2>1, OverType
<1>8. Sound(e)
  <2> HIDE DEF o, l, f, e
  <2> QED
    BY <1>3, <1>6, <1>7, Reshaped DEF Sound
<1>9. /\ u \o t \in Seq(Char) /\ Len(u \o t) = l
      /\ \A i \in 1..l : (u \o t)[i] = IF i <= at THEN u[i] ELSE t[i - at]
  BY <1>2
<1>10. ASSUME NEW i \in 1..l PROVE o[i] = (u \o t)[i]
  <2>1. i \in 1..Len(s.cells)
    BY <1>2, <1>3
  <2>2. CASE i <= at
    <3>1. o[i] = s.cells[i]
      BY <1>2, <1>7, <2>1, <2>2
    <3>2. s.cells[i] = u[i]
      BY <1>2, <2>2 DEF Begins
    <3> QED
      BY <1>9, <2>2, <3>1, <3>2
  <2>3. CASE i > at
    <3>1. i \in at + 1..at + Len(z) /\ i - at \in 1..Len(t)
      BY <1>1, <1>2, <2>3
    <3>2. o[i] = z[i - at]
      BY <1>7, <2>1, <3>1
    <3>3. z[i - at] = t[i - at]
      BY <1>1, <3>1
    <3>4. (u \o t)[i] = t[i - at]
      BY <1>2, <1>9, <2>3
    <3> QED
      BY <3>2, <3>3, <3>4
  <2> QED
    BY <1>2, <2>2, <2>3
<1>11. o[l + 1] = Nul
  <2>1. l + 1 \in 1..Len(s.cells) /\ l + 1 \in at + 1..at + Len(z) /\ l + 1 - at = Len(t) + 1
    BY <1>1, <1>2, <1>3
  <2>2. o[l + 1] = z[l + 1 - at]
    BY <1>7, <2>1
  <2> QED
    BY <1>1, <2>1, <2>2
<1>12. e.cells = o /\ e.len = l
  <2> HIDE DEF o, l, f, e
  <2> QED
    BY <1>6
<1> HIDE DEF o, l, f, e
<1>13. Fine(e, u \o t)
  BY <1>8, <1>9, <1>10, <1>11, <1>12 DEF Fine, Says, Begins
<1> QED
  BY <1>13 DEF e

\* A write inside the allocation leaves the header sound.
LEMMA PutSound ==
    ASSUME NEW s, Sound(s), NEW at \in Nat, NEW t \in Cells, at + Len(t) <= Len(s.cells)
    PROVE  /\ Sound(Put(s, at, t)) /\ Put(s, at, t).len = s.len /\ Put(s, at, t).free = s.free
           /\ Put(s, at, t).cells = Overwritten(s.cells, at, t)
<1> DEFINE o == Overwritten(s.cells, at, t)
           p == Put(s, at, t)
<1>1. s.cells \in Cells
  BY DEF Sound
<1>2. p = [cells |-> o, len |-> s.len, free |-> s.free, inside |-> TRUE]
  BY <1>1, PutIs DEF Sound
<1>3. o \in Cells /\ Len(o) = Len(s.cells)
  BY <1>1, OverType
<1> HIDE DEF o, p
<1>4. Shaped(p) /\ p.cells = o /\ p.len = s.len /\ p.free = s.free /\ p.inside = TRUE
  BY <1>2, Reshaped
<1>5. Sound(p)
  BY <1>3, <1>4 DEF Sound
<1> QED
  BY <1>4, <1>5 DEF o, p

\* A write inside the allocation, byte by byte.
LEMMA PutCells ==
    ASSUME NEW s, Sound(s), NEW at \in Nat, NEW t \in Cells, at + Len(t) <= Len(s.cells)
    PROVE  \A i \in 1..Len(s.cells) :
             Put(s, at, t).cells[i] = IF i \in at + 1..at + Len(t) THEN t[i - at] ELSE s.cells[i]
<1> DEFINE c == s.cells
           o == Overwritten(c, at, t)
<1>1. c \in Cells
  BY DEF Sound
<1>2. Put(s, at, t).cells = o
  BY PutSound
<1> HIDE DEF c
<1>3. \A i \in 1..Len(c) : o[i] = IF i \in at + 1..at + Len(t) THEN t[i - at] ELSE c[i]
  BY <1>1, OverType
<1> HIDE DEF o
<1> QED
  BY <1>2, <1>3 DEF c

\* What realloc leaves of the cells.
Resized(c, n) == [i \in 1..n |-> IF i <= Len(c) THEN c[i] ELSE Junk]

\* realloc keeps what fits and leaves the rest undefined.
LEMMA ReallocatedIs ==
    ASSUME NEW s, Shaped(s), s.cells \in Cells, NEW n \in Nat
    PROVE  /\ Reallocated(s, n) = [cells |-> Resized(s.cells, n), len |-> s.len, free |-> s.free,
                                   inside |-> s.inside]
           /\ Resized(s.cells, n) \in Cells /\ Len(Resized(s.cells, n)) = n
           /\ \A i \in 1..n : i <= Len(s.cells) => Resized(s.cells, n)[i] = s.cells[i]
<1> DEFINE o == Resized(s.cells, n)
<1>1. Reallocated(s, n) = [s EXCEPT !.cells = o]
  BY DEF Reallocated, Resized
<1>2. [s EXCEPT !.cells = o] = [cells |-> o, len |-> s.len, free |-> s.free, inside |-> s.inside]
  <2> HIDE DEF o
  <2> QED
    BY CellsSet
<1>3. ASSUME NEW i \in 1..n
      PROVE  o[i] \in Char \cup {Junk} /\ (i <= Len(s.cells) => o[i] = s.cells[i])
  <2>1. o[i] = IF i <= Len(s.cells) THEN s.cells[i] ELSE Junk
    BY DEF Resized
  <2>2. i <= Len(s.cells) => s.cells[i] \in Char \cup {Junk}
    <3> SUFFICES ASSUME i <= Len(s.cells) PROVE s.cells[i] \in Char \cup {Junk}
      OBVIOUS
    <3>1. s.cells \in Seq(Char \cup {Junk}) /\ i \in 1..Len(s.cells)
      BY DEF Cells
    <3> QED
      BY <3>1, ElementOfSeq
  <2> QED
    BY <2>1, <2>2
<1>4. o = [i \in 1..n |-> o[i]]
  BY DEF Resized
<1> HIDE DEF o
<1>5. o \in [1..n -> Char \cup {Junk}]
  BY <1>3, <1>4
<1>6. o \in Cells /\ Len(o) = n
  BY <1>5 DEF Cells
<1> QED
  BY <1>1, <1>2, <1>3, <1>6 DEF o

\* The allocation is made n + 1 cells, as long as that leaves the text and the NUL.
LEMMA ReallocatedSays ==
    ASSUME NEW s, NEW t, Says(s, t), NEW n \in Nat, s.len <= n
    PROVE  LET r == [Reallocated(s, n + 1) EXCEPT !.free = n - s.len]
           IN  /\ Says(r, t) /\ r.len = s.len /\ r.free = n - s.len
               /\ s.cells[s.len + 1] = Nul => r.cells[s.len + 1] = Nul
<1> DEFINE q == Reallocated(s, n + 1)
           o == Resized(s.cells, n + 1)
           f == n - s.len
           r == [q EXCEPT !.free = f]
<1>1. Shaped(s) /\ s.cells \in Cells /\ s.len \in Nat /\ s.free \in Nat /\ s.inside = TRUE
      /\ s.len + s.free + 1 = Len(s.cells)
  BY DEF Says, Sound
<1>2. n + 1 \in Nat /\ f \in Nat /\ s.len + f + 1 = n + 1
  BY <1>1
<1>3. /\ q = [cells |-> o, len |-> s.len, free |-> s.free, inside |-> s.inside]
      /\ o \in Cells /\ Len(o) = n + 1
      /\ \A i \in 1..n + 1 : i <= Len(s.cells) => o[i] = s.cells[i]
  <2> DEFINE m == n + 1
  <2> HIDE DEF m
  <2>1. m \in Nat
    BY <1>2 DEF m
  <2>2. /\ Reallocated(s, m) = [cells |-> Resized(s.cells, m), len |-> s.len, free |-> s.free,
                                inside |-> s.inside]
        /\ Resized(s.cells, m) \in Cells /\ Len(Resized(s.cells, m)) = m
        /\ \A i \in 1..m : i <= Len(s.cells) => Resized(s.cells, m)[i] = s.cells[i]
    BY <1>1, <2>1, ReallocatedIs
  <2> QED
    BY <2>2 DEF m
<1>4. r = [cells |-> o, len |-> s.len, free |-> f, inside |-> s.inside]
  <2> HIDE DEF q, o, f
  <2>1. Shaped(q) /\ q.cells = o /\ q.len = s.len /\ q.inside = s.inside
    BY <1>3, Reshaped
  <2>2. r = [cells |-> q.cells, len |-> q.len, free |-> f, inside |-> q.inside]
    BY <2>1, FreeSet
  <2> QED
    BY <2>1, <2>2
<1> HIDE DEF q, o, f, r
<1>5. Shaped(r) /\ r.cells = o /\ r.len = s.len /\ r.free = f /\ r.inside = s.inside
  BY <1>4, Reshaped
<1>6. Sound(r)
  BY <1>1, <1>2, <1>3, <1>5 DEF Sound
<1>a. r.cells = o /\ s.len \in Nat
  BY <1>1, <1>5
<1>7. \A i \in 1..s.len + 1 : r.cells[i] = s.cells[i]
  <2> SUFFICES ASSUME NEW i \in 1..s.len + 1 PROVE o[i] = s.cells[i]
    BY <1>a
  <2> QED
    BY <1>1, <1>2, <1>3
<1>8. Says(r, t)
  <2>1. t \in Seq(Char) /\ Len(t) = r.len /\ \A i \in 1..Len(t) : s.cells[i] = t[i]
    BY <1>5 DEF Says, Begins
  <2>2. \A i \in 1..Len(t) : r.cells[i] = t[i]
    <3>1. Len(t) = s.len
      BY <1>5, <2>1
    <3> QED
      BY <1>a, <1>7, <2>1, <3>1
  <2> QED
    BY <1>6, <2>1, <2>2 DEF Says, Begins
<1>9. r.cells[s.len + 1] = s.cells[s.len + 1]
  <2>1. s.len + 1 \in 1..s.len + 1
    BY <1>a
  <2> QED
    BY <1>7, <2>1
<1> QED
  BY <1>5, <1>8, <1>9 DEF q, f, r

\* sdsMakeRoomFor keeps the text and makes the room.
LEMMA RoomSays ==
    ASSUME NEW s, NEW t, Says(s, t), NEW n \in Nat
    PROVE  /\ Says(sdsMakeRoomFor(s, n), t) /\ sdsMakeRoomFor(s, n).len = s.len
           /\ sdsMakeRoomFor(s, n).free >= n
           /\ s.cells[s.len + 1] = Nul => sdsMakeRoomFor(s, n).cells[s.len + 1] = Nul
<1>1. s.len \in Nat /\ s.free \in Nat
  BY DEF Says, Sound
<1>2. CASE s.free >= n
  BY <1>2 DEF sdsMakeRoomFor
<1>3. CASE ~(s.free >= n)
  <2> DEFINE m == s.len + n
             k == IF m < MaxPrealloc THEN m * 2 ELSE m + MaxPrealloc
             r == [Reallocated(s, k + 1) EXCEPT !.free = k - s.len]
  <2>1. sdsMakeRoomFor(s, n) = r
    BY <1>3 DEF sdsMakeRoomFor
  <2>2. k \in Nat /\ k >= m /\ s.len <= k /\ k - s.len >= n
    BY <1>1, PreallocAssumption
  <2> HIDE DEF k
  <2>3. /\ Says(r, t) /\ r.len = s.len /\ r.free = k - s.len
        /\ s.cells[s.len + 1] = Nul => r.cells[s.len + 1] = Nul
    BY <2>2, ReallocatedSays
  <2> HIDE DEF r
  <2> QED
    BY <2>1, <2>2, <2>3
<1> QED
  BY <1>2, <1>3

\* sdsMakeRoomFor keeps the NUL as well.
LEMMA RoomFine ==
    ASSUME NEW s, NEW t, Fine(s, t), NEW n \in Nat
    PROVE  Fine(sdsMakeRoomFor(s, n), t)
BY RoomSays DEF Fine

\* What a string that says a text is known to be.
LEMMA SaysMore ==
    ASSUME NEW s, NEW t, Says(s, t)
    PROVE  /\ Sound(s) /\ Begins(s, t) /\ t \in Seq(Char) /\ Len(t) = s.len /\ s.len \in Nat
           /\ s.free \in Nat /\ Total(s) = s.len + s.free /\ Total(s) \in Nat
           /\ s.cells \in Cells /\ Len(s.cells) = Total(s) + 1
BY DEF Says, Sound, Total

-----------------------------------------------------------------------------
(* The calls.                                                              *)

\* sdscatlen appends its bytes.
LEMMA CatFine ==
    ASSUME NEW s, NEW t, Fine(s, t), NEW u \in Seq(Char)
    PROVE  Fine(sdscatlen(s, u), t \o u)
<1> DEFINE r == sdsMakeRoomFor(s, Len(u))
<1>1. Len(u) \in Nat /\ Says(s, t)
  BY TextInCells DEF Fine
<1>2. Says(r, t) /\ r.len = s.len /\ r.free >= Len(u)
  BY <1>1, RoomSays
<1>3. sdscatlen(s, u) = Ends(r, s.len, u, Total(r))
  BY DEF sdscatlen
<1> HIDE DEF r
<1>4. /\ Sound(r) /\ Begins(r, t) /\ t \in Seq(Char) /\ Len(t) = r.len /\ r.free \in Nat
      /\ Total(r) = r.len + r.free /\ r.len \in Nat
  BY <1>2, SaysMore
<1>5. Len(t) + Len(u) <= Total(r)
  BY <1>1, <1>2, <1>4
<1>6. Fine(Ends(r, Len(t), u, Total(r)), t \o u)
  BY <1>4, <1>5, EndsFine
<1> QED
  BY <1>2, <1>3, <1>4, <1>6

\* What is written at the beginning.
LEMMA StartFine ==
    ASSUME NEW s, Sound(s), NEW t \in Seq(Char), Len(t) <= Total(s)
    PROVE  Fine(Ends(s, 0, t, Total(s)), t)
<1> DEFINE e == <<>>
<1>1. e \in Seq(Char) /\ Len(e) = 0 /\ Begins(s, e) /\ e \o t = t
  BY DEF Begins
<1> HIDE DEF e
<1>2. Len(e) + Len(t) <= Total(s)
  BY <1>1, TextInCells
<1>3. Fine(Ends(s, Len(e), t, Total(s)), e \o t)
  BY <1>1, <1>2, EndsFine
<1> QED
  BY <1>1, <1>3

\* sdscpylen replaces the text.
LEMMA CpyFine ==
    ASSUME NEW s, NEW t, Fine(s, t), NEW u \in Seq(Char)
    PROVE  Fine(sdscpylen(s, u), u)
<1> DEFINE r == IF Total(s) < Len(u) THEN sdsMakeRoomFor(s, Len(u) - s.len) ELSE s
<1>1. Says(s, t) /\ Len(u) \in Nat
  BY TextInCells DEF Fine
<1>2. s.len \in Nat /\ s.free \in Nat /\ Total(s) = s.len + s.free
  BY <1>1, SaysMore
<1>3. Says(r, t) /\ Len(u) <= Total(r)
  <2>1. CASE Total(s) < Len(u)
    <3> DEFINE n == Len(u) - s.len
               q == sdsMakeRoomFor(s, n)
    <3>1. n \in Nat
      BY <1>1, <1>2, <2>1
    <3> HIDE DEF n
    <3>2. Says(q, t) /\ q.len = s.len /\ q.free >= n
      BY <1>1, <3>1, RoomSays
    <3>3. q.free \in Nat /\ Total(q) = q.len + q.free
      BY <3>2, SaysMore
    <3>4. r = q
      BY <2>1 DEF n
    <3> HIDE DEF q, r
    <3>5. Len(u) <= Total(q)
      BY <1>1, <1>2, <3>2, <3>3 DEF n
    <3> QED
      BY <3>2, <3>4, <3>5
  <2>2. CASE ~(Total(s) < Len(u))
    BY <1>1, <1>2, <2>2
  <2> QED
    BY <2>1, <2>2
<1>4. sdscpylen(s, u) = Ends(r, 0, u, Total(r))
  BY DEF sdscpylen
<1> HIDE DEF r
<1>5. Sound(r)
  BY <1>3 DEF Says
<1> QED
  BY <1>3, <1>4, <1>5, StartFine

\* A text of zeros.
LEMMA ZerosType ==
    ASSUME NEW n \in Nat
    PROVE  Zeros(n) \in Seq(Char) /\ Len(Zeros(n)) = n
BY CharAssumption DEF Zeros

\* sdsgrowzero appends zeros and never cuts the text.
LEMMA GrowFine ==
    ASSUME NEW s, NEW t, Fine(s, t), NEW n \in Nat
    PROVE  Fine(sdsgrowzero(s, n), t \o Zeros(IF n > Len(t) THEN n - Len(t) ELSE 0))
<1>1. Says(s, t)
  BY DEF Fine
<1>2. s.len \in Nat /\ Len(t) = s.len /\ t \in Seq(Char)
  BY <1>1, SaysMore
<1>3. CASE n <= s.len
  <2>1. sdsgrowzero(s, n) = s
    BY <1>3 DEF sdsgrowzero
  <2>2. (IF n > Len(t) THEN n - Len(t) ELSE 0) = 0
    BY <1>2, <1>3
  <2>3. t \o Zeros(0) = t
    <3>1. Zeros(0) = <<>>
      BY DEF Zeros
    <3> QED
      BY <1>2, <3>1
  <2> QED
    BY <2>1, <2>2, <2>3
<1>4. CASE n > s.len
  <2> DEFINE m == n - s.len
             r == sdsMakeRoomFor(s, m)
             u == Zeros(m)
  <2>1. m \in Nat
    BY <1>2, <1>4
  <2>2. sdsgrowzero(s, n) = Ends(r, s.len, u, Total(r))
    BY <1>2, <1>4 DEF sdsgrowzero, Zeros
  <2> HIDE DEF m
  <2>3. Says(r, t) /\ r.len = s.len /\ r.free >= m
    BY <1>1, <2>1, RoomSays
  <2>4. /\ Sound(r) /\ Begins(r, t) /\ t \in Seq(Char) /\ Len(t) = r.len /\ r.free \in Nat
        /\ Total(r) = r.len + r.free /\ r.len \in Nat
    BY <2>3, SaysMore
  <2>5. u \in Seq(Char) /\ Len(u) = m
    BY <2>1, ZerosType
  <2> HIDE DEF r, u
  <2>6. Len(t) + Len(u) <= Total(r)
    BY <2>1, <2>3, <2>4, <2>5
  <2>7. Fine(Ends(r, Len(t), u, Total(r)), t \o u)
    BY <2>4, <2>5, <2>6, EndsFine
  <2>8. m = IF n > Len(t) THEN n - Len(t) ELSE 0
    BY <1>2, <1>4 DEF m
  <2> QED
    BY <2>2, <2>3, <2>4, <2>7, <2>8 DEF u
<1> QED
  BY <1>2, <1>3, <1>4

\* sdsclear leaves the empty text.
LEMMA ClearFine ==
    ASSUME NEW s, NEW t, Fine(s, t)
    PROVE  Fine(sdsclear(s), <<>>)
<1>1. Says(s, t)
  BY DEF Fine
<1>2. Sound(s) /\ Total(s) \in Nat
  BY <1>1, SaysMore
<1> DEFINE e == <<>>
<1>3. e \in Seq(Char) /\ Len(e) <= Total(s)
  BY <1>2
<1>4. sdsclear(s) = Ends(s, 0, e, Total(s))
  BY DEF sdsclear
<1> HIDE DEF e
<1>5. Fine(sdsclear(s), e)
  BY <1>2, <1>3, <1>4, StartFine
<1> QED
  BY <1>5 DEF e

\* sdsRemoveFreeSpace keeps the text.
LEMMA ShrunkFine ==
    ASSUME NEW s, NEW t, Fine(s, t)
    PROVE  Fine(sdsRemoveFreeSpace(s), t)
<1>1. Says(s, t)
  BY DEF Fine
<1> DEFINE n == s.len
           r == [Reallocated(s, n + 1) EXCEPT !.free = n - s.len]
<1>2. n \in Nat /\ s.len <= n /\ n - s.len = 0
  BY <1>1, SaysMore
<1>3. Says(r, t) /\ r.len = s.len /\ (s.cells[s.len + 1] = Nul => r.cells[s.len + 1] = Nul)
  <2> HIDE DEF n
  <2> QED
    BY <1>1, <1>2, ReallocatedSays
<1>4. sdsRemoveFreeSpace(s) = r
  BY <1>2 DEF sdsRemoveFreeSpace
<1> HIDE DEF n, r
<1> QED
  BY <1>3, <1>4 DEF Fine

\* sdsnewlen holds the bytes it was given.
LEMMA NewFine ==
    ASSUME NEW t \in Seq(Char)
    PROVE  Fine(sdsnewlen(t), t)
<1> DEFINE c == Append(t, Nul)
           n == sdsnewlen(t)
<1>1. n = [cells |-> c, len |-> Len(t), free |-> 0, inside |-> TRUE]
  BY DEF sdsnewlen
<1>2. /\ c \in Seq(Char) /\ Len(c) = Len(t) + 1 /\ c[Len(t) + 1] = Nul
      /\ \A i \in 1..Len(t) : c[i] = t[i]
  BY CharAssumption
<1>3. c \in Cells /\ Len(t) \in Nat
  BY <1>2, TextInCells
<1> HIDE DEF c, n
<1>4. Shaped(n) /\ n.cells = c /\ n.len = Len(t) /\ n.free = 0 /\ n.inside = TRUE
  BY <1>1, Reshaped
<1>5. Sound(n)
  BY <1>2, <1>3, <1>4 DEF Sound
<1>6. Fine(n, t)
  BY <1>2, <1>4, <1>5 DEF Fine, Says, Begins
<1> QED
  BY <1>6 DEF n

\* The text of a string, read back as the caller does.
LEMMA TextRight ==
    ASSUME NEW s, NEW t, Says(s, t)
    PROVE  Text(s) = t
<1>1. /\ s.cells \in Cells /\ Len(s.cells) = s.len + s.free + 1 /\ s.len \in Nat /\ s.free \in Nat
      /\ t \in Seq(Char) /\ Len(t) = s.len
  BY SaysMore DEF Says, Sound
<1>2. Text(s) = [i \in 1..s.len |-> s.cells[i]]
  <2> DEFINE c == s.cells
             n == s.len
  <2>1. c \in Seq(Char \cup {Junk}) /\ n \in Nat /\ n <= Len(c)
    BY <1>1 DEF Cells
  <2> HIDE DEF c, n
  <2>2. SubSeq(c, 1, n) = [i \in 1..n |-> c[i]]
    BY <2>1
  <2> QED
    BY <2>2 DEF c, n, Text
<1>3. t = [i \in 1..s.len |-> t[i]]
  BY <1>1
<1>4. \A i \in 1..s.len : s.cells[i] = t[i]
  BY <1>1 DEF Says, Begins
<1> QED
  BY <1>2, <1>3, <1>4

\* Bytes were written behind the text (or cut from it), and the length is set.
LEMMA IncrFine ==
    ASSUME NEW s, Sound(s), NEW k \in Int, NEW w \in Seq(Char), Begins(s, w), Len(w) = s.len + k,
           k <= s.free
    PROVE  Fine(sdsIncrLen(s, k), w)
<1> DEFINE l == s.len + k
           f == s.free - k
           q == [s EXCEPT !.len = l, !.free = f]
           z == <<Nul>>
           o == Overwritten(s.cells, l, z)
           p == Put(q, l, z)
<1>1. /\ Shaped(s) /\ s.cells \in Cells /\ s.len \in Nat /\ s.free \in Nat
      /\ s.len + s.free + 1 = Len(s.cells)
  BY DEF Sound
<1>2. s.inside = TRUE
  BY DEF Sound
<1>3. l \in Nat /\ f \in Nat /\ l + f + 1 = Len(s.cells)
  BY <1>1, TextInCells
<1>4. z \in Seq(Char) /\ Len(z) = 1 /\ z[1] = Nul
  BY CharAssumption
<1>5. z \in Cells
  BY <1>4, TextInCells
<1>6. sdsIncrLen(s, k) = p
  BY DEF sdsIncrLen
<1>7. q = [cells |-> s.cells, len |-> l, free |-> f, inside |-> s.inside]
  <2>1. Shaped(s)
    BY <1>1
  <2> HIDE DEF l, f
  <2> QED
    BY <2>1, LenFreeSet
<1> HIDE DEF l, f, q, z, o, p
<1>8. Shaped(q) /\ q.cells = s.cells /\ q.len = l /\ q.free = f
  BY <1>7, Reshaped
<1>9. q.inside = TRUE
  BY <1>2, <1>7, Reshaped
<1>10. Sound(q)
  BY <1>1, <1>3, <1>8, <1>9 DEF Sound
<1>11. l + Len(z) <= Len(q.cells)
  BY <1>3, <1>4, <1>8
<1>12. Sound(p) /\ p.len = l /\ p.cells = o
  <2>1. /\ Sound(Put(q, l, z)) /\ Put(q, l, z).len = q.len
        /\ Put(q, l, z).cells = Overwritten(q.cells, l, z)
    BY <1>3, <1>5, <1>10, <1>11, PutSound
  <2>2. q.cells = s.cells /\ q.len = l
    BY <1>8
  <2> QED
    BY <2>1, <2>2 DEF p, o
<1>13. \A i \in 1..Len(s.cells) : o[i] = IF i \in l + 1..l + Len(z) THEN z[i - l] ELSE s.cells[i]
  <2>1. s.cells \in Cells /\ l \in Nat
    BY <1>1, <1>3
  <2> QED
    BY <1>5, <2>1, OverType DEF o
<1>14. Len(w) = l
  BY DEF l
<1>15. ASSUME NEW i \in 1..l PROVE o[i] = w[i]
  <2>1. i \in 1..Len(s.cells) /\ i \notin l + 1..l + Len(z)
    BY <1>3, <1>4
  <2>2. o[i] = s.cells[i]
    BY <1>13, <2>1
  <2> QED
    BY <1>14, <2>2 DEF Begins
<1>16. o[l + 1] = Nul
  <2> DEFINE i == l + 1
  <2>1. i \in 1..Len(s.cells) /\ i \in l + 1..l + Len(z) /\ i - l = 1
    BY <1>3, <1>4
  <2> HIDE DEF i
  <2>2. o[i] = z[i - l]
    BY <1>13, <2>1
  <2>3. o[i] = Nul
    BY <1>4, <2>1, <2>2
  <2> QED
    BY <2>3 DEF i
<1> QED
  BY <1>6, <1>12, <1>14, <1>15, <1>16 DEF Fine, Says, Begins

\* u is written behind the text.
LEMMA PutBehind ==
    ASSUME NEW s, NEW t, Says(s, t), NEW u \in Seq(Char), Len(u) <= s.free
    PROVE  LET p == Put(s, s.len, u)
           IN  /\ Sound(p) /\ p.len = s.len /\ p.free = s.free
               /\ Begins(p, t \o u) /\ t \o u \in Seq(Char) /\ Len(t \o u) = s.len + Len(u)
<1> DEFINE p == Put(s, s.len, u)
           n == Len(u)
<1>1. Says(s, t)
  OBVIOUS
<1>2. /\ Sound(s) /\ t \in Seq(Char) /\ Len(t) = s.len /\ s.len \in Nat
      /\ s.free \in Nat /\ s.cells \in Cells /\ Len(s.cells) = s.len + s.free + 1
  BY <1>1, SaysMore
<1>3. u \in Cells /\ n \in Nat /\ n = Len(u)
  BY TextInCells
<1> HIDE DEF n
<1>4. s.len + Len(u) <= Len(s.cells)
  BY <1>2, <1>3
<1>5. Sound(p) /\ p.len = s.len /\ p.free = s.free /\ p.cells = Overwritten(s.cells, s.len, u)
  BY <1>2, <1>3, <1>4, PutSound
<1>6. \A i \in 1..Len(s.cells) : p.cells[i] =
        IF i \in s.len + 1..s.len + n THEN u[i - s.len] ELSE s.cells[i]
  <2>1. Sound(s) /\ s.len \in Nat /\ u \in Cells
    BY <1>2, <1>3
  <2>2. \A i \in 1..Len(s.cells) : Put(s, s.len, u).cells[i] =
          IF i \in s.len + 1..s.len + Len(u) THEN u[i - s.len] ELSE s.cells[i]
    BY <1>4, <2>1, PutCells
  <2> QED
    BY <1>3, <2>2
<1> HIDE DEF p
<1>7. /\ t \o u \in Seq(Char) /\ Len(t \o u) = s.len + n
      /\ \A i \in 1..s.len + n : (t \o u)[i] = IF i <= s.len THEN t[i] ELSE u[i - s.len]
  <2>1. /\ t \o u \in Seq(Char) /\ Len(t \o u) = Len(t) + Len(u)
        /\ \A i \in 1..Len(t) + Len(u) : (t \o u)[i] = IF i <= Len(t) THEN t[i] ELSE u[i - Len(t)]
    BY <1>2, Joined
  <2> QED
    BY <1>2, <1>3, <2>1
<1>8. Begins(p, t \o u)
  <2> SUFFICES ASSUME NEW i \in 1..s.len + n PROVE p.cells[i] = (t \o u)[i]
    BY <1>7 DEF Begins
  <2>1. i \in 1..Len(s.cells)
    BY <1>2, <1>3, <1>4
  <2>2. CASE i <= s.len
    <3>1. p.cells[i] = s.cells[i]
      BY <1>2, <1>3, <1>6, <2>1, <2>2
    <3>2. i \in 1..Len(t)
      BY <1>2, <2>2
    <3>3. s.cells[i] = t[i]
      BY <1>1, <3>2 DEF Says, Begins
    <3> QED
      BY <1>7, <2>2, <3>1, <3>3
  <2>3. CASE ~(i <= s.len)
    <3>1. i \in s.len + 1..s.len + n
      BY <1>2, <1>3, <2>3
    <3> QED
      BY <1>6, <1>7, <2>1, <2>3, <3>1
  <2> QED
    BY <2>2, <2>3
<1> QED
  BY <1>3, <1>5, <1>7, <1>8 DEF p

\* A read() into the free space.
LEMMA ReadFine ==
    ASSUME NEW s, NEW t, Fine(s, t), NEW u \in Seq(Char), Len(u) <= s.free
    PROVE  Fine(sdsIncrLen(Put(s, s.len, u), Len(u)), t \o u)
<1> DEFINE p == Put(s, s.len, u)
           w == t \o u
           n == Len(u)
<1>1. n \in Int /\ n <= s.free
  BY TextInCells
<1>2. Says(s, t)
  BY DEF Fine
<1>3. /\ Sound(p) /\ p.len = s.len /\ p.free = s.free
      /\ Begins(p, w) /\ w \in Seq(Char) /\ Len(w) = s.len + n
  BY <1>2, PutBehind
<1> HIDE DEF p, w, n
<1>4. Len(w) = p.len + n /\ n <= p.free
  BY <1>1, <1>3
<1>5. Fine(sdsIncrLen(p, n), w)
  BY <1>1, <1>3, <1>4, IncrFine
<1> QED
  BY <1>5 DEF p, w, n

\* The beginning of a sequence.
LEMMA Prefix ==
    ASSUME NEW t \in Seq(Char), NEW n \in 0..Len(t)
    PROVE  /\ SubSeq(t, 1, n) \in Seq(Char) /\ Len(SubSeq(t, 1, n)) = n
           /\ \A i \in 1..n : SubSeq(t, 1, n)[i] = t[i]
BY TextInCells

\* Cutting a text by its length alone.
LEMMA CutFine ==
    ASSUME NEW s, NEW t, Fine(s, t), NEW n \in 1..s.len
    PROVE  Fine(sdsIncrLen(s, -n), SubSeq(t, 1, Len(t) - n))
<1> DEFINE m == Len(t) - n
           w == SubSeq(t, 1, m)
           k == -n
<1>1. Says(s, t)
  BY DEF Fine
<1>2. Sound(s) /\ t \in Seq(Char) /\ Len(t) = s.len /\ s.len \in Nat /\ s.free \in Nat
  BY <1>1, SaysMore
<1>3. m \in 0..Len(t) /\ k \in Int /\ k <= s.free /\ m = s.len + k
  BY <1>2
<1> HIDE DEF m, k
<1>4. w \in Seq(Char) /\ Len(w) = m /\ \A i \in 1..m : w[i] = t[i]
  BY <1>2, <1>3, Prefix
<1> HIDE DEF w
<1>5. Begins(s, w)
  BY <1>1, <1>2, <1>3, <1>4 DEF Says, Begins
<1>6. Fine(sdsIncrLen(s, k), w)
  BY <1>2, <1>3, <1>4, <1>5, IncrFine
<1> QED
  BY <1>6 DEF m, k, w

\* strlen after a NUL was written into a text that has none before it.
LEMMA UpdateIs ==
    ASSUME NEW s, Shaped(s), NEW m, CLength(s) = m
    PROVE  sdsupdatelen(s) = [cells |-> s.cells, len |-> m, free |-> s.free + (s.len - m),
                              inside |-> s.inside]
<1> DEFINE f == s.free + (s.len - m)
           r == [s EXCEPT !.free = f]
<1>1. sdsupdatelen(s) = [r EXCEPT !.len = m]
  BY DEF sdsupdatelen
<1>2. s = [cells |-> s.cells, len |-> s.len, free |-> s.free, inside |-> s.inside]
  BY DEF Shaped
<1>3. r = [cells |-> s.cells, len |-> s.len, free |-> f, inside |-> s.inside]
  <2> HIDE DEF f
  <2> QED
    BY <1>2
<1> HIDE DEF f, r
<1>4. [r EXCEPT !.len = m] = [cells |-> s.cells, len |-> m, free |-> f, inside |-> s.inside]
  BY <1>3
<1> QED
  BY <1>1, <1>4 DEF f

\* sdsupdatelen takes the text up to the first NUL.
LEMMA UpdateFine ==
    ASSUME NEW s, NEW t, Fine(s, t), NEW i \in 1..s.len, \A j \in 1..i - 1 : t[j] # Nul
    PROVE  Fine(sdsupdatelen(Put(s, i - 1, <<Nul>>)), SubSeq(t, 1, i - 1))
<1> DEFINE z == <<Nul>>
           m == i - 1
           p == Put(s, m, z)
           w == SubSeq(t, 1, m)
<1>1. Says(s, t)
  BY DEF Fine
<1>2. /\ Sound(s) /\ t \in Seq(Char) /\ Len(t) = s.len /\ s.len \in Nat
      /\ s.free \in Nat /\ s.cells \in Cells /\ Len(s.cells) = s.len + s.free + 1
  BY <1>1, SaysMore
<1>3. z \in Seq(Char) /\ Len(z) = 1 /\ z[1] = Nul
  BY CharAssumption
<1>a. z \in Cells
  BY <1>3, TextInCells
<1>b. m \in 0..Len(t) /\ m + 1 <= Len(s.cells) /\ m + 1 = i
  BY <1>2
<1>4. z \in Cells /\ m \in Nat /\ m \in 0..Len(t) /\ m + Len(z) <= Len(s.cells) /\ m + 1 = i
  BY <1>2, <1>3, <1>a, <1>b
<1>5. i \in 1..Len(s.cells)
  BY <1>2
<1> HIDE DEF z, m
<1>6. Sound(p) /\ p.len = s.len /\ p.free = s.free /\ p.cells = Overwritten(s.cells, m, z)
  BY <1>2, <1>4, PutSound
<1>7. \A j \in 1..Len(s.cells) : p.cells[j] =
        IF j \in m + 1..m + Len(z) THEN z[j - m] ELSE s.cells[j]
  BY <1>2, <1>4, PutCells
<1>8. w \in Seq(Char) /\ Len(w) = m /\ \A j \in 1..m : w[j] = t[j]
  BY <1>2, <1>4, Prefix
<1> HIDE DEF p, w
<1>9. ASSUME NEW j \in 1..m PROVE p.cells[j] = t[j] /\ p.cells[j] # Nul
  <2>1. j \in 1..Len(s.cells) /\ j \notin m + 1..m + Len(z) /\ j \in 1..Len(t) /\ j \in 1..i - 1
    BY <1>2, <1>3, <1>4
  <2>2. p.cells[j] = s.cells[j]
    BY <1>7, <2>1
  <2> QED
    BY <1>1, <2>1, <2>2 DEF Says, Begins
<1>10. p.cells[i] = Nul
  <2>1. i \in m + 1..m + Len(z) /\ i - m = 1
    BY <1>3, <1>4
  <2> QED
    BY <1>3, <1>5, <1>7, <2>1
<1>11. p.cells \in Cells /\ DOMAIN p.cells = 1..Len(s.cells)
  <2>1. p.cells \in Cells /\ Len(p.cells) = Len(s.cells)
    <3>1. /\ p.cells \in Cells /\ p.len + p.free + 1 = Len(p.cells)
      BY <1>6 DEF Sound
    <3> QED
      BY <1>2, <1>6, <3>1
  <2> QED
    BY <2>1 DEF Cells
<1>12. CLength(p) = m
  <2> DEFINE C(j) == /\ p.cells[j] = Nul
                     /\ \A l \in 1..j - 1 : p.cells[l] # Nul
             first == CHOOSE j \in DOMAIN p.cells : C(j)
  <2>1. i \in DOMAIN p.cells /\ C(i)
    BY <1>4, <1>5, <1>9, <1>10, <1>11
  <2>2. ASSUME NEW j \in DOMAIN p.cells, C(j) PROVE j = i
    <3>1. j \in 1..Len(s.cells)
      BY <1>11
    <3>2. CASE j < i
      <4>1. j \in 1..m
        BY <1>4, <3>1, <3>2
      <4> QED
        BY <1>9, <2>2, <4>1
    <3>3. CASE i < j
      <4>1. i \in 1..j - 1
        BY <3>1, <3>3
      <4> QED
        BY <1>10, <2>2, <4>1
    <3> QED
      BY <3>1, <3>2, <3>3
  <2>3. CLength(p) = first - 1
    BY DEF CLength
  <2> HIDE DEF C
  <2>4. first = i
    BY <2>1, <2>2
  <2> HIDE DEF first
  <2> QED
    BY <1>4, <2>3, <2>4
<1> DEFINE f == p.free + (p.len - m)
           u == sdsupdatelen(p)
<1>15. u = [cells |-> p.cells, len |-> m, free |-> f, inside |-> p.inside]
  <2>1. Shaped(p)
    BY <1>6 DEF Sound
  <2> QED
    BY <1>12, <2>1, UpdateIs
<1>16. f \in Nat /\ m + f + 1 = Len(p.cells)
  <2>1. p.len + p.free + 1 = Len(p.cells)
    BY <1>6 DEF Sound
  <2> QED
    BY <1>2, <1>4, <1>6, <2>1
<1> HIDE DEF f, u
<1>17. Shaped(u) /\ u.cells = p.cells /\ u.len = m /\ u.free = f
  BY <1>15, Reshaped
<1>18. u.inside = TRUE
  <2>1. p.inside = TRUE
    BY <1>6 DEF Sound
  <2> QED
    BY <1>15, <2>1, Reshaped
<1>19. Sound(u)
  BY <1>4, <1>11, <1>16, <1>17, <1>18 DEF Sound
<1>20. Fine(u, w)
  <2>1. u.cells[u.len + 1] = Nul
    BY <1>4, <1>10, <1>17
  <2>2. Begins(u, w)
    BY <1>8, <1>9, <1>17 DEF Begins
  <2> QED
    BY <1>8, <1>17, <1>19, <2>1, <2>2 DEF Fine, Says
<1> QED
  BY <1>20 DEF u, p, m, w, z

\* A part of the cells that is moved to the beginning.
LEMMA PartFine ==
    ASSUME NEW s, NEW t, Fine(s, t), NEW a \in 1..s.len + 1, NEW b \in a - 1..s.len
    PROVE  Fine(Ends(s, 0, SubSeq(s.cells, a, b), Total(s)), SubSeq(t, a, b))
<1> DEFINE w == SubSeq(t, a, b)
           c == s.cells
<1>1. Says(s, t)
  BY DEF Fine
<1>2. /\ Sound(s) /\ t \in Seq(Char) /\ Len(t) = s.len /\ s.len \in Nat /\ s.free \in Nat
      /\ c \in Cells /\ Len(c) = s.len + s.free + 1 /\ Total(s) = s.len + s.free
  BY <1>1, SaysMore
<1>3. w \in Seq(Char) /\ Len(w) = b - a + 1 /\ w = [i \in 1..b - a + 1 |-> t[a + i - 1]]
  BY <1>2
<1>4. SubSeq(c, a, b) = [i \in 1..b - a + 1 |-> c[a + i - 1]]
  <2>1. c \in Seq(Char \cup {Junk})
    BY <1>2 DEF Cells
  <2> HIDE DEF c
  <2> QED
    BY <1>2, <2>1
<1>5. \A i \in 1..b - a + 1 : c[a + i - 1] = t[a + i - 1]
  <2> SUFFICES ASSUME NEW i \in 1..b - a + 1 PROVE c[a + i - 1] = t[a + i - 1]
    OBVIOUS
  <2>1. a + i - 1 \in 1..Len(t)
    BY <1>2
  <2> QED
    BY <1>1, <2>1 DEF Says, Begins
<1>6. SubSeq(c, a, b) = w
  BY <1>3, <1>4, <1>5
<1>7. Len(w) <= Total(s)
  BY <1>2, <1>3
<1> HIDE DEF w, c
<1>8. Fine(Ends(s, 0, w, Total(s)), w)
  BY <1>2, <1>3, <1>7, StartFine
<1> QED
  BY <1>6, <1>8 DEF w, c

\* The least and the greatest of some numbers.
LEMMA LeastIn ==
    ASSUME NEW S \in SUBSET Nat, S # {}
    PROVE  \E n \in S : \A m \in S : n <= m
<1> DEFINE R == OpToRel(LAMBDA i, j : i < j, Nat)
<1>1. IsWellFoundedOn(R, Nat)
  BY NatLessThanWellFounded
<1>2. PICK n \in S : \A m \in S : ~(<<m, n>> \in R)
  <2> HIDE DEF R
  <2> QED
    BY <1>1, WFMin
<1>3. ASSUME NEW m \in S PROVE n <= m
  <2>1. m < n => <<m, n>> \in R
    BY DEF OpToRel
  <2> HIDE DEF R
  <2> QED
    BY <1>2, <2>1
<1> QED
  BY <1>3

\* A set of integers with an upper bound has a greatest element.
LEMMA GreatestIn ==
    ASSUME NEW k \in Nat, NEW S \in SUBSET (1..k), S # {}
    PROVE  \E n \in S : \A m \in S : m <= n
<1> DEFINE T == {k - n : n \in S}
<1>1. T \in SUBSET Nat /\ T # {}
  OBVIOUS
<1>2. PICK x \in T : \A y \in T : x <= y
  <2> HIDE DEF T
  <2> QED
    BY <1>1, LeastIn
<1>3. PICK n \in S : x = k - n
  OBVIOUS
<1>4. ASSUME NEW m \in S PROVE m <= n
  <2>1. k - m \in T
    OBVIOUS
  <2>2. k - n <= k - m
    BY <1>2, <1>3, <2>1
  <2> QED
    BY <2>2
<1> QED
  BY <1>4

\* sdstrim looks for the first and the last byte to keep, and finds those that
\* Trimmed names.
LEMMA TrimFine ==
    ASSUME NEW s, NEW t, Fine(s, t), NEW cset
    PROVE  Fine(sdstrim(s, cset), Trimmed(t, cset))
<1> DEFINE inside(i) == ~InSet(s.cells[i + 1], cset)
           F(i) == /\ \A j \in 0..i - 1 : ~inside(j)
                   /\ i = s.len \/ inside(i)
           G(i) == /\ \A j \in i + 1..s.len - 1 : ~inside(j)
                   /\ i = 0 \/ inside(i)
           sp == CHOOSE i \in 0..s.len : F(i)
           ep == IF s.len = 0 THEN -1 ELSE CHOOSE i \in 0..s.len - 1 : G(i)
           len == IF sp > ep THEN 0 ELSE ep - sp + 1
           keep == {i \in DOMAIN t : t[i] \notin cset \cup {Nul}}
           low == CHOOSE i \in keep : \A j \in keep : i <= j
           high == CHOOSE i \in keep : \A j \in keep : i >= j
<1>1. sdstrim(s, cset) = Ends(s, 0, SubSeq(s.cells, sp + 1, sp + len), Total(s))
  BY DEF sdstrim
<1>2. Trimmed(t, cset) = IF keep = {} THEN <<>> ELSE SubSeq(t, low, high)
  BY DEF Trimmed
<1>3. Says(s, t)
  BY DEF Fine
<1>4. t \in Seq(Char) /\ Len(t) = s.len /\ s.len \in Nat /\ DOMAIN t = 1..s.len
  BY <1>3, SaysMore, TextInCells
<1>5. \A i \in 0..s.len - 1 : inside(i) <=> i + 1 \in keep
  <2> SUFFICES ASSUME NEW i \in 0..s.len - 1 PROVE inside(i) <=> i + 1 \in keep
    OBVIOUS
  <2>1. i + 1 \in DOMAIN t /\ i + 1 \in 1..Len(t)
    BY <1>4
  <2>2. s.cells[i + 1] = t[i + 1]
    BY <1>3, <2>1 DEF Says, Begins
  <2> QED
    BY <2>1, <2>2 DEF InSet
<1>6. keep \in SUBSET (1..s.len)
  BY <1>4
<1> HIDE DEF inside, keep
<1>7. CASE keep = {}
  <2>1. \A i \in 0..s.len - 1 : ~inside(i)
    BY <1>5, <1>7
  <2>2. sp = s.len
    <3>1. F(s.len)
      BY <2>1
    <3>2. ASSUME NEW i \in 0..s.len, F(i) PROVE i = s.len
      BY <1>4, <2>1, <3>2
    <3>3. s.len \in 0..s.len
      BY <1>4
    <3> HIDE DEF F
    <3> QED
      BY <3>1, <3>2, <3>3
  <2>3. s.len # 0 => ep = 0
    <3> SUFFICES ASSUME s.len # 0 PROVE ep = 0
      OBVIOUS
    <3> DEFINE last == CHOOSE i \in 0..s.len - 1 : G(i)
    <3>1. 0 \in 0..s.len - 1 /\ G(0)
      BY <1>4, <2>1
    <3>2. ASSUME NEW i \in 0..s.len - 1, G(i) PROVE i = 0
      BY <2>1, <3>2
    <3>3. ep = last
      OBVIOUS
    <3> HIDE DEF G, ep
    <3> QED
      BY <3>1, <3>2, <3>3
  <2>4. s.len = 0 => ep = -1
    OBVIOUS
  <2> DEFINE a == sp + 1
             b == sp + len
  <2> HIDE DEF sp, ep
  <2>5. len = 0
    BY <1>4, <2>2, <2>3, <2>4
  <2>6. a \in 1..s.len + 1 /\ b \in a - 1..s.len /\ b = a - 1
    BY <1>4, <2>2, <2>5
  <2>7. SubSeq(t, a, b) = <<>>
    <3> HIDE DEF a, b
    <3> QED
      BY <1>4, <2>6
  <2> HIDE DEF a, b, len
  <2>8. Fine(Ends(s, 0, SubSeq(s.cells, a, b), Total(s)), SubSeq(t, a, b))
    BY <2>6, PartFine
  <2> QED
    BY <1>1, <1>2, <1>7, <2>7, <2>8 DEF a, b
<1>8. CASE keep # {}
  <2>1. low \in keep /\ \A j \in keep : low <= j
    <3>1. \E i \in keep : \A j \in keep : i <= j
      BY <1>6, <1>8, LeastIn
    <3> QED
      BY <3>1
  <2>2. high \in keep /\ \A j \in keep : high >= j
    <3>1. PICK i \in keep : \A j \in keep : j <= i
      BY <1>4, <1>6, <1>8, GreatestIn
    <3>2. \A j \in keep : i >= j
      BY <1>6, <3>1
    <3> QED
      BY <3>2
  <2> HIDE DEF low, high
  <2>3. low \in 1..s.len /\ high \in 1..s.len /\ low <= high /\ s.len # 0
    BY <1>4, <1>6, <2>1, <2>2
  <2>4. sp = low - 1
    <3> DEFINE x == low - 1
    <3>1. x \in 0..s.len - 1 /\ x \in 0..s.len /\ x + 1 = low
      BY <1>4, <2>3
    <3>2. inside(x)
      BY <1>5, <2>1, <3>1
    <3>3. \A j \in 0..x - 1 : ~inside(j)
      <4> SUFFICES ASSUME NEW j \in 0..x - 1, inside(j) PROVE FALSE
        OBVIOUS
      <4>1. j \in 0..s.len - 1 /\ j + 1 < low
        BY <1>4, <3>1
      <4>2. j + 1 \in keep
        BY <1>5, <4>1
      <4> QED
        BY <2>1, <2>3, <4>1, <4>2
    <3>4. F(x)
      BY <3>2, <3>3
    <3>5. ASSUME NEW i \in 0..s.len, F(i) PROVE i = x
      <4>1. ~(x < i)
        <5> SUFFICES ASSUME x < i PROVE FALSE
          OBVIOUS
        <5>1. x \in 0..i - 1
          BY <3>1
        <5> QED
          BY <3>2, <3>5, <5>1
      <4>2. ~(i < x)
        <5> SUFFICES ASSUME i < x PROVE FALSE
          OBVIOUS
        <5>1. i \in 0..x - 1 /\ i # s.len
          BY <1>4, <3>1
        <5> QED
          BY <3>3, <3>5, <5>1
      <4> QED
        BY <3>1, <4>1, <4>2
    <3> HIDE DEF F, x
    <3>6. sp = x
      BY <3>1, <3>4, <3>5
    <3> QED
      BY <3>6 DEF x
  <2>5. ep = high - 1
    <3> DEFINE x == high - 1
               last == CHOOSE i \in 0..s.len - 1 : G(i)
    <3>1. x \in 0..s.len - 1 /\ x + 1 = high
      BY <1>4, <2>3
    <3>2. inside(x)
      BY <1>5, <2>2, <3>1
    <3>3. \A j \in x + 1..s.len - 1 : ~inside(j)
      <4> SUFFICES ASSUME NEW j \in x + 1..s.len - 1, inside(j) PROVE FALSE
        OBVIOUS
      <4>1. j \in 0..s.len - 1 /\ j + 1 > high
        BY <1>4, <3>1
      <4>2. j + 1 \in keep
        BY <1>5, <4>1
      <4> QED
        BY <2>2, <2>3, <4>1, <4>2
    <3>4. G(x)
      BY <3>2, <3>3
    <3>5. ASSUME NEW i \in 0..s.len - 1, G(i) PROVE i = x
      <4>1. ~(i < x)
        <5> SUFFICES ASSUME i < x PROVE FALSE
          OBVIOUS
        <5>1. x \in i + 1..s.len - 1
          BY <3>1
        <5> QED
          BY <3>2, <3>5, <5>1
      <4>2. ~(x < i)
        <5> SUFFICES ASSUME x < i PROVE FALSE
          OBVIOUS
        <5>1. i \in x + 1..s.len - 1 /\ i # 0
          BY <1>4, <3>1
        <5> QED
          BY <3>3, <3>5, <5>1
      <4> QED
        BY <3>1, <4>1, <4>2
    <3>6. ep = last
      BY <2>3
    <3> HIDE DEF G, x, ep
    <3>7. last = x
      BY <3>1, <3>4, <3>5
    <3> QED
      BY <3>6, <3>7 DEF x
  <2> HIDE DEF sp, ep
  <2>6. sp + 1 = low /\ sp + len = high
    BY <2>3, <2>4, <2>5
  <2>7. low \in 1..s.len + 1 /\ high \in low - 1..s.len
    BY <1>4, <2>3
  <2>8. Fine(Ends(s, 0, SubSeq(s.cells, low, high), Total(s)), SubSeq(t, low, high))
    BY <2>7, PartFine
  <2> HIDE DEF len
  <2> QED
    BY <1>1, <1>2, <1>8, <2>6, <2>8
<1> QED
  BY <1>7, <1>8

\* sdsrange keeps the part its clamped indices name.
LEMMA RangeFine ==
    ASSUME NEW s, NEW t, Fine(s, t), NEW from \in Int, NEW to \in Int
    PROVE  Fine(sdsrange(s, from, to), Between(t, from, to))
<1> DEFINE clamp(i) == IF i >= 0 THEN i ELSE IF s.len + i < 0 THEN 0 ELSE s.len + i
           left == clamp(from)
           right == IF clamp(to) >= s.len THEN s.len - 1 ELSE clamp(to)
           len == IF left > right THEN 0 ELSE right - left + 1
           last == IF clamp(to) + 1 < Len(t) THEN clamp(to) + 1 ELSE Len(t)
<1>1. Says(s, t)
  BY DEF Fine
<1>2. t \in Seq(Char) /\ Len(t) = s.len /\ s.len \in Nat
  BY <1>1, SaysMore
<1>3. sdsrange(s, from, to) =
        IF s.len = 0 THEN s ELSE Ends(s, 0, SubSeq(s.cells, left + 1, left + len), Total(s))
  BY DEF sdsrange
<1>4. Between(t, from, to) = SubSeq(t, left + 1, last)
  BY <1>2 DEF Between
<1>5. clamp(from) \in Nat /\ clamp(to) \in Nat
  BY <1>2
<1>6. last = right + 1
  BY <1>2, <1>5
<1> HIDE DEF clamp, last
<1>7. left \in Nat /\ right \in -1..s.len - 1
  BY <1>2, <1>5
<1> HIDE DEF left, right
<1>8. CASE s.len = 0
  <2>1. last < left + 1 /\ last \in Int
    BY <1>6, <1>7, <1>8
  <2>2. SubSeq(t, left + 1, last) = <<>>
    BY <1>2, <1>7, <2>1
  <2>3. t = <<>>
    BY <1>2, <1>8
  <2> QED
    BY <1>3, <1>4, <1>8, <2>2, <2>3
<1>9. CASE s.len # 0 /\ left > right
  <2>1. SubSeq(t, left + 1, last) = <<>>
    BY <1>2, <1>6, <1>7, <1>9
  <2>2. len = 0 /\ SubSeq(s.cells, left + 1, left + len) = <<>>
    <3> DEFINE c == s.cells
    <3>1. c \in Seq(Char \cup {Junk})
      BY <1>1, SaysMore DEF Cells
    <3> HIDE DEF c
    <3>2. len = 0
      BY <1>9
    <3>3. SubSeq(c, left + 1, left + 0) = <<>>
      BY <1>7, <3>1
    <3> HIDE DEF len
    <3> QED
      BY <3>2, <3>3 DEF c
  <2>3. sdsrange(s, from, to) = sdsclear(s)
    BY <1>3, <1>9, <2>2 DEF sdsclear
  <2> QED
    BY <1>4, <2>1, <2>3, ClearFine
<1>10. CASE s.len # 0 /\ ~(left > right)
  <2> DEFINE a == left + 1
             b == left + len
  <2>1. a \in 1..s.len + 1 /\ b \in a - 1..s.len /\ b = last
    BY <1>2, <1>6, <1>7, <1>10
  <2> HIDE DEF a, b, len
  <2>2. Fine(Ends(s, 0, SubSeq(s.cells, a, b), Total(s)), SubSeq(t, a, b))
    BY <2>1, PartFine
  <2> QED
    BY <1>3, <1>4, <1>10, <2>1, <2>2 DEF a, b
<1> QED
  BY <1>8, <1>9, <1>10

\* sdsmapchars changes each character on its own.
LEMMA MapFine ==
    ASSUME NEW s, NEW t, Fine(s, t), NEW from \in Char, NEW to \in Char
    PROVE  Fine(sdsmapchars(s, from, to), [i \in DOMAIN t |-> IF t[i] = from THEN to ELSE t[i]])
<1> DEFINE c == s.cells
           o == [i \in DOMAIN c |-> IF i <= s.len /\ c[i] = from THEN to ELSE c[i]]
           w == [i \in DOMAIN t |-> IF t[i] = from THEN to ELSE t[i]]
           r == sdsmapchars(s, from, to)
<1>1. Says(s, t)
  BY DEF Fine
<1>2. /\ Sound(s) /\ t \in Seq(Char) /\ Len(t) = s.len /\ s.len \in Nat /\ s.free \in Nat
      /\ c \in Cells /\ Len(c) = s.len + s.free + 1 /\ DOMAIN t = 1..s.len
  BY <1>1, SaysMore, TextInCells
<1>3. c \in Seq(Char \cup {Junk}) /\ DOMAIN c = 1..Len(c) /\ Len(c) \in Nat
  BY <1>2 DEF Cells
<1>4. ASSUME NEW i \in 1..Len(c)
      PROVE  o[i] \in Char \cup {Junk} /\ o[i] = IF i <= s.len /\ c[i] = from THEN to ELSE c[i]
  <2>1. o[i] = IF i <= s.len /\ c[i] = from THEN to ELSE c[i]
    BY <1>3
  <2>2. c[i] \in Char \cup {Junk}
    <3> HIDE DEF c
    <3> QED
      BY <1>3
  <2> QED
    BY <2>1, <2>2
<1>5. r = [s EXCEPT !.cells = o]
  BY DEF sdsmapchars
<1>6. r = [cells |-> o, len |-> s.len, free |-> s.free, inside |-> s.inside]
  <2>1. Shaped(s)
    BY <1>2 DEF Sound
  <2> HIDE DEF o
  <2> QED
    BY <1>5, <2>1, CellsSet
<1>7. o = [i \in 1..Len(c) |-> o[i]]
  BY <1>3
<1>8. o \in Cells /\ Len(o) = Len(c)
  <2> HIDE DEF o, c
  <2>1. o \in [1..Len(c) -> Char \cup {Junk}]
    BY <1>4, <1>7
  <2> QED
    BY <1>3, <2>1 DEF Cells
<1>9. w \in Seq(Char) /\ Len(w) = s.len /\ \A i \in 1..s.len : w[i] = IF t[i] = from THEN to ELSE t[i]
  <2>1. w \in [1..s.len -> Char]
    BY <1>2
  <2>2. \A i \in 1..s.len : w[i] = IF t[i] = from THEN to ELSE t[i]
    BY <1>2
  <2> HIDE DEF w
  <2> QED
    BY <1>2, <2>1, <2>2
<1> HIDE DEF o, w, r
<1>10. r.cells = o /\ r.len = s.len /\ r.free = s.free /\ Shaped(r)
  BY <1>6, Reshaped
<1>11. r.inside = TRUE
  <2>1. s.inside = TRUE
    BY <1>2 DEF Sound
  <2> QED
    BY <1>6, <2>1, Reshaped
<1>12. Sound(r)
  BY <1>2, <1>8, <1>10, <1>11 DEF Sound
<1>13. \A i \in 1..s.len : o[i] = w[i]
  <2> SUFFICES ASSUME NEW i \in 1..s.len PROVE o[i] = w[i]
    OBVIOUS
  <2>1. i \in 1..Len(c) /\ i <= s.len /\ i \in 1..Len(t)
    BY <1>2
  <2>2. c[i] = t[i]
    BY <1>1, <2>1 DEF Says, Begins
  <2> QED
    BY <1>4, <1>9, <2>1, <2>2
<1>14. o[s.len + 1] = Nul
  <2> DEFINE i == s.len + 1
  <2>1. i \in 1..Len(c) /\ ~(i <= s.len)
    BY <1>2
  <2>2. c[i] = Nul
    BY DEF Fine
  <2> HIDE DEF i
  <2>3. o[i] = Nul
    BY <1>4, <2>1, <2>2
  <2> QED
    BY <2>3 DEF i
<1>15. Fine(r, w)
  BY <1>9, <1>10, <1>12, <1>13, <1>14 DEF Fine, Says, Begins
<1> QED
  BY <1>15 DEF r, w

-----------------------------------------------------------------------------
(* sdscatfmt.                                                              *)

\* The text grows by u; the NUL comes later.
LEMMA GainSays ==
    ASSUME NEW s, NEW t, Says(s, t), NEW u \in Seq(Char), NEW n, n = Len(u), n <= s.free
    PROVE  Says([Put(s, s.len, u) EXCEPT !.len = @ + n, !.free = @ - n], t \o u)
<1> DEFINE p == Put(s, s.len, u)
           w == t \o u
           l == p.len + n
           f == p.free - n
           r == [p EXCEPT !.len = l, !.free = f]
<1>1. n \in Nat /\ s.len \in Nat /\ s.free \in Nat
  BY SaysMore, TextInCells
<1>2. /\ Sound(p) /\ p.len = s.len /\ p.free = s.free
      /\ Begins(p, w) /\ w \in Seq(Char) /\ Len(w) = s.len + n
  BY PutBehind
<1>3. [p EXCEPT !.len = @ + n, !.free = @ - n] = r
  OBVIOUS
<1> HIDE DEF p, w
<1>4. l \in Nat /\ f \in Nat /\ l + f = p.len + p.free /\ Len(w) = l
  BY <1>1, <1>2
<1> HIDE DEF l, f
<1>5. r = [cells |-> p.cells, len |-> l, free |-> f, inside |-> p.inside]
  <2>1. Shaped(p)
    BY <1>2 DEF Sound
  <2> QED
    BY <2>1, LenFreeSet
<1> HIDE DEF r
<1>6. Shaped(r) /\ r.cells = p.cells /\ r.len = l /\ r.free = f
  BY <1>5, Reshaped
<1>7. r.inside = TRUE
  <2>1. p.inside = TRUE
    BY <1>2 DEF Sound
  <2> QED
    BY <1>5, <2>1, Reshaped
<1>8. p.cells \in Cells /\ p.len + p.free + 1 = Len(p.cells) /\ p.len \in Nat /\ p.free \in Nat
  BY <1>2 DEF Sound
<1>9. l + f + 1 = Len(p.cells)
  BY <1>4, <1>8
<1>10. Sound(r)
  BY <1>4, <1>6, <1>7, <1>8, <1>9 DEF Sound
<1>11. Begins(r, w)
  BY <1>2, <1>6 DEF Begins
<1>12. Says(r, w)
  BY <1>2, <1>4, <1>6, <1>10, <1>11 DEF Says
<1> QED
  BY <1>3, <1>12 DEF p, w

Item(x) == x = [insert |-> x.insert, text |-> x.text] /\ x.text \in Seq(Char)
           /\ (x.insert = TRUE \/ Len(x.text) = 1)

\* One directive of the format appends its text and leaves the NUL to the end.
LEMMA ItemSays ==
    ASSUME NEW s, NEW t, Says(s, t), NEW x, Item(x)
    PROVE  Says(FormatItem(s, x), t \o x.text)
<1> DEFINE u == x.text
           n == Len(u)
           r == IF s.free = 0 THEN sdsMakeRoomFor(s, 1) ELSE s
           q == IF x.insert /\ r.free < n THEN sdsMakeRoomFor(r, n) ELSE r
<1>1. u \in Seq(Char) /\ n \in Nat
  BY TextInCells DEF Item
<1>2. FormatItem(s, x) = [Put(q, q.len, u) EXCEPT !.len = @ + n, !.free = @ - n]
  BY DEF FormatItem
<1>3. Says(r, t) /\ r.free >= 1 /\ r.free \in Nat
  <2>1. CASE s.free = 0
    <3> DEFINE y == sdsMakeRoomFor(s, 1)
    <3>1. Says(y, t) /\ y.free >= 1
      BY RoomSays
    <3>2. y.free \in Nat
      BY <3>1, SaysMore
    <3> HIDE DEF y
    <3>3. r = y
      BY <2>1 DEF y
    <3> QED
      BY <3>1, <3>2, <3>3
  <2>2. CASE s.free # 0
    <3>1. s.free \in Nat
      BY SaysMore
    <3> QED
      BY <2>2, <3>1
  <2> QED
    BY <2>1, <2>2
<1> HIDE DEF r
<1>4. Says(q, t) /\ n <= q.free
  <2>1. CASE x.insert /\ r.free < n
    <3> DEFINE y == sdsMakeRoomFor(r, n)
    <3>1. Says(y, t) /\ y.free >= n
      BY <1>1, <1>3, RoomSays
    <3>2. y.free \in Nat
      BY <3>1, SaysMore
    <3>3. q = y
      BY <2>1
    <3> HIDE DEF y, q
    <3> QED
      BY <1>1, <3>1, <3>2, <3>3
  <2>2. CASE ~(x.insert /\ r.free < n)
    <3>1. q = r
      BY <2>2
    <3>2. n <= r.free
      <4>1. CASE x.insert = TRUE
        BY <1>1, <1>3, <2>2, <4>1
      <4>2. CASE n = 1
        BY <1>3, <4>2
      <4> QED
        BY <4>1, <4>2 DEF Item
    <3> HIDE DEF q
    <3> QED
      BY <1>3, <3>1, <3>2
  <2> QED
    BY <2>1, <2>2
<1> HIDE DEF q, u, n
<1>5. Says([Put(q, q.len, u) EXCEPT !.len = @ + n, !.free = @ - n], t \o u)
  BY <1>1, <1>4, GainSays DEF n
<1> QED
  BY <1>2, <1>5 DEF u

\* The NUL that ends the formatted text.
LEMMA ClosedFine ==
    ASSUME NEW s, NEW t, Says(s, t)
    PROVE  Fine(Put(s, s.len, <<Nul>>), t)
<1> DEFINE z == <<Nul>>
           p == Put(s, s.len, z)
           c == s.cells
<1>1. /\ Sound(s) /\ t \in Seq(Char) /\ Len(t) = s.len /\ s.len \in Nat /\ s.free \in Nat
      /\ Len(c) = s.len + s.free + 1
  BY SaysMore DEF Sound, Says
<1>2. z \in Seq(Char) /\ Len(z) = 1 /\ z[1] = Nul
  BY CharAssumption
<1>a. z \in Cells
  BY <1>2, TextInCells
<1>b. s.len + 1 <= Len(c)
  BY <1>1
<1>3. z \in Cells /\ s.len + Len(z) <= Len(c)
  BY <1>2, <1>a, <1>b
<1> HIDE DEF z
<1>4. Sound(p) /\ p.len = s.len
  BY <1>1, <1>3, PutSound
<1>5. \A i \in 1..Len(c) : p.cells[i] = IF i \in s.len + 1..s.len + Len(z) THEN z[i - s.len] ELSE c[i]
  BY <1>1, <1>3, PutCells
<1> HIDE DEF p, c
<1>6. Begins(p, t)
  <2> SUFFICES ASSUME NEW i \in 1..Len(t) PROVE p.cells[i] = t[i]
    BY DEF Begins
  <2>1. i \in 1..Len(c) /\ i \notin s.len + 1..s.len + Len(z)
    BY <1>1, <1>2
  <2>2. p.cells[i] = c[i]
    BY <1>5, <2>1
  <2>3. c[i] = t[i]
    BY DEF Says, Begins, c
  <2> QED
    BY <2>2, <2>3
<1>7. p.cells[s.len + 1] = Nul
  <2> DEFINE i == s.len + 1
  <2>1. i \in 1..Len(c) /\ i \in s.len + 1..s.len + Len(z) /\ i - s.len = 1
    BY <1>1, <1>2
  <2> HIDE DEF i
  <2>2. p.cells[i] = z[i - s.len]
    BY <1>5, <2>1
  <2>3. p.cells[i] = Nul
    BY <1>2, <2>1, <2>2
  <2> QED
    BY <2>3 DEF i
<1>8. Fine(p, t)
  BY <1>1, <1>4, <1>6, <1>7 DEF Fine, Says
<1> QED
  BY <1>8 DEF p, z

\* The loop over a format of two items.
LEMMA FormatFine ==
    ASSUME NEW s, NEW t, Fine(s, t), NEW x, NEW y, Item(x), Item(y)
    PROVE  Fine(sdscatfmt(s, <<x, y>>), (t \o x.text) \o y.text)
<1> DEFINE fmt == <<x, y>>
           one == FormatItem(s, x)
           two == FormatItem(one, y)
           Turns(f) == f = [i \in 0..Len(fmt) |-> IF i = 0 THEN s ELSE FormatItem(f[i - 1], fmt[i])]
           st == CHOOSE f : Turns(f)
<1>1. sdscatfmt(s, fmt) = Put(st[Len(fmt)], st[Len(fmt)].len, <<Nul>>)
  BY DEF sdscatfmt
<1>2. Len(fmt) = 2 /\ fmt[1] = x /\ fmt[2] = y
  OBVIOUS
<1>3. Turns(st)
  <2> DEFINE g == [i \in 0..2 |-> IF i = 0 THEN s ELSE IF i = 1 THEN one ELSE two]
  <2>1. \A i \in 0..2 : g[i] = IF i = 0 THEN s ELSE FormatItem(g[i - 1], fmt[i])
    <3> SUFFICES ASSUME NEW i \in 0..2
                 PROVE  g[i] = IF i = 0 THEN s ELSE FormatItem(g[i - 1], fmt[i])
      OBVIOUS
    <3>1. g[0] = s /\ g[1] = one /\ g[2] = two
      OBVIOUS
    <3>2. CASE i = 0
      BY <3>1, <3>2
    <3>3. CASE i = 1
      <4>1. i - 1 = 0 /\ g[i] = g[1] /\ fmt[i] = x
        BY <3>3
      <4> HIDE DEF fmt, g
      <4> QED
        BY <3>1, <3>3, <4>1
    <3>4. CASE i = 2
      <4>1. i - 1 = 1 /\ g[i] = g[2] /\ fmt[i] = y
        BY <3>4
      <4> HIDE DEF fmt, g, one
      <4> QED
        BY <3>1, <3>4, <4>1
    <3> QED
      BY <3>2, <3>3, <3>4
  <2>2. g = [i \in 0..2 |-> g[i]]
    OBVIOUS
  <2> HIDE DEF g
  <2>3. Turns(g)
    <3> HIDE DEF fmt
    <3> QED
      BY <1>2, <2>1, <2>2
  <2> HIDE DEF Turns
  <2> QED
    BY <2>3
<1> HIDE DEF st
<1>4. st[0] = s /\ st[1] = FormatItem(st[0], fmt[1]) /\ st[2] = FormatItem(st[1], fmt[2])
  <2> HIDE DEF fmt
  <2>1. \A i \in 0..2 : st[i] = IF i = 0 THEN s ELSE FormatItem(st[i - 1], fmt[i])
    BY <1>2, <1>3
  <2>2. st[1] = FormatItem(st[1 - 1], fmt[1]) /\ st[2] = FormatItem(st[2 - 1], fmt[2])
    BY <2>1
  <2>3. st[0] = s
    BY <2>1
  <2> QED
    BY <2>2, <2>3
<1>5. st[2] = two
  BY <1>2, <1>4
<1> HIDE DEF fmt, Turns
<1>6. Says(one, t \o x.text)
  BY ItemSays DEF Fine
<1> HIDE DEF one
<1>7. Says(two, (t \o x.text) \o y.text)
  BY <1>6, ItemSays
<1> HIDE DEF two
<1>8. Fine(Put(two, two.len, <<Nul>>), (t \o x.text) \o y.text)
  BY <1>7, ClosedFine
<1> QED
  BY <1>1, <1>2, <1>5, <1>8 DEF fmt

-----------------------------------------------------------------------------
(* The invariant.                                                          *)

SdsInv == Fine(str, want)

\* The texts of the calls are sequences of characters.
LEMMA InTexts ==
    ASSUME NEW n \in Nat, NEW t \in Texts(n)
    PROVE  t \in Seq(Char)
<1>1. PICK i \in 0..n : t \in [1..i -> Char]
  BY DEF Texts
<1> QED
  BY <1>1

\* Every call keeps the string and the text asked for together.
LEMMA SdsStep == SdsInv /\ [SdsNext]_sdsVars => SdsInv'
<1> SUFFICES ASSUME Fine(str, want), [SdsNext]_sdsVars PROVE Fine(str', want')
  BY DEF SdsInv
<1>1. ASSUME NEW s, NEW t, Gives(s, t), Fine(s, t) PROVE Fine(str', want')
  BY <1>1 DEF Gives
<1>2. Says(str, want) /\ want \in Seq(Char) /\ str.len \in Nat /\ MaxText \in Nat
  BY SaysMore, PreallocAssumption DEF Fine
<1>3. ASSUME NEW t \in Texts(2), Gives(sdscatlen(str, t), want \o t) PROVE Fine(str', want')
  BY <1>1, <1>3, InTexts, CatFine
<1>4. ASSUME NEW t \in Texts(2), Gives(sdscpylen(str, t), t) PROVE Fine(str', want')
  BY <1>1, <1>4, InTexts, CpyFine
<1>5. CASE Gives(sdscpylen(str, Zeros(MaxText)), Zeros(MaxText))
  BY <1>1, <1>2, <1>5, ZerosType, CpyFine
<1>6. ASSUME NEW n \in 0..MaxText,
             Gives(sdsgrowzero(str, n), want \o Zeros(IF n > Len(want) THEN n - Len(want) ELSE 0))
      PROVE  Fine(str', want')
  BY <1>1, <1>2, <1>6, GrowFine
<1>7. CASE Gives(sdsclear(str), <<>>)
  BY <1>1, <1>7, ClearFine
<1>8. CASE Gives(sdsRemoveFreeSpace(str), want)
  BY <1>1, <1>8, ShrunkFine
<1>9. CASE Gives(sdsnewlen(Text(str)), want)
  BY <1>1, <1>2, <1>9, TextRight, NewFine
<1>10. ASSUME NEW n \in 1..2, Gives(sdsMakeRoomFor(str, n), want) PROVE Fine(str', want')
  BY <1>1, <1>10, RoomFine
<1>11. ASSUME NEW t \in Texts(2), Len(t) <= str.free,
              Gives(sdsIncrLen(Put(str, str.len, t), Len(t)), want \o t)
       PROVE  Fine(str', want')
  BY <1>1, <1>11, InTexts, ReadFine
<1>12. ASSUME NEW n \in 1..str.len, Gives(sdsIncrLen(str, -n), SubSeq(want, 1, Len(want) - n))
       PROVE  Fine(str', want')
  BY <1>1, <1>12, CutFine
<1>13. ASSUME NEW i \in 1..str.len, \A j \in 1..i - 1 : want[j] # Nul,
              Gives(sdsupdatelen(Put(str, i - 1, <<Nul>>)), SubSeq(want, 1, i - 1))
       PROVE  Fine(str', want')
  BY <1>1, <1>13, UpdateFine
<1>14. ASSUME NEW c \in Char, Gives(sdstrim(str, {c}), Trimmed(want, {c})) PROVE Fine(str', want')
  BY <1>1, <1>14, TrimFine
<1>15. ASSUME NEW from \in -3..3, NEW to \in -3..3,
              Gives(sdsrange(str, from, to), Between(want, from, to))
       PROVE  Fine(str', want')
  BY <1>1, <1>15, RangeFine
<1>16. ASSUME NEW c \in Char, NEW e \in Char,
              Gives(sdsmapchars(str, c, e), [i \in DOMAIN want |-> IF want[i] = c THEN e ELSE want[i]])
       PROVE  Fine(str', want')
  BY <1>1, <1>16, MapFine
<1>17. ASSUME NEW c \in Char, NEW t \in Texts(2),
              Gives(sdscatfmt(str, <<Lit(c), Ins(t)>>), Append(want, c) \o t)
       PROVE  Fine(str', want')
  <2> DEFINE x == Lit(c)
             y == Ins(t)
  <2>1. t \in Seq(Char)
    BY InTexts
  <2>2. Item(x) /\ x.text = <<c>>
    BY DEF Lit, Item
  <2>3. Item(y) /\ y.text = t
    BY <2>1 DEF Ins, Item
  <2> HIDE DEF x, y
  <2>4. Fine(sdscatfmt(str, <<x, y>>), (want \o x.text) \o y.text)
    BY <2>2, <2>3, FormatFine
  <2>5. want \o <<c>> = Append(want, c)
    BY <1>2
  <2> QED
    BY <1>1, <1>17, <2>2, <2>3, <2>4, <2>5 DEF x, y
<1>18. CASE UNCHANGED sdsVars
  BY <1>18 DEF sdsVars
<1> QED
  BY <1>3, <1>4, <1>5, <1>6, <1>7, <1>8, <1>9, <1>10, <1>11, <1>12, <1>13, <1>14, <1>15, <1>16, <1>17,
     <1>18 DEF SdsNext

\* The invariant states the property.
LEMMA SdsGives == SdsInv => SdsText
<1> SUFFICES ASSUME Fine(str, want) PROVE SdsText
  BY DEF SdsInv
<1>1. Says(str, want)
  BY DEF Fine
<1>2. /\ str.cells \in Seq(Char \cup {Junk}) /\ str.len \in Nat /\ str.free \in Nat
      /\ Total(str) + 1 = Len(str.cells) /\ str.cells[str.len + 1] = Nul
  BY <1>1, SaysMore DEF Cells, Fine
<1>3. str.inside
  BY <1>1 DEF Says, Sound
<1>4. Text(str) = want
  BY <1>1, TextRight
<1> QED
  BY <1>2, <1>3, <1>4 DEF SdsText, SdsTypeOK

\* After any calls, for any bytes, sizes and growth, the text is what the calls should have made it, with a
\* NUL behind it; the header describes the allocation, and no call has written
\* outside of it (sds.c:46-330, 525-600).
THEOREM SdsTextCorrect == SdsSpec => []SdsText
<1>1. SdsInit => SdsInv
  <2> SUFFICES ASSUME NEW t \in Texts(1), str = sdsnewlen(t), want = t PROVE Fine(str, want)
    BY DEF SdsInit, SdsInv
  <2>1. t \in Seq(Char)
    BY InTexts
  <2> QED
    BY <2>1, NewFine
<1> QED
  BY <1>1, SdsStep, SdsGives, PTL DEF SdsSpec

=============================================================================
