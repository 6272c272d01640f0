----------------------------- MODULE RingBuffer -----------------------------
(***************************************************************************)
(* ring_buffer.c: a byte buffer with a start and an end index.  Data is    *)
(* never moved: a write needs its space behind the end index, and the      *)
(* indices return to 0 only when the buffer is empty.  The server links    *)
(* the buffer but has no caller for it; requests are not negative here.    *)
(***************************************************************************)
EXTENDS Integers, Sequences

CONSTANTS
    Byte,       \* the values of a byte
    Zero,       \* what calloc leaves in a byte
    Capacity    \* the length given to ringBuffer_create

ASSUME ByteAssumption == Zero \in Byte
ASSUME CapacityAssumption == Capacity \in Nat

VARIABLES
    cells,      \* buffer->buffer
    start,      \* buffer->start
    end,        \* buffer->end
    target,     \* the bytes the last successful ringBuffer_read copied out
    call        \* the last call: what it was, asked for, and returned

vars == <<cells, start, end, target, call>>

Call(op, asked, returned) == [op |-> op, asked |-> asked, returned |-> returned]

\* buffer->length: one byte more than was asked for.
length == Capacity + 1

\* ringBuffer_create
Init ==
    /\ cells = [i \in 0..length - 1 |-> Zero]
    /\ start = 0 /\ end = 0
    /\ target = <<>> /\ call = Call("create", 0, 0)

available_data == (end % length) - start

\* Space is counted from the end index a write would start at.
SpaceFrom(e) == length - e - 1

\* memcpy(to + at, data, Len(data))
Copied(to, at, data) ==
    [i \in DOMAIN to |-> IF i \in at..at + Len(data) - 1 THEN data[i - at + 1] ELSE to[i]]

\* Mistake: the indices are not reset before the space is computed.
WriteNoReset(data) ==
    IF Len(data) <= SpaceFrom(end)
      THEN /\ cells' = Copied(cells, end, data)
           /\ end' = (end + Len(data)) % length
           /\ call' = Call("write", Len(data), Len(data))
           /\ UNCHANGED <<start, target>>
      ELSE call' = Call("write", Len(data), -1) /\ UNCHANGED <<cells, start, end, target>>

\* ringBuffer_write: an empty buffer starts over, even if the data is then
\* refused.
Write(data) ==
    LET empty == available_data = 0
        e == IF empty THEN 0 ELSE end
    IN /\ start' = IF empty THEN 0 ELSE start
       /\ IF Len(data) <= SpaceFrom(e)
            THEN /\ cells' = Copied(cells, e, data)
                 /\ end' = (e + Len(data)) % length
                 /\ call' = Call("write", Len(data), Len(data))
            ELSE /\ end' = e
                 /\ call' = Call("write", Len(data), -1)
                 /\ UNCHANGED cells
       /\ UNCHANGED target

\* Mistake: one byte more than the buffer holds may be asked for.
ReadOneTooMany(amount) ==
    IF amount <= available_data + 1 /\ start + amount <= length
      THEN LET s == (start + amount) % length
           IN /\ target' = [i \in 1..amount |-> cells[start + i - 1]]
              /\ call' = Call("read", amount, amount)
              /\ start' = IF end = s THEN 0 ELSE s
              /\ end' = IF end = s THEN 0 ELSE end
              /\ UNCHANGED cells
      ELSE call' = Call("read", amount, -1) /\ UNCHANGED <<cells, start, end, target>>

\* ringBuffer_read
Read(amount) ==
    IF amount <= available_data
      THEN LET s == (start + amount) % length
           IN /\ target' = [i \in 1..amount |-> cells[start + i - 1]]
              /\ call' = Call("read", amount, amount)
              /\ start' = IF end = s THEN 0 ELSE s
              /\ end' = IF end = s THEN 0 ELSE end
              /\ UNCHANGED cells
      ELSE call' = Call("read", amount, -1) /\ UNCHANGED <<cells, start, end, target>>

\* ringBuffer_clear: a commit of everything that is there.
Clear ==
    /\ start' = (start + available_data) % length
    /\ call' = Call("clear", 0, 0)
    /\ UNCHANGED <<cells, end, target>>

\* Requests longer than the buffer are tried as well.
Requests == 0..Capacity + 1

Next == \/ \E n \in Requests : \E data \in [1..n -> Byte] : Write(data)
        \/ \E n \in Requests : Read(n)
        \/ Clear

Spec == Init /\ [][Next]_vars

-----------------------------------------------------------------------------

\* The indices never cross and stay inside the allocation, so that the modulo
\* operations of ring_buffer.h:32-55 never wrap anything.
TypeOK ==
    /\ cells \in [0..length - 1 -> Byte]
    /\ start \in 0..length - 1 /\ end \in start..length - 1
    /\ target \in Seq(Byte)
    /\ call \in [op : {"create", "write", "read", "clear"}, asked : Nat, returned : Int]

\* The bytes between the indices.
Contents == [i \in 1..end - start |-> cells[start + i - 1]]

Fifo == INSTANCE BoundedFifo WITH queue <- Contents

\* The buffer hands out the bytes it was given, in order and once each, never
\* overwrites a byte that is still to be read, leaves everything as it was when
\* it refuses, and when empty refuses nothing that fits its capacity
\* (ring_buffer.c:69-107).
FifoSpec == Fifo!Spec
=============================================================================
