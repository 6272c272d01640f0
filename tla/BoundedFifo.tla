---------------------------- MODULE BoundedFifo ----------------------------
(***************************************************************************)
(* What a byte buffer of fixed capacity promises: the bytes come out in    *)
(* the order they went in, a request that cannot be met changes nothing,   *)
(* and an empty buffer takes anything that fits its capacity.              *)
(***************************************************************************)
EXTENDS Integers, Sequences

CONSTANTS Byte, Capacity

VARIABLES
    queue,      \* the bytes put and not yet taken
    target,     \* the bytes handed out by the last call that got any
    call        \* the last call: what it was, asked for, and returned

fvars == <<queue, target, call>>

Call(op, asked, returned) == [op |-> op, asked |-> asked, returned |-> returned]

Init == queue = <<>> /\ target = <<>> /\ call = Call("create", 0, 0)

Put(data) ==
    /\ Len(queue) + Len(data) <= Capacity
    /\ queue' = queue \o data
    /\ call' = Call("write", Len(data), Len(data))
    /\ UNCHANGED target

RefusePut(data) ==
    /\ queue # <<>> \/ Len(data) > Capacity
    /\ call' = Call("write", Len(data), -1)
    /\ UNCHANGED <<queue, target>>

Get(n) ==
    /\ n <= Len(queue)
    /\ target' = SubSeq(queue, 1, n)
    /\ queue' = SubSeq(queue, n + 1, Len(queue))
    /\ call' = Call("read", n, n)

RefuseGet(n) ==
    /\ n > Len(queue)
    /\ call' = Call("read", n, -1)
    /\ UNCHANGED <<queue, target>>

Clear == queue' = <<>> /\ call' = Call("clear", 0, 0) /\ UNCHANGED target

\* Requests of any length up to one that no buffer can meet.
Requests == 0..Capacity + 1

Next == \/ \E n \in Requests : \E data \in [1..n -> Byte] : Put(data) \/ RefusePut(data)
        \/ \E n \in Requests : Get(n) \/ RefuseGet(n)
        \/ Clear

Spec == Init /\ [][Next]_fvars
=============================================================================
