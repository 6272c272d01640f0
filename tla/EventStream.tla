---------------------------- MODULE EventStream ----------------------------
(***************************************************************************)
(* What the master promises a worker: the connection events it posts reach *)
(* the worker's callbacks once each, whole and in the order of the posts.  *)
(***************************************************************************)
EXTENDS Naturals, Sequences

CONSTANT Frames   \* the events that can be posted

VARIABLES
    posted,       \* events posted so far, in order
    got           \* events passed to the worker's callbacks, in order

svars == <<posted, got>>

Init == posted = <<>> /\ got = <<>>

Post == /\ \E f \in Frames : posted' = Append(posted, f)
        /\ UNCHANGED got

Deliver == /\ Len(got) < Len(posted)
           /\ got' = Append(got, posted[Len(got) + 1])
           /\ UNCHANGED posted

Next == Post \/ Deliver

Spec == Init /\ [][Next]_svars /\ WF_svars(Deliver)
=============================================================================
