---------------------------- MODULE MCWorkerPipe ----------------------------
(* Instances of WorkerPipe for TLC: the owner of each connection, and the  *)
(* bound of the run with messages.                                         *)
EXTENDS WorkerPipe, TLC

CONSTANTS c1, c2, r1, r2

\* Two connections owned by different reactors.
OwnerSplit == (c1 :> r1) @@ (c2 :> r2)

\* A behaviour is followed until two sds calls overlap, and beyond that when no
\* client has sent anything.
UpToOverlap == ~raced \/ \A c \in Conns : received[c] = 0
=============================================================================
