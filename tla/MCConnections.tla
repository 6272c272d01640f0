--------------------------- MODULE MCConnections ---------------------------
(***************************************************************************)
(* Instances of ReplyPipe and of ConnTable.  A behaviour drives one of     *)
(* them, its subject; the variables of the other stay as they are created. *)
(***************************************************************************)
EXTENDS ReplyPipe, ConnTable, TLC

CONSTANTS
    Subjects,       \* the modules to be driven
    MaxWaiting,     \* bound: the messages of the table's clients in the two pipes
    c1, c2, r1, r2

VARIABLE subject

\* Two connections owned by different reactors.
OwnerSplit == (c1 :> r1) @@ (c2 :> r2)

ConnInit == subject \in Subjects /\ Init /\ TableInit

\* The replies are followed until the handlers of two reactors overlap, and beyond
\* that when no connection has been sent more than one reply; the table is followed
\* beyond two handlers in one connection until a second client comes.
ConnNext ==
    /\ \/ /\ subject = "replies" /\ (~overlap \/ \A c \in Conns : sent[c] <= 1)
          /\ Next /\ UNCHANGED tableVars
       \/ /\ subject = "table" /\ ("overlap" \notin risk \/ peers.new # {})
          /\ TableNext /\ UNCHANGED vars
          /\ Len(toWorker') + Len(toMaster') <= MaxWaiting
    /\ UNCHANGED subject

ConnSpec == ConnInit /\ [][ConnNext]_<<subject, vars, tableVars>>
=============================================================================
