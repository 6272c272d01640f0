----------------------------- MODULE PipeFrames -----------------------------
(***************************************************************************)
(* The frames that the master and a worker exchange over their socketpair  *)
(* (struct aePipeData), in either direction.                               *)
(*                                                                         *)
(* Bytes are abstracted to units: a header is HdrLen units and a message   *)
(* body BodyLen units, each unit knowing the frame and the place in it     *)
(* that it came from.                                                      *)
(***************************************************************************)
EXTENDS Naturals, Sequences

CONSTANTS
    Conns,      \* client connections
    HdrLen,     \* units of a header (PIPE_DATA_HEADER_LENG)
    BodyLen,    \* units of a message body (at most PIPE_DATA_LENG)
    MaxMsgs,    \* bound: messages of one connection in one direction
    None        \* no frame, no thread

ASSUME SizesAssumption ==
    HdrLen \in Nat \ {0} /\ BodyLen \in Nat \ {0} /\ MaxMsgs \in Nat

\* enum PipeEventType
Frame == [conn : Conns, type : {"connect", "message", "close"}, num : 0..MaxMsgs]

ASSUME NoneAssumption == None \notin Frame

\* Mistake: every frame is as long as the whole struct, and one byte more.
FrameLenOfStruct(f) == HdrLen + BodyLen + 1

\* aePipeData: a header, and data when the frame is a message.
FrameLen(f) == IF f.type = "message" THEN HdrLen + BodyLen ELSE HdrLen

Unit == [frame : Frame \cup {None}, pos : 0..HdrLen + BodyLen]

Units(f) == [i \in 1..FrameLen(f) |-> [frame |-> f, pos |-> i]]

\* A byte that was never written by anyone: what a read of freed memory yields.
Junk == [frame |-> None, pos |-> 0]

Least(a, b) == IF a < b THEN a ELSE b
Take(s, n) == SubSeq(s, 1, n)
Drop(s, n) == SubSeq(s, n + 1, Len(s))

\* The frame whose header the units h are, or None.
HeaderOf(h) ==
    IF /\ Len(h) = HdrLen
       /\ h[1].frame # None
       /\ \A i \in 1..HdrLen : h[i] = [frame |-> h[1].frame, pos |-> i]
    THEN h[1].frame ELSE None
=============================================================================
