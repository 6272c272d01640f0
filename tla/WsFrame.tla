------------------------------- MODULE WsFrame -------------------------------
(***************************************************************************)
(* A client's websocket frame: a byte with the opcode, one with the length *)
(* of the payload, or with 126 and a field for the length, the masking key *)
(* and the payload.  The key and the field are single symbols.             *)
(***************************************************************************)
EXTENDS Integers, Sequences

CONSTANTS
    Opcodes,    \* the first bytes of frames that are supported
    Length,     \* the length that the second byte or the field stands for
    Extended,   \* the second byte that has 126 for the length
    Masked      \* what a byte becomes under the masking key, and the other way

INCOMPLETE == "incomplete"
ERROR == "error"
Nothing == [type |-> INCOMPLETE, data |-> <<>>, abort |-> FALSE]

\* getPayloadLength: the field's length and the payload's, 0 if the field has not
\* arrived.
ExtraBytes(s) == IF s[2] = Extended /\ Len(s) >= 3 THEN 1 ELSE 0
getPayloadLength(s) ==
    IF s[2] # Extended THEN Length[s[2]] ELSE IF Len(s) < 3 THEN 0 ELSE Length[s[3]]

\* Mistake: the rest of a frame is not waited for.
FrameNotAwaited(s) ==
    IF Len(s) < 2 THEN Nothing
    ELSE [type |-> INCOMPLETE, data |-> <<>>, abort |-> getPayloadLength(s) # Len(s) - 3 - ExtraBytes(s)]

\* wsParseInputFrame, with the assertion that the buffer ends with the payload.
\* "abort" says that it fails.
wsParseInputFrame(s) ==
    IF Len(s) < 2 THEN Nothing
    ELSE IF s[1] \notin Opcodes \/ s[2] \notin DOMAIN Length \cup {Extended}
      THEN [Nothing EXCEPT !.type = ERROR]
    ELSE LET before == 3 + ExtraBytes(s)
             n == getPayloadLength(s)
         IN IF n = 0 THEN [Nothing EXCEPT !.type = IF s[2] = Extended THEN INCOMPLETE ELSE s[1]]
            ELSE IF n + before > Len(s) THEN Nothing
            ELSE [type |-> s[1], abort |-> n # Len(s) - before,
                  data |-> [i \in 1..n |-> Masked[s[before + i]]]]
==============================================================================
