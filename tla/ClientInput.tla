----------------------------- MODULE ClientInput -----------------------------
(***************************************************************************)
(* What the server makes of the bytes of one client: onClientReadable      *)
(* appends what a read() returns to recv_buffer, parseRequestMessage       *)
(* chooses the protocol and posts complete messages to the worker, or asks *)
(* for more, and a message's bytes are trimmed from the buffer.            *)
(*                                                                         *)
(* The client says one of the scripts: a sequence of requests, frames or   *)
(* texts.  The network cuts the bytes anywhere.                            *)
(***************************************************************************)
EXTENDS HttpRequest, WsFrame, SequencesExt

CONSTANTS
    Scripts,    \* sequences of [bytes, message]; a handshake's message is NoMessage
    Protocols,  \* "mix", "tcp": servG->protocolType
    NoMessage,
    Lost        \* a byte beyond the end of the buffer

VARIABLES
    script, protocolType,
    sent,           \* the parts of the script that the client has sent
    stream,         \* its bytes that have not been read
    recv_buffer, protoType,
    hh,             \* the header as the last parse has left it
    opened,         \* hs->state # WS_STATE_OPENING
    posted,         \* the messages posted to the worker
    answers,        \* handshakes answered
    aborted,        \* an assertion has failed
    \* The remaining variables record history; no action tests them.
    ahead,          \* a part was sent before the one before had been read
    left,           \* bytes of a message that was posted are still in recv_buffer
    cause           \* why what follows is not understood

inputVars == <<script, protocolType, sent, stream, recv_buffer, protoType, hh, opened, posted,
               answers, aborted, ahead, left, cause>>

EmptyHeader == [FirstLine(<<>>) EXCEPT !.ok = FALSE]

InputInit ==
    /\ script \in Scripts /\ protocolType \in Protocols
    /\ sent = 0 /\ stream = <<>> /\ recv_buffer = <<>> /\ protoType = TCP /\ opened = FALSE
    /\ posted = <<>> /\ answers = 0 /\ ahead = FALSE /\ left = FALSE /\ cause = {}
    /\ hh = EmptyHeader /\ aborted = FALSE

Http == script[1].bytes[2] = "T"
Handshake == script[1].message = NoMessage

\* The client sends the next part; frames follow the answer to the handshake.
Send ==
    /\ sent < Len(script)
    /\ Handshake /\ sent = 1 => answers = 1
    /\ sent' = sent + 1
    /\ stream' = stream \o script[sent'].bytes
    /\ ahead' = (ahead \/ stream # <<>> \/ recv_buffer # <<>>)
    /\ UNCHANGED <<script, protocolType, recv_buffer, protoType, hh, opened, posted, answers, aborted,
                   left, cause>>

-----------------------------------------------------------------------------
(* The protocols.  Each gives the header, the message to post, if any, and *)
(* whether receiving goes on.                                              *)

Result(h, type, messages, break) ==
    [hh |-> h, type |-> type, messages |-> messages, break |-> break, answer |-> FALSE, abort |-> FALSE]

\* n bytes from offset p on, as memcpy takes them.
Memcpy(s, p, n) == [i \in 1..n |-> IF p + i <= Len(s) THEN s[p + i] ELSE Lost]

\* httpBodyParse; the length posted for a body is that of the whole request.
BodyParse(h, s) ==
    LET complete == h.pos + h.content_length
        query == FirstOf({"?"}, h.uri, 0, Len(h.uri))
    IN CASE h.method = POST /\ h.content_length > 0 /\ Len(s) < complete -> Result(h, HTTP, <<>>, FALSE)
         [] h.method = POST /\ h.content_length > 0 /\ Len(s) >= complete ->
              Result(h, HTTP, <<Memcpy(s, h.pos, complete)>>, TRUE)
         [] h.method = GET ->
              Result(h, HTTP, <<IF query < 0 THEN <<>> ELSE SubSeq(h.uri, query + 2, Len(h.uri))>>, TRUE)
         [] OTHER -> Result(h, HTTP, <<>>, TRUE)

\* parseHandshake counts the three fields it wants.
HandshakeComplete(h) ==
    Quantify(DOMAIN h.fields, LAMBDA i : \E name \in {"key", "version", "extensions"} : Named(h.fields[i].key, name)) = 3

\* wesocketRequestRarse
WebsocketParse(h, s) ==
    LET f == wsParseInputFrame(s) IN
    IF ~opened
      THEN [Result(h, WEBSOCKET, <<>>, HandshakeComplete(h)) EXCEPT !.answer = HandshakeComplete(h)]
      ELSE [Result(h, WEBSOCKET, IF f.data = <<>> THEN <<>> ELSE <<f.data>>, f.data # <<>>) EXCEPT !.abort = f.abort]

\* Mistake: a body is not waited for.
RequestParseNow(s) ==
    LET h == httpHeaderParse(s) IN
    IF ~h.ok THEN Result(h, HTTP, <<>>, FALSE)
    ELSE IF h.protocol = WEBSOCKET THEN WebsocketParse(h, s)
    ELSE Result(h, HTTP, <<Memcpy(s, h.pos, h.content_length)>>, TRUE)

\* httpRequestParse: without the whole header there is more to receive.
httpRequestParse(s) ==
    LET h == httpHeaderParse(s) IN
    IF ~h.ok THEN Result(h, HTTP, <<>>, FALSE)
    ELSE IF h.protocol = WEBSOCKET THEN WebsocketParse(h, s)
    ELSE BodyParse(h, s)

\* parseRequestMessage
parseRequestMessage(s) ==
    IF protocolType = "tcp" THEN Result(hh, TCP, <<s>>, TRUE)
    ELSE IF protoType = WEBSOCKET THEN WebsocketParse(hh, s)
    ELSE IF isHttpProtocol(s) \/ protoType = HTTP THEN httpRequestParse(s)
    ELSE Result(hh, TCP, <<s>>, TRUE)

-----------------------------------------------------------------------------

\* A frame or handshake that is complete but not accepted stays in the buffer.
Held(s, r) == ~r.break /\ r.type = WEBSOCKET /\ (opened => wsParseInputFrame(s).type # INCOMPLETE)

\* After BREAK_RECV the buffer is trimmed by what the last read() returned.
Trim(s, n, r) == IF r.break THEN SubSeq(s, n + 1, Len(s)) ELSE s

\* The worker of a text looks at its bytes, not at how they were cut.
Joined(r) == IF r.type = TCP THEN <<FlattenSeq(posted \o r.messages)>> ELSE posted \o r.messages

\* onClientReadable: read() returns n bytes.  A loop that goes on finds more
\* bytes or EAGAIN.
ReadSome(n) ==
    LET s == recv_buffer \o SubSeq(stream, 1, n)
        r == parseRequestMessage(s)
    IN /\ ~aborted /\ n \in 1..Len(stream)
       /\ stream' = SubSeq(stream, n + 1, Len(stream))
       /\ recv_buffer' = Trim(s, n, r)
       /\ hh' = r.hh /\ protoType' = r.type
       /\ aborted' = r.abort
       /\ posted' = IF r.abort THEN posted ELSE Joined(r)
       /\ answers' = IF r.answer THEN answers + 1 ELSE answers
       /\ opened' = (opened \/ r.answer)
       /\ cause' = cause \cup (IF Http /\ protocolType = "mix" /\ r.type = TCP THEN {"cut"} ELSE {})
                         \cup (IF left THEN {"left"} ELSE {})
                         \cup (IF Held(s, r) THEN {"held"} ELSE {})
       /\ left' = (r.break /\ Trim(s, n, r) # <<>>)
       /\ UNCHANGED <<script, protocolType, sent, ahead>>

\* The client goes, and acceptCommonHandler prepares the slot for another; hh is
\* left as it is.
NextClient ==
    /\ ~aborted /\ (cause # {} \/ stream = <<>>)
    /\ script' \in Scripts
    /\ sent' = 0 /\ stream' = <<>> /\ recv_buffer' = <<>> /\ protoType' = TCP /\ opened' = FALSE
    /\ posted' = <<>> /\ answers' = 0 /\ ahead' = FALSE /\ left' = FALSE /\ cause' = {}
    /\ UNCHANGED <<protocolType, hh, aborted>>

\* A failed assertion ends the process.
Ended == aborted /\ UNCHANGED inputVars

InputNext == Send \/ (\E n \in 1..Len(stream) : ReadSome(n)) \/ NextClient \/ Ended

InputSpec == InputInit /\ [][InputNext]_inputVars

-----------------------------------------------------------------------------

\* A handshake is answered once, on a connection that is one for
\* frames from then on (http_request.c:496-560).
InputTypeOK ==
    /\ protoType \in {TCP, HTTP, WEBSOCKET} /\ sent \in 0..Len(script)
    /\ answers = (IF opened THEN 1 ELSE 0) /\ (opened => protoType = WEBSOCKET)
    /\ hh.content_length \in Nat /\ hh.ok \in BOOLEAN

\* The messages the client has sent.
Wanted == SelectSeq([i \in 1..sent |-> script[i].message], LAMBDA m : m # NoMessage)

AsText == protocolType = "tcp" \/ ~Http

SentBytes == FlattenSeq([i \in 1..sent |-> script[i].bytes])

\* When everything has been read, nothing that was sent is still waiting.
NothingMissed ==
    IF AsText THEN FlattenSeq(posted) = SentBytes
    ELSE Len(posted) = Len(Wanted) /\ (Handshake /\ sent > 0 => answers = 1)

\* However the network cuts them, requests and frames reach the worker one message
\* each, in order and whole, a body possibly with bytes after it, and text byte
\* for byte, and none is left when everything was read; but for what is read once
\* bytes of a posted message were left in the buffer (aeserver.c:306), a method was
\* cut (http_request.c:337), a frame was held (http_request.c:518) or a part was
\* sent ahead.  The message whose bytes are left is compared itself.
MessagesIntact ==
    /\ InputTypeOK
    /\ cause = {} /\ ~ahead =>
         /\ IF AsText THEN IsPrefix(FlattenSeq(posted), SentBytes)
            ELSE /\ Len(posted) <= Len(Wanted)
                 /\ \A i \in DOMAIN posted : IF hh.method = POST THEN IsPrefix(Wanted[i], posted[i])
                                              ELSE posted[i] = Wanted[i]
         /\ stream = <<>> => NothingMissed

\* A message that is complete is copied to the worker's buffer and the receive
\* buffer emptied (aeserver.c:278): of a client that sends one thing at a time.
EmptiedWhenPosted ==
    [][posted' \notin {posted, <<>>} /\ ~ahead => recv_buffer' = <<>>]_inputVars

\* The assertion on the frame's end (websocket.c:208) holds for a client that does
\* not send a frame before the last one has been read, unless bytes of the
\* handshake or of a frame were left in the buffer.
AbortsHaveCause == aborted => ahead \/ cause # {}
=============================================================================
