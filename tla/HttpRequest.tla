----------------------------- MODULE HttpRequest -----------------------------
(***************************************************************************)
(* The parser of a request's first line and header fields, over the bytes  *)
(* received so far.  Names and words that the parser does not look into    *)
(* are single symbols; a method is two, so that it can arrive in parts.    *)
(* Positions are offsets from the beginning of the buffer, as in C.        *)
(***************************************************************************)
EXTENDS Integers, Sequences, SequencesExt

CONSTANT Number     \* the numbers that symbols of a Content-Length stand for

Eol == {"cr", "lf", "sp"}
HeaderEnd == <<"cr", "lf", "cr", "lf">>
TCP == 0
HTTP == 1
WEBSOCKET == 2

\* findEolChar and findChar: the offset of the first symbol of S among n from p.
FirstOf(S, s, p, n) ==
    LET at == {q \in p..p + n - 1 : q < Len(s) /\ s[q + 1] \in S} IN IF at = {} THEN -1 ELSE Min(at)

getLeftEolLength(s, p) == Min({q \in p..Len(s) : q = Len(s) \/ s[q + 1] \notin Eol}) - p

\* bufferReadln: where the next line begins and how long it is, 0 at the end of
\* the headers and -1 if it has not arrived.
bufferReadln(s, p) ==
    LET eol == getLeftEolLength(s, p)
        end == FirstOf({"cr", "lf"}, s, p + eol, Len(s) - p - eol)
    IN IF eol >= Len(HeaderEnd) /\ IsPrefix(HeaderEnd, SubSeq(s, p + 1, Len(s)))
         THEN [pos |-> p, offset |-> 0]
         ELSE [pos |-> p + eol, offset |-> IF end > p + eol THEN end - p - eol ELSE -1]

\* parseFirstLine, of a buffer that begins with the method.
FirstLine(s) ==
    LET l == bufferReadln(s, 0)
        sp1 == FirstOf({"sp"}, s, 0, l.offset)
        sp2 == FirstOf({"sp"}, s, sp1 + 1, l.offset)
    IN [ok |-> l.offset >= 0 /\ sp1 >= 0 /\ sp2 >= 0, pos |-> l.pos + l.offset,
        method |-> SubSeq(s, 1, sp1), uri |-> SubSeq(s, sp1 + 2, sp2),
        fields |-> <<>>, content_length |-> 0, protocol |-> TCP]

\* memcmp( name , literal , length of name ): the name is a prefix of the literal.
Named(key, literal) == key \in {<<>>, <<literal>>}

\* readingSingleLine: a line without a colon replaces the last field's value.
ReadField(h, s, p, len) ==
    LET colon == FirstOf({"colon"}, s, p, len)
        key == SubSeq(s, p + 1, colon)
        value == SubSeq(s, colon + 2 + getLeftEolLength(s, colon + 1), p + len)
    IN IF colon < 0
         THEN [h EXCEPT !.ok = h.fields # <<>>, !.pos = p + len,
                        !.fields = IF @ = <<>> THEN @ ELSE [@ EXCEPT ![Len(@)].value = SubSeq(s, p + 1, p + len)]]
         ELSE [h EXCEPT !.pos = p + len, !.fields = Append(@, [key |-> key, value |-> value]),
                        !.content_length = IF Named(key, "length") THEN Number[value[1]] ELSE @,
                        !.protocol = IF Named(key, "upgrade") THEN WEBSOCKET ELSE @]

\* readingHeaders
RECURSIVE Headers(_, _)
Headers(h, s) ==
    LET l == bufferReadln(s, h.pos) IN
    IF ~h.ok \/ l.offset < 0 THEN [h EXCEPT !.ok = FALSE]
    ELSE IF l.offset = 0 THEN [h EXCEPT !.pos = @ + Len(HeaderEnd)]
    ELSE Headers(ReadField(h, s, l.pos, l.offset), s)

\* httpHeaderParse, of a header that was set to zero.
httpHeaderParse(s) == IF FirstLine(s).ok THEN Headers(FirstLine(s), s) ELSE FirstLine(s)

GET == <<"G", "T">>
POST == <<"P", "T">>

isHttpProtocol(s) == IsPrefix(GET, s) \/ IsPrefix(POST, s)
==============================================================================
