------------------------------ MODULE SdsArgs -------------------------------
(***************************************************************************)
(* sds.c: splitting and joining texts, and the quoting of sdscatrepr that  *)
(* sdssplitargs undoes.  A caller writes a line argument by argument and   *)
(* parses it.                                                              *)
(***************************************************************************)
EXTENDS Integers, SequencesExt

CONSTANTS
    Unbalanced, \* NULL, the answer to a line with a quote that does not end
    MaxArgs,    \* bound: the most arguments of a line
    MaxBytes    \* bound: the most bytes of its arguments together

\* The bytes that the parser tells apart: letters that mean something behind a
\* backslash or as a hexadecimal digit, the quotes, blanks, and two bytes that
\* are written in hexadecimal.
Bytes == {"n", "x", "0", "1", "backslash", "quote", "single", "space", "newline", "nul", "ctl"}

\* isspace, and the digits of the bytes written in hexadecimal.
Blanks == {"space", "newline"}
Hex == {"0", "1"}
HexByte(h, l) == IF h = "0" /\ l = "0" THEN "nul" ELSE IF h = "0" /\ l = "1" THEN "ctl" ELSE "other"

VARIABLES
    line,   \* what has been written
    args    \* history: the arguments it should be split into, or Unbalanced

argVars == <<line, args>>

-----------------------------------------------------------------------------
(* sdscatrepr                                                              *)

\* Mistake: a backslash is written as it is.
EscapedBare(c) ==
    CASE c = "quote" -> <<"backslash", "quote">>
      [] c = "newline" -> <<"backslash", "n">>
      [] c = "nul" -> <<"backslash", "x", "0", "0">>
      [] c = "ctl" -> <<"backslash", "x", "0", "1">>
      [] OTHER -> <<c>>

\* How one byte is written.
Escaped(c) ==
    CASE c = "backslash" -> <<"backslash", "backslash">>
      [] c = "quote" -> <<"backslash", "quote">>
      [] c = "newline" -> <<"backslash", "n">>
      [] c = "nul" -> <<"backslash", "x", "0", "0">>
      [] c = "ctl" -> <<"backslash", "x", "0", "1">>
      [] OTHER -> <<c>>

sdscatrepr(s, t) ==
    s \o <<"quote">> \o FoldLeft(LAMBDA acc, c : acc \o Escaped(c), <<>>, t) \o <<"quote">>

-----------------------------------------------------------------------------
(* sdssplitargs: one turn of its loops.  mode: between arguments, inside a *)
(* bare one, inside quotes, at the end, or in error.                       *)

At(s, p) == IF p \in DOMAIN s THEN s[p] ELSE "end"

Take1(st, c, n) == [st EXCEPT !.current = Append(@, c), !.p = @ + n]
EndArg(st, n) == [st EXCEPT !.vector = Append(@, st.current), !.current = <<>>, !.mode = "blank",
                            !.p = @ + n]
Fail(st) == [st EXCEPT !.mode = "error"]

\* A closing quote is followed by a blank or nothing.
CloseQuote(s, st) == IF At(s, st.p + 1) \in Blanks \cup {"end"} THEN EndArg(st, 1) ELSE Fail(st)

Unescaped(c) == IF c = "n" THEN "newline" ELSE c

InQuotes(s, st) ==
    LET c == At(s, st.p)
        d(i) == At(s, st.p + i)
    IN CASE c = "backslash" /\ d(1) = "x" /\ d(2) \in Hex /\ d(3) \in Hex ->
              Take1(st, HexByte(d(2), d(3)), 4)
         [] c = "backslash" /\ ~(d(1) = "x" /\ d(2) \in Hex /\ d(3) \in Hex) /\ d(1) # "end" ->
              Take1(st, Unescaped(d(1)), 2)
         [] c = "quote" -> CloseQuote(s, st)
         [] c = "end" -> Fail(st)
         [] OTHER -> Take1(st, c, 1)

InSingle(s, st) ==
    LET c == At(s, st.p) IN
    CASE c = "backslash" /\ At(s, st.p + 1) = "single" -> Take1(st, "single", 2)
      [] c = "single" -> CloseQuote(s, st)
      [] c = "end" -> Fail(st)
      [] OTHER -> Take1(st, c, 1)

InBare(s, st) ==
    LET c == At(s, st.p) IN
    CASE c \in Blanks -> EndArg(st, 1)
      [] c = "end" -> EndArg(st, 0)
      [] c = "quote" -> [st EXCEPT !.mode = "quotes", !.p = @ + 1]
      [] c = "single" -> [st EXCEPT !.mode = "single", !.p = @ + 1]
      [] OTHER -> Take1(st, c, 1)

SplitStep(s, st) ==
    CASE st.mode = "blank" -> IF At(s, st.p) \in Blanks THEN [st EXCEPT !.p = @ + 1]
                              ELSE [st EXCEPT !.mode = IF At(s, st.p) = "end" THEN "stop" ELSE "bare"]
      [] st.mode = "bare" -> InBare(s, st)
      [] st.mode = "quotes" -> InQuotes(s, st)
      [] st.mode = "single" -> InSingle(s, st)
      [] OTHER -> st

\* Every turn moves on or changes the mode, two changes at most for a byte.
sdssplitargs(s) ==
    LET start == [mode |-> "blank", p |-> 1, current |-> <<>>, vector |-> <<>>]
        end == FoldLeft(LAMBDA st, i : SplitStep(s, st), start, [i \in 1..2 * Len(s) + 2 |-> i])
    IN IF end.mode = "stop" THEN end.vector ELSE Unbalanced

-----------------------------------------------------------------------------
(* sdssplitlen and sdsjoin                                                 *)

\* The loop's body at j: a separator ends a token and is jumped over.
TokenStep(s, sep, st, j) ==
    IF j >= st.next /\ SubSeq(s, j + 1, j + Len(sep)) = sep
      THEN [tokens |-> Append(st.tokens, SubSeq(s, st.start + 1, j)),
            start |-> j + Len(sep), next |-> j + Len(sep)]
      ELSE st

sdssplitlen(s, sep) ==
    LET places == [i \in 1..Len(s) - (Len(sep) - 1) |-> i - 1]
        st == FoldLeft(LAMBDA acc, j : TokenStep(s, sep, acc, j),
                       [tokens |-> <<>>, start |-> 0, next |-> 0], places)
    IN IF s = <<>> THEN <<>> ELSE Append(st.tokens, SubSeq(s, st.start + 1, Len(s)))

\* What strlen and so sdscat see of a text: nothing from its first NUL on.
CString(t) == SubSeq(t, 1, SelectInSeq(Append(t, "nul"), LAMBDA c : c = "nul") - 1)

sdsjoin(argv, sep) ==
    LET add(s, j) == s \o CString(argv[j]) \o (IF j # Len(argv) THEN CString(sep) ELSE <<>>)
    IN FoldLeft(add, <<>>, [j \in 1..Len(argv) |-> j])

-----------------------------------------------------------------------------

\* What the arguments of the line leave for one more.
ArgTexts == UNION {[1..n -> Bytes] : n \in 0..MaxBytes - Len(FlattenSeq(args))}

ArgsInit == line = <<>> /\ args = <<>>

\* Between two arguments.
Ready == args # Unbalanced /\ Len(args) < MaxArgs /\ At(line, Len(line)) \in Blanks \cup {"end"}

\* The caller writes an argument in one of the three forms.  Only the bytes
\* that a form can write are written in it.
WriteQuoted(t) == line' = sdscatrepr(line, t) /\ args' = Append(args, t)
WriteSingle(t) ==
    /\ ~Contains(t, "backslash") /\ ~Contains(t, "nul")
    /\ line' = line \o <<"single">>
               \o FoldLeft(LAMBDA s, c : IF c = "single" THEN s \o <<"backslash", c>> ELSE Append(s, c),
                           <<>>, t) \o <<"single">>
    /\ args' = Append(args, t)
WriteBare(t) ==
    /\ t # <<>> /\ ToSet(t) \subseteq {"n", "x", "0", "1", "backslash", "ctl"}
    /\ line' = line \o t /\ args' = Append(args, t)
WriteBlank(c) ==
    /\ c \in Blanks /\ At(line, Len(line)) \notin Blanks
    /\ line' = Append(line, c) /\ UNCHANGED args

\* A quote that does not end, or something behind a quote.
Garble ==
    /\ args # Unbalanced
    /\ \/ Ready /\ \E q \in {"quote", "single"} : line' = line \o <<q, "n">>
       \/ At(line, Len(line)) \in {"quote", "single"} /\ line' = Append(line, "n")
    /\ args' = Unbalanced

NewLine == line' = <<>> /\ args' = <<>>

ArgsNext == \/ Ready /\ \E t \in ArgTexts : WriteQuoted(t) \/ WriteSingle(t) \/ WriteBare(t)
            \/ args # Unbalanced /\ \E c \in Blanks : WriteBlank(c)
            \/ Garble
            \/ NewLine

ArgsSpec == ArgsInit /\ [][ArgsNext]_argVars

-----------------------------------------------------------------------------

\* Splitting at a separator and joining again gives the text back, whatever the
\* separator, and no token contains it; where no text contains the separator's
\* first byte, joined texts are split where they were joined, each up to its first
\* NUL, for they are C strings to sdsjoin (sds.c:664-680, 952-963).
SplitUndoesJoin ==
    \A sep \in {<<"n">>, <<"0", "0">>} :
      LET tokens == sdssplitlen(line, sep)
          joined == sdsjoin(args, sep)
      IN /\ sdsjoin(tokens, sep) = line
         /\ \A i \in DOMAIN tokens : \A j \in 1..Len(tokens[i]) - Len(sep) + 1 :
              SubSeq(tokens[i], j, j + Len(sep) - 1) # sep
         /\ args # Unbalanced =>
              \/ joined = <<>>
              \/ \E i \in DOMAIN args : Contains(args[i], sep[1])
              \/ sdssplitlen(joined, sep) = [i \in DOMAIN args |-> CString(args[i])]

\* sdssplitargs reads back what sdscatrepr has written, and what was written
\* bare or in single quotes; unbalanced quotes give NULL (sds.c:807-818); and so
\* do sdssplitlen and sdsjoin with each other.
ArgsReadBack == sdssplitargs(line) = args /\ SplitUndoesJoin
=============================================================================
