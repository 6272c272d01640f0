-------------------------------- MODULE Sds ---------------------------------
(***************************************************************************)
(* sds.c: a string with a header (len, free) in front of its bytes and a   *)
(* NUL behind them.  Every call computes where it writes from the header,  *)
(* and nothing checks that the header fits the allocation.  Here the       *)
(* allocation is kept cell by cell and every write is checked against it.  *)
(***************************************************************************)
EXTENDS Integers, SequencesExt

CONSTANTS
    Char,           \* the values of a byte
    Nul,            \* '\0'
    Junk,           \* what the allocator leaves in a byte
    MaxPrealloc,    \* SDS_MAX_PREALLOC
    MaxText         \* bound: the longest text

ASSUME CharAssumption == Nul \in Char /\ Junk \notin Char
ASSUME PreallocAssumption == MaxPrealloc \in Nat /\ MaxText \in Nat

VARIABLES
    str,    \* the string: cells, len, free; inside: no write missed the cells
    want    \* history: the text the calls should have produced

sdsVars == <<str, want>>

-----------------------------------------------------------------------------
(* The allocation.                                                         *)

Reallocated(s, n) ==
    [s EXCEPT !.cells = [i \in 1..n |-> IF i <= Len(s.cells) THEN s.cells[i] ELSE Junk]]

\* memcpy(s + at, t, Len(t))
Put(s, at, t) ==
    [s EXCEPT !.cells = [i \in DOMAIN @ |-> IF i \in at + 1..at + Len(t) THEN t[i - at] ELSE @[i]],
              !.inside = @ /\ at + Len(t) <= Len(s.cells)]

\* t is written at an offset, with a NUL behind it that ends the text; total is
\* what len and free share from now on.
Ends(s, at, t, total) ==
    [Put(s, at, Append(t, Nul)) EXCEPT !.len = at + Len(t), !.free = total - at - Len(t)]

Text(s) == SubSeq(s.cells, 1, s.len)
Total(s) == s.len + s.free

-----------------------------------------------------------------------------
(* The calls as functions of the string.                                   *)

sdsnewlen(t) == [cells |-> Append(t, Nul), len |-> Len(t), free |-> 0, inside |-> TRUE]

sdsMakeRoomFor(s, addlen) ==
    IF s.free >= addlen THEN s
    ELSE LET n == s.len + addlen
             newlen == IF n < MaxPrealloc THEN n * 2 ELSE n + MaxPrealloc
         IN [Reallocated(s, newlen + 1) EXCEPT !.free = newlen - s.len]

sdsRemoveFreeSpace(s) == [Reallocated(s, s.len + 1) EXCEPT !.free = 0]

\* sdscatlen, and sdscat and sdscatsds
sdscatlen(s, t) == LET r == sdsMakeRoomFor(s, Len(t)) IN Ends(r, s.len, t, Total(r))

\* sdscpylen
sdscpylen(s, t) ==
    LET r == IF Total(s) < Len(t) THEN sdsMakeRoomFor(s, Len(t) - s.len) ELSE s
    IN Ends(r, 0, t, Total(r))

\* sdsgrowzero
sdsgrowzero(s, n) ==
    IF n <= s.len THEN s
    ELSE LET r == sdsMakeRoomFor(s, n - s.len)
         IN Ends(r, s.len, [i \in 1..n - s.len |-> Nul], Total(r))

sdsclear(s) == Ends(s, 0, <<>>, Total(s))

\* sdsIncrLen: the assertions are guards of the calls below.
sdsIncrLen(s, incr) ==
    Put([s EXCEPT !.len = @ + incr, !.free = @ - incr], s.len + incr, <<Nul>>)

\* strlen
CLength(s) == (CHOOSE i \in DOMAIN s.cells : /\ s.cells[i] = Nul
                                             /\ \A j \in 1..i - 1 : s.cells[j] # Nul) - 1

sdsupdatelen(s) == LET n == CLength(s) IN [s EXCEPT !.free = @ + (s.len - n), !.len = n]

\* strchr(cset, c) finds the NUL that ends the set as well.
InSet(c, cset) == c \in cset \cup {Nul}

\* sdstrim: the first and the last byte to keep, from 0; the last one never
\* goes below the first byte.
sdstrim(s, cset) ==
    LET inside(i) == ~InSet(s.cells[i + 1], cset)
        sp == CHOOSE i \in 0..s.len : /\ \A j \in 0..i - 1 : ~inside(j)
                                      /\ i = s.len \/ inside(i)
        ep == IF s.len = 0 THEN -1
              ELSE CHOOSE i \in 0..s.len - 1 : /\ \A j \in i + 1..s.len - 1 : ~inside(j)
                                               /\ i = 0 \/ inside(i)
        len == IF sp > ep THEN 0 ELSE ep - sp + 1
    IN Ends(s, 0, SubSeq(s.cells, sp + 1, sp + len), Total(s))

\* sdsrange
sdsrange(s, from, to) ==
    LET clamp(i) == IF i >= 0 THEN i ELSE IF s.len + i < 0 THEN 0 ELSE s.len + i
        start == clamp(from)
        end == IF clamp(to) >= s.len THEN s.len - 1 ELSE clamp(to)
        len == IF start > end THEN 0 ELSE end - start + 1
    IN IF s.len = 0 THEN s ELSE Ends(s, 0, SubSeq(s.cells, start + 1, start + len), Total(s))

\* sdsmapchars with one pair of characters
sdsmapchars(s, from, to) ==
    [s EXCEPT !.cells = [i \in DOMAIN @ |-> IF i <= s.len /\ @[i] = from THEN to ELSE @[i]]]

-----------------------------------------------------------------------------
(* sdscatfmt.  A format is a sequence of items: a byte that is copied, "%%"*)
(* or an unknown conversion, which also copies one byte, or a string or a  *)
(* number that is inserted.                                                *)

Lit(c) == [insert |-> FALSE, text |-> <<c>>]
Ins(t) == [insert |-> TRUE, text |-> t]

\* Mistake: the room of an inserted string is taken for granted.
FormatItemNoRoom(s, item) ==
    LET r == IF s.free = 0 THEN sdsMakeRoomFor(s, 1) ELSE s
    IN [Put(r, r.len, item.text) EXCEPT !.len = @ + Len(item.text), !.free = @ - Len(item.text)]

\* One turn of the loop: there is room for one byte before it is looked at.
FormatItem(s, item) ==
    LET r == IF s.free = 0 THEN sdsMakeRoomFor(s, 1) ELSE s
        n == Len(item.text)
        q == IF item.insert /\ r.free < n THEN sdsMakeRoomFor(r, n) ELSE r
    IN [Put(q, q.len, item.text) EXCEPT !.len = @ + n, !.free = @ - n]

sdscatfmt(s, fmt) ==
    LET st[i \in 0..Len(fmt)] == IF i = 0 THEN s ELSE FormatItem(st[i - 1], fmt[i])
        r == st[Len(fmt)]
    IN Put(r, r.len, <<Nul>>)

-----------------------------------------------------------------------------
(* A caller works on one string.                                           *)

Texts(n) == UNION {[1..i -> Char] : i \in 0..n}

SdsInit == \E t \in Texts(1) : str = sdsnewlen(t) /\ want = t

\* A call leaves the string s, whose text should be t.
Gives(s, t) == Len(t) <= MaxText /\ str' = s /\ want' = t

Zeros(n) == [i \in 1..n |-> Nul]

\* The part of t between the first and the last byte outside cset and NUL.
Trimmed(t, cset) ==
    LET keep == {i \in DOMAIN t : t[i] \notin cset \cup {Nul}}
    IN IF keep = {} THEN <<>>
       ELSE SubSeq(t, CHOOSE i \in keep : \A j \in keep : i <= j,
                      CHOOSE i \in keep : \A j \in keep : i >= j)

\* The bytes whose places, counted from 0 or backwards from -1, are from..to;
\* a place before the first byte is the first.
Between(t, from, to) ==
    LET place(i) == IF i >= 0 THEN i ELSE IF Len(t) + i < 0 THEN 0 ELSE Len(t) + i
    IN SubSeq(t, place(from) + 1, IF place(to) + 1 < Len(t) THEN place(to) + 1 ELSE Len(t))

SdsNext ==
    \/ \E t \in Texts(2) : \/ Gives(sdscatlen(str, t), want \o t)
                           \/ Gives(sdscpylen(str, t), t)
    \/ Gives(sdscpylen(str, Zeros(MaxText)), Zeros(MaxText))
    \/ \E n \in 0..MaxText :
         Gives(sdsgrowzero(str, n), want \o Zeros(IF n > Len(want) THEN n - Len(want) ELSE 0))
    \/ Gives(sdsclear(str), <<>>)
    \/ Gives(sdsRemoveFreeSpace(str), want)
    \/ Gives(sdsnewlen(Text(str)), want)    \* sdsdup
    \/ \E n \in 1..2 : Gives(sdsMakeRoomFor(str, n), want)
    \* Bytes are read into the free space, and the length is set.
    \/ \E t \in Texts(2) :
         /\ Len(t) <= str.free
         /\ Gives(sdsIncrLen(Put(str, str.len, t), Len(t)), want \o t)
    \/ \E n \in 1..str.len : Gives(sdsIncrLen(str, -n), SubSeq(want, 1, Len(want) - n))
    \* A NUL is written into the text, which is then cut there.
    \/ \E i \in 1..str.len :
         /\ \A j \in 1..i - 1 : want[j] # Nul
         /\ Gives(sdsupdatelen(Put(str, i - 1, <<Nul>>)), SubSeq(want, 1, i - 1))
    \/ \E c \in Char : Gives(sdstrim(str, {c}), Trimmed(want, {c}))
    \/ \E from, to \in -3..3 : Gives(sdsrange(str, from, to), Between(want, from, to))
    \/ \E c, e \in Char : Gives(sdsmapchars(str, c, e),
                                [i \in DOMAIN want |-> IF want[i] = c THEN e ELSE want[i]])
    \/ \E c \in Char : \E t \in Texts(2) :
         Gives(sdscatfmt(str, <<Lit(c), Ins(t)>>), Append(want, c) \o t)

SdsSpec == SdsInit /\ [][SdsNext]_sdsVars

-----------------------------------------------------------------------------

\* The header describes the allocation: len and free and the NUL add up to it,
\* so that no later call trusts it to write behind the end (sds.c:129-286), which
\* none has done.
SdsTypeOK ==
    /\ str.cells \in Seq(Char \cup {Junk})
    /\ str.len \in Nat /\ str.free \in Nat
    /\ Total(str) + 1 = Len(str.cells) /\ str.inside

\* With the types: the text is what the calls should have made it, with a NUL behind it, and no
\* byte of it is one that was never written.
SdsText == SdsTypeOK /\ Text(str) = want /\ str.cells[str.len + 1] = Nul
=============================================================================
