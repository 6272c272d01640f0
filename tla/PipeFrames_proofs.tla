------------------------- MODULE PipeFrames_proofs -------------------------
(***************************************************************************)
(* Facts about frames, and about taking and dropping a prefix of a         *)
(* sequence of units, that the proofs of both directions rest on.          *)
(***************************************************************************)
EXTENDS PipeFrames, SequenceTheorems, TLAPS

\* The bytes of a frame are units, whatever its type.
LEMMA UnitsType ==
    ASSUME NEW f \in Frame
    PROVE  Units(f) \in Seq(Unit)
<1>1. FrameLen(f) \in Nat /\ FrameLen(f) <= HdrLen + BodyLen
  BY SizesAssumption DEF FrameLen
<1>2. \A i \in 1..FrameLen(f) : [frame |-> f, pos |-> i] \in Unit
  BY <1>1, SizesAssumption DEF Unit
<1> QED
  BY <1>1, <1>2 DEF Units

\* Dropping units, even more than there are, leaves a sequence.
LEMMA DropType ==
    ASSUME NEW S, NEW s \in Seq(S), NEW n \in Nat
    PROVE  Drop(s, n) \in Seq(S)
<1>1. CASE n <= Len(s)
  <2>1. n + 1 \in 1..Len(s) + 1
    BY <1>1
  <2> QED
    BY <2>1, SubSeqProperties DEF Drop
<1>2. CASE ~(n <= Len(s))
  <2>1. Drop(s, n) = <<>>
    BY <1>2, SubSeqEmpty DEF Drop
  <2> QED
    BY <2>1
<1> QED
  BY <1>1, <1>2

\* A prefix of a sequence, and the rest, make up the sequence.
LEMMA TakeDrop ==
    ASSUME NEW S, NEW s \in Seq(S), NEW n \in 0..Len(s)
    PROVE  /\ Take(s, n) \in Seq(S)
           /\ Len(Take(s, n)) = n
           /\ Drop(s, n) \in Seq(S)
           /\ Take(s, n) \o Drop(s, n) = s
<1>1. Take(s, n) \in Seq(S) /\ Len(Take(s, n)) = n
  BY SubSeqProperties DEF Take
<1>2. Drop(s, n) \in Seq(S)
  BY DropType
<1>3. Take(s, n) \o Drop(s, n) = s
  <2>1. /\ 1 \in 1..Len(s) + 1
        /\ n \in 1 - 1..Len(s)
        /\ Len(s) \in n..Len(s)
    OBVIOUS
  <2>2. SubSeq(s, 1, n) \o SubSeq(s, n + 1, Len(s)) = SubSeq(s, 1, Len(s))
    BY <2>1, ConcatAdjacentSubSeq
  <2> QED
    BY <2>2, SubSeqFull DEF Take, Drop
<1> QED
  BY <1>1, <1>2, <1>3

\* The length and the elements of what is left after dropping a prefix.
LEMMA DropElements ==
    ASSUME NEW S, NEW s \in Seq(S), NEW n \in 0..Len(s)
    PROVE  /\ Len(Drop(s, n)) = Len(s) - n
           /\ \A i \in 1..Len(s) - n : Drop(s, n)[i] = s[i + n]
<1>1. /\ n + 1 \in Int /\ Len(s) \in Int
      /\ \A i \in n + 1..Len(s) : s[i] \in S
  OBVIOUS
<1>2. /\ Len(SubSeq(s, n + 1, Len(s))) = IF n + 1 <= Len(s) THEN Len(s) - (n + 1) + 1 ELSE 0
      /\ \A i \in 1..Len(s) - (n + 1) + 1 : SubSeq(s, n + 1, Len(s))[i] = s[(n + 1) + i - 1]
  BY <1>1, SubSeqProperties
<1> QED
  BY <1>2 DEF Drop

\* Dropping a prefix commutes with appending.
LEMMA DropConcat ==
    ASSUME NEW S, NEW s \in Seq(S), NEW u \in Seq(S), NEW n \in 0..Len(s)
    PROVE  Drop(s \o u, n) = Drop(s, n) \o u
<1> DEFINE left == Drop(s \o u, n)
           right == Drop(s, n) \o u
<1>1. /\ s \o u \in Seq(S)
      /\ Len(s \o u) = Len(s) + Len(u)
      /\ \A i \in 1..Len(s) + Len(u) :
            (s \o u)[i] = IF i <= Len(s) THEN s[i] ELSE u[i - Len(s)]
  BY ConcatProperties
<1>2. /\ left \in Seq(S)
      /\ Len(left) = Len(s) + Len(u) - n
      /\ \A i \in 1..Len(s) + Len(u) - n : left[i] = (s \o u)[i + n]
  <2> DEFINE w == s \o u
  <2>1. w \in Seq(S) /\ n \in 0..Len(w)
    BY <1>1
  <2>2. /\ Drop(w, n) \in Seq(S)
        /\ Len(Drop(w, n)) = Len(w) - n
        /\ \A i \in 1..Len(w) - n : Drop(w, n)[i] = w[i + n]
    <3> HIDE DEF w
    <3>1. n \in Nat
      OBVIOUS
    <3>2. Drop(w, n) \in Seq(S)
      BY <2>1, <3>1, DropType
    <3> QED
      BY <2>1, <3>2, DropElements
  <2> QED
    BY <1>1, <2>2
<1>3. /\ Drop(s, n) \in Seq(S)
      /\ Len(Drop(s, n)) = Len(s) - n
      /\ \A i \in 1..Len(s) - n : Drop(s, n)[i] = s[i + n]
  BY DropType, DropElements
<1>4. /\ right \in Seq(S)
      /\ Len(right) = Len(s) - n + Len(u)
      /\ \A i \in 1..Len(s) - n + Len(u) :
            right[i] = IF i <= Len(s) - n THEN s[i + n] ELSE u[i - (Len(s) - n)]
  <2> DEFINE d == Drop(s, n)
  <2>1. d \in Seq(S) /\ Len(d) = Len(s) - n
    BY <1>3
  <2>2. /\ d \o u \in Seq(S)
        /\ Len(d \o u) = Len(d) + Len(u)
        /\ \A i \in 1..Len(d) + Len(u) :
              (d \o u)[i] = IF i <= Len(d) THEN d[i] ELSE u[i - Len(d)]
    <3> HIDE DEF d
    <3> QED
      BY <2>1, ConcatProperties
  <2> QED
    BY <1>3, <2>1, <2>2
<1>5. \A i \in 1..Len(left) : left[i] = right[i]
  BY <1>1, <1>2, <1>4
<1>6. Len(left) = Len(right)
  BY <1>2, <1>4
<1>7. left = right
  BY <1>2, <1>4, <1>5, <1>6, SeqEqual
<1> QED
  BY <1>7

\* The frame that a header names is one, and the header was all there.
LEMMA HeaderProperties ==
    ASSUME NEW s \in Seq(Unit), NEW k \in 0..Len(s), HeaderOf(Take(s, k)) # None
    PROVE  HeaderOf(Take(s, k)) \in Frame /\ k = HdrLen
<1> DEFINE h == Take(s, k)
<1>1. h \in Seq(Unit) /\ Len(h) = k
  BY TakeDrop
<1>2. Len(h) = HdrLen /\ h[1].frame # None /\ HeaderOf(h) = h[1].frame
  BY DEF HeaderOf
<1>3. 1 \in 1..Len(h)
  BY <1>2, SizesAssumption
<1>4. h[1] \in Unit
  <2> HIDE DEF h
  <2> QED
    BY <1>1, <1>3
<1>5. h[1].frame \in Frame
  <2> HIDE DEF h
  <2> QED
    BY <1>2, <1>4 DEF Unit
<1> QED
  BY <1>1, <1>2, <1>5

\* Appending units is associative.
LEMMA UnitsAssociative ==
    \A s, t, u \in Seq(Unit) : (s \o t) \o u = s \o (t \o u)
<1>1. \A S : \A s, t, u \in Seq(S) : (s \o t) \o u = s \o (t \o u)
  BY ConcatAssociative
<1> QED
  BY <1>1

-----------------------------------------------------------------------------
(* Streams of whole frames.                                                *)

EndsFrame(u) == u.pos = FrameLen(u.frame)

\* Every unit of s lies in a complete copy of its frame, and the copies follow
\* each other.
Framed(s) ==
    /\ \A i \in 1..Len(s) :
         LET f == s[i].frame
             at == i - s[i].pos
         IN /\ f \in Frame /\ s[i].pos \in 1..FrameLen(f)
            /\ 0 <= at /\ at + FrameLen(f) <= Len(s)
            /\ \A j \in 1..FrameLen(f) : s[at + j] = [frame |-> f, pos |-> j]
    /\ \A i \in 1..Len(s) - 1 : EndsFrame(s[i]) => s[i + 1].pos = 1

\* No frame of s reaches over its k-th unit.
Boundary(s, k) == k \in 0..Len(s) /\ (k > 0 => EndsFrame(s[k]))

LEMMA FrameLenType ==
    ASSUME NEW f \in Frame
    PROVE  FrameLen(f) \in Nat \ {0} /\ FrameLen(f) >= HdrLen
BY SizesAssumption DEF FrameLen

\* The whole of the frame that begins behind a boundary is there.
LEMMA FrameAt ==
    ASSUME NEW s \in Seq(Unit), Framed(s), NEW k \in 0..Len(s) - 1, Boundary(s, k)
    PROVE  LET f == s[k + 1].frame
           IN /\ f \in Frame /\ k + FrameLen(f) <= Len(s)
              /\ \A j \in 1..FrameLen(f) : s[k + j] = [frame |-> f, pos |-> j]
<1>1. k + 1 \in 1..Len(s)
  OBVIOUS
<1>2. s[k + 1].pos = 1
  <2>1. CASE k = 0
    <3> DEFINE u == s[1]
    <3>1. u.pos \in 1..FrameLen(u.frame) /\ 0 <= 1 - u.pos /\ u.frame \in Frame
      BY <1>1, <2>1 DEF Framed
    <3>2. FrameLen(u.frame) \in Nat
      BY <3>1, FrameLenType
    <3> HIDE DEF u
    <3>3. u.pos = 1
      BY <3>1, <3>2
    <3> QED
      BY <2>1, <3>3 DEF u
  <2>2. CASE k > 0
    <3>1. k \in 1..Len(s) - 1
      BY <2>2
    <3> QED
      BY <2>2, <3>1 DEF Framed, Boundary
  <2> QED
    BY <2>1, <2>2
<1> QED
  BY <1>1, <1>2 DEF Framed

\* A frame that begins before a boundary ends there or before.
LEMMA FrameRest ==
    ASSUME NEW s \in Seq(Unit), Framed(s), NEW k \in 1..Len(s), NEW m \in k..Len(s), Boundary(s, m)
    PROVE  k - s[k].pos + FrameLen(s[k].frame) <= m
<1> DEFINE f == s[k].frame
           p == s[k].pos
           L == FrameLen(f)
<1>1. /\ f \in Frame /\ p \in 1..L
      /\ \A j \in 1..L : s[k - p + j] = [frame |-> f, pos |-> j]
  BY DEF Framed
<1>2. L \in Nat
  BY <1>1, FrameLenType
<1>3. s[m].pos = FrameLen(s[m].frame)
  BY DEF Boundary, EndsFrame
<1> HIDE DEF p, f
<1> SUFFICES ASSUME m < k - p + L PROVE FALSE
  BY <1>1, <1>2 DEF p, f
<1>4. m - k + p \in 1..L /\ k - p + (m - k + p) = m
  BY <1>1, <1>2
<1>5. s[m] = [frame |-> f, pos |-> m - k + p]
  BY <1>1, <1>4
<1> QED
  BY <1>1, <1>2, <1>3, <1>4, <1>5

\* Appending the bytes of a frame to whole frames leaves whole frames.
LEMMA FramedAppend ==
    ASSUME NEW s \in Seq(Unit), Framed(s), NEW f \in Frame
    PROVE  Framed(s \o Units(f))
<1> DEFINE u == Units(f)
           t == s \o u
           L == FrameLen(f)
<1>1. L \in Nat /\ u \in Seq(Unit) /\ Len(u) = L
  BY FrameLenType, UnitsType DEF Units
<1>2. /\ Len(t) = Len(s) + L
      /\ \A i \in 1..Len(s) : t[i] = s[i]
      /\ \A j \in 1..L : t[Len(s) + j] = [frame |-> f, pos |-> j]
  <2>1. Len(s \o u) = Len(s) + Len(u) /\
        \A i \in 1..Len(s) + Len(u) : (s \o u)[i] = IF i <= Len(s) THEN s[i] ELSE u[i - Len(s)]
    <3> HIDE DEF u
    <3> QED
      BY <1>1, ConcatProperties
  <2>2. \A j \in 1..L : u[j] = [frame |-> f, pos |-> j]
    BY DEF Units
  <2> HIDE DEF u
  <2>3. \A i \in 1..Len(s) : t[i] = s[i]
    BY <1>1, <2>1
  <2>4. \A j \in 1..L : t[Len(s) + j] = u[j]
    BY <1>1, <2>1
  <2> QED
    BY <1>1, <2>1, <2>2, <2>3, <2>4
<1> HIDE DEF u, t
<1>3. ASSUME NEW i \in 1..Len(t)
      PROVE  LET g == t[i].frame
                 at == i - t[i].pos
             IN /\ g \in Frame /\ t[i].pos \in 1..FrameLen(g)
                /\ 0 <= at /\ at + FrameLen(g) <= Len(t)
                /\ \A j \in 1..FrameLen(g) : t[at + j] = [frame |-> g, pos |-> j]
  <2>1. CASE i <= Len(s)
    <3> DEFINE g == s[i].frame
               at == i - s[i].pos
    <3>1. i \in 1..Len(s) /\ t[i] = s[i]
      BY <1>1, <1>2, <2>1
    <3>2. /\ g \in Frame /\ s[i].pos \in 1..FrameLen(g)
          /\ 0 <= at /\ at + FrameLen(g) <= Len(s)
          /\ \A j \in 1..FrameLen(g) : s[at + j] = [frame |-> g, pos |-> j]
      BY <3>1 DEF Framed
    <3>3. FrameLen(g) \in Nat /\ at \in Int
      BY <3>2, FrameLenType
    <3> HIDE DEF g, at
    <3>4. \A j \in 1..FrameLen(g) : t[at + j] = [frame |-> g, pos |-> j]
      <4> SUFFICES ASSUME NEW j \in 1..FrameLen(g) PROVE t[at + j] = [frame |-> g, pos |-> j]
        OBVIOUS
      <4>1. at + j \in 1..Len(s)
        BY <3>2, <3>3
      <4> QED
        BY <1>2, <3>2, <4>1
    <3>5. at + FrameLen(g) <= Len(t)
      BY <1>1, <1>2, <3>2, <3>3
    <3> QED
      BY <3>1, <3>2, <3>4, <3>5 DEF g, at
  <2>2. CASE i > Len(s)
    <3>1. i - Len(s) \in 1..L /\ Len(s) + (i - Len(s)) = i
      BY <1>1, <1>2, <2>2
    <3>2. t[i] = [frame |-> f, pos |-> i - Len(s)]
      BY <1>2, <3>1
    <3>3. i - (i - Len(s)) = Len(s)
      BY <3>1
    <3> QED
      BY <1>1, <1>2, <3>1, <3>2, <3>3
  <2>3. i <= Len(s) \/ i > Len(s)
    BY <1>1, <1>2
  <2> QED
    BY <2>1, <2>2, <2>3
<1>4. ASSUME NEW i \in 1..Len(t) - 1, EndsFrame(t[i])
      PROVE  t[i + 1].pos = 1
  <2>1. CASE i < Len(s)
    <3>1. i \in 1..Len(s) - 1 /\ i \in 1..Len(s) /\ i + 1 \in 1..Len(s)
      BY <2>1
    <3> QED
      BY <1>2, <1>4, <3>1 DEF Framed
  <2>2. CASE i = Len(s)
    <3>1. 1 \in 1..L
      BY <1>1, FrameLenType
    <3>2. t[Len(s) + 1] = [frame |-> f, pos |-> 1]
      BY <1>2, <3>1
    <3> QED
      BY <2>2, <3>2
  <2>3. CASE i > Len(s)
    <3>1. i - Len(s) \in 1..L /\ Len(s) + (i - Len(s)) = i /\ i - Len(s) < L
      BY <1>1, <1>2, <2>3
    <3>2. t[i] = [frame |-> f, pos |-> i - Len(s)]
      BY <1>2, <3>1
    <3> QED
      BY <1>1, <1>4, <3>1, <3>2 DEF EndsFrame
  <2> QED
    BY <2>1, <2>2, <2>3
<1>5. Framed(t)
  BY <1>3, <1>4 DEF Framed
<1> QED
  BY <1>5 DEF t, u

\* The elements of a prefix.
LEMMA TakeElements ==
    ASSUME NEW S, NEW s \in Seq(S), NEW n \in 0..Len(s)
    PROVE  Len(Take(s, n)) = n /\ \A i \in 1..n : Take(s, n)[i] = s[i]
<1>1. /\ 1 \in Int /\ n \in Int
      /\ \A i \in 1..n : s[i] \in S
  OBVIOUS
<1>2. /\ Len(SubSeq(s, 1, n)) = IF 1 <= n THEN n - 1 + 1 ELSE 0
      /\ \A i \in 1..n - 1 + 1 : SubSeq(s, 1, n)[i] = s[1 + i - 1]
  BY <1>1, SubSeqProperties
<1> QED
  BY <1>2 DEF Take

\* Sequences with the same elements are equal.
LEMMA SameUnits ==
    ASSUME NEW S, NEW s \in Seq(S), NEW t \in Seq(S), Len(s) = Len(t),
           \A i \in 1..Len(s) : s[i] = t[i]
    PROVE  s = t
OBVIOUS

\* The first of whole frames.
LEMMA FirstFrame ==
    ASSUME NEW s \in Seq(Unit), Framed(s), s # <<>>
    PROVE  LET f == s[1].frame
           IN /\ f \in Frame /\ FrameLen(f) \in 1..Len(s) /\ HdrLen <= FrameLen(f)
              /\ \A j \in 1..FrameLen(f) : s[j] = [frame |-> f, pos |-> j]
              /\ Boundary(s, FrameLen(f))
<1> DEFINE f == s[1].frame
<1>1. 0 \in 0..Len(s) - 1 /\ Boundary(s, 0)
  BY DEF Boundary
<1>2. /\ f \in Frame /\ 0 + FrameLen(f) <= Len(s)
      /\ \A j \in 1..FrameLen(f) : s[0 + j] = [frame |-> f, pos |-> j]
  <2>1. 0 + 1 = 1
    OBVIOUS
  <2> QED
    BY <1>1, <2>1, FrameAt
<1>3. FrameLen(f) \in Nat \ {0} /\ FrameLen(f) >= HdrLen
  BY <1>2, FrameLenType
<1> HIDE DEF f
<1> DEFINE L == FrameLen(f)
<1>4. \A j \in 1..L : s[j] = [frame |-> f, pos |-> j]
  BY <1>2, <1>3
<1>5. s[L].frame = f /\ s[L].pos = L
  <2>1. L \in 1..L
    BY <1>3
  <2> HIDE DEF L
  <2>2. s[L] = [frame |-> f, pos |-> L]
    BY <1>4, <2>1
  <2> QED
    BY <2>2
<1>6. Boundary(s, L)
  BY <1>2, <1>3, <1>5 DEF Boundary, EndsFrame
<1> QED
  BY <1>2, <1>3, <1>4, <1>6 DEF f

\* What follows a boundary is whole frames, with the same boundaries.
LEMMA FramedDrop ==
    ASSUME NEW s \in Seq(Unit), Framed(s), NEW k \in 0..Len(s), Boundary(s, k)
    PROVE  /\ Framed(Drop(s, k))
           /\ \A m \in k..Len(s) : Boundary(s, m) => Boundary(Drop(s, k), m - k)
<1> DEFINE t == Drop(s, k)
<1>1. t \in Seq(Unit) /\ Len(t) = Len(s) - k /\ \A i \in 1..Len(s) - k : t[i] = s[i + k]
  <2>1. Drop(s, k) \in Seq(Unit)
    BY DropType
  <2>2. /\ Len(Drop(s, k)) = Len(s) - k
        /\ \A i \in 1..Len(s) - k : Drop(s, k)[i] = s[i + k]
    BY DropElements
  <2> QED
    BY <2>1, <2>2
<1> HIDE DEF t
<1>2. ASSUME NEW i \in 1..Len(t)
      PROVE  LET f == t[i].frame
                 at == i - t[i].pos
             IN /\ f \in Frame /\ t[i].pos \in 1..FrameLen(f)
                /\ 0 <= at /\ at + FrameLen(f) <= Len(t)
                /\ \A j \in 1..FrameLen(f) : t[at + j] = [frame |-> f, pos |-> j]
  <2> DEFINE f == t[i].frame
             p == t[i].pos
             L == FrameLen(f)
             at == i - p
  <2>1. i + k \in 1..Len(s) /\ t[i] = s[i + k]
    BY <1>1
  <2>2. /\ f \in Frame /\ p \in 1..L
        /\ 0 <= i + k - p /\ i + k - p + L <= Len(s)
        /\ \A j \in 1..L : s[i + k - p + j] = [frame |-> f, pos |-> j]
    BY <2>1 DEF Framed
  <2>3. L \in Nat \ {0}
    BY <2>2, FrameLenType
  <2> HIDE DEF f, p
  <2> HIDE DEF L
  <2>4. 0 <= at
    <3> SUFFICES ASSUME ~(0 <= at) PROVE FALSE
      OBVIOUS
    <3> DEFINE j == p - i
    <3>1. j \in 1..L - 1 /\ k > 0 /\ i + k - p + j = k
      BY <1>1, <2>2, <2>3
    <3>2. s[k] = [frame |-> f, pos |-> j]
      <4>1. j \in 1..L
        BY <2>3, <3>1
      <4>2. s[i + k - p + j] = [frame |-> f, pos |-> j]
        BY <2>2, <4>1
      <4> QED
        BY <3>1, <4>2
    <3>3. s[k].pos = FrameLen(s[k].frame)
      BY <3>1 DEF Boundary, EndsFrame
    <3>4. j = L
      BY <3>2, <3>3 DEF L
    <3> QED
      BY <2>3, <3>1, <3>4
  <2>5. at + L <= Len(t)
    BY <1>1, <2>2, <2>3
  <2>6. ASSUME NEW j \in 1..L PROVE t[at + j] = [frame |-> f, pos |-> j]
    <3>1. at + j \in 1..Len(s) - k /\ at + j + k = i + k - p + j
      BY <1>1, <2>2, <2>3, <2>4, <2>5
    <3>2. t[at + j] = s[at + j + k]
      BY <1>1, <3>1
    <3> QED
      BY <2>2, <3>1, <3>2
  <2> QED
    BY <2>2, <2>4, <2>5, <2>6 DEF f, p, L
<1>3. ASSUME NEW i \in 1..Len(t) - 1, EndsFrame(t[i]) PROVE t[i + 1].pos = 1
  <2>1. /\ t[i] = s[i + k] /\ t[i + 1] = s[i + k + 1] /\ i + k \in 1..Len(s) - 1
    BY <1>1
  <2> QED
    BY <1>3, <2>1 DEF Framed
<1>4. Framed(t)
  BY <1>2, <1>3 DEF Framed
<1>5. ASSUME NEW m \in k..Len(s), Boundary(s, m) PROVE Boundary(t, m - k)
  <2>1. m - k \in 0..Len(t) /\ (m - k > 0 => t[m - k] = s[m] /\ m > 0)
    BY <1>1
  <2> QED
    BY <1>5, <2>1 DEF Boundary
<1> QED
  BY <1>4, <1>5 DEF t

\* Dropping twice.
LEMMA DropDrop ==
    ASSUME NEW S, NEW s \in Seq(S), NEW m \in Nat, NEW n \in Nat, m + n <= Len(s)
    PROVE  Drop(Drop(s, m), n) = Drop(s, m + n)
<1> DEFINE t == Drop(s, m)
           u == Drop(t, n)
           v == Drop(s, m + n)
<1>1. t \in Seq(S) /\ Len(t) = Len(s) - m /\ \A i \in 1..Len(s) - m : t[i] = s[i + m]
  <2>1. m \in 0..Len(s)
    OBVIOUS
  <2>2. Drop(s, m) \in Seq(S)
    BY DropType
  <2>3. /\ Len(Drop(s, m)) = Len(s) - m
        /\ \A i \in 1..Len(s) - m : Drop(s, m)[i] = s[i + m]
    BY <2>1, DropElements
  <2> QED
    BY <2>2, <2>3
<1>2. v \in Seq(S) /\ Len(v) = Len(s) - (m + n) /\ \A i \in 1..Len(s) - (m + n) : v[i] = s[i + (m + n)]
  <2>1. m + n \in 0..Len(s)
    OBVIOUS
  <2>2. Drop(s, m + n) \in Seq(S)
    BY DropType
  <2>3. /\ Len(Drop(s, m + n)) = Len(s) - (m + n)
        /\ \A i \in 1..Len(s) - (m + n) : Drop(s, m + n)[i] = s[i + (m + n)]
    BY <2>1, DropElements
  <2> QED
    BY <2>2, <2>3
<1> HIDE DEF t, v
<1>3. u \in Seq(S) /\ Len(u) = Len(t) - n /\ \A i \in 1..Len(t) - n : u[i] = t[i + n]
  <2>1. n \in 0..Len(t)
    BY <1>1
  <2>2. Drop(t, n) \in Seq(S)
    BY <1>1, DropType
  <2>3. /\ Len(Drop(t, n)) = Len(t) - n
        /\ \A i \in 1..Len(t) - n : Drop(t, n)[i] = t[i + n]
    BY <1>1, <2>1, DropElements
  <2> QED
    BY <2>2, <2>3
<1> HIDE DEF u
<1>4. Len(u) = Len(v) /\ \A i \in 1..Len(u) : u[i] = v[i]
  <2>1. Len(u) = Len(v)
    BY <1>1, <1>2, <1>3
  <2>2. ASSUME NEW i \in 1..Len(u) PROVE u[i] = v[i]
    <3>1. i \in 1..Len(t) - n /\ i + n \in 1..Len(s) - m /\ i \in 1..Len(s) - (m + n)
          /\ i + n + m = i + (m + n)
      BY <1>1, <1>2, <1>3
    <3> QED
      BY <1>1, <1>2, <1>3, <3>1
  <2> QED
    BY <2>1, <2>2
<1>5. u = v
  BY <1>2, <1>3, <1>4, SameUnits
<1> QED
  BY <1>5 DEF u, v, t

\* A prefix of what is appended to.
LEMMA TakeConcat ==
    ASSUME NEW S, NEW s \in Seq(S), NEW u \in Seq(S), NEW n \in 0..Len(s)
    PROVE  Take(s \o u, n) = Take(s, n)
<1> DEFINE t == s \o u
           left == Take(t, n)
           right == Take(s, n)
<1>1. /\ t \in Seq(S) /\ Len(t) = Len(s) + Len(u) /\ \A i \in 1..Len(s) : t[i] = s[i]
  <2>1. /\ s \o u \in Seq(S) /\ Len(s \o u) = Len(s) + Len(u)
        /\ \A i \in 1..Len(s) + Len(u) : (s \o u)[i] = IF i <= Len(s) THEN s[i] ELSE u[i - Len(s)]
    BY ConcatProperties
  <2>2. \A i \in 1..Len(s) : i \in 1..Len(s) + Len(u) /\ i <= Len(s)
    OBVIOUS
  <2> QED
    BY <2>1, <2>2
<1> HIDE DEF t
<1>2. left \in Seq(S) /\ Len(left) = n /\ \A i \in 1..n : left[i] = t[i]
  <2>1. n \in 0..Len(t)
    BY <1>1
  <2> QED
    BY <1>1, <2>1, TakeDrop, TakeElements
<1>3. right \in Seq(S) /\ Len(right) = n /\ \A i \in 1..n : right[i] = s[i]
  BY TakeDrop, TakeElements
<1> HIDE DEF left, right
<1>4. \A i \in 1..n : left[i] = right[i]
  BY <1>1, <1>2, <1>3
<1>5. left = right
  BY <1>2, <1>3, <1>4, SameUnits
<1> QED
  BY <1>5 DEF left, right, t
=============================================================================
