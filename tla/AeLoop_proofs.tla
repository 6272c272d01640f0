---------------------------- MODULE AeLoop_proofs ----------------------------
(***************************************************************************)
(* Theorems about AeLoop for any set sizes, descriptors and timers, and    *)
(* handlers that do anything they may.                                     *)
(***************************************************************************)
EXTENDS AeLoop, FiniteSetTheorems, WellFoundedInduction, SequenceTheorems, TLAPS

-----------------------------------------------------------------------------
(* Least and greatest elements.                                            *)

\* A finite set of integers has a greatest element: a smallest subset without
\* one would have one as soon as an element is taken out.
LEMMA MaxIsGreatest ==
    ASSUME NEW S \in SUBSET Int, IsFiniteSet(S), S # {}
    PROVE  Max(S) \in S /\ \A y \in S : y <= Max(S)
<1> DEFINE Bounded(T) == \E x \in T : \A y \in T : y <= x
           R == StrictSubsetOrdering(S)
           Bad == {T \in SUBSET S : T # {} /\ ~Bounded(T)}
<1>1. IsWellFoundedOn(R, SUBSET S)
  BY FS_StrictSubsetOrderingWellFounded, FS_FiniteSubsetsOfFinite
<1>2. Bad = {}
  <2> SUFFICES ASSUME Bad # {} PROVE FALSE
    OBVIOUS
  <2>1. PICK T \in Bad : \A U \in Bad : ~(<<U, T>> \in R)
    <3>1. Bad \subseteq SUBSET S
      OBVIOUS
    <3> HIDE DEF Bad, R
    <3> QED
      BY <1>1, <3>1, WFMin
  <2>2. PICK x \in T : TRUE
    OBVIOUS
  <2> DEFINE U == T \ {x}
  <2>3. U \in SUBSET S /\ U # T
    BY <2>2
  <2>4. U \notin Bad
    BY <2>1, <2>3 DEF StrictSubsetOrdering
  <2>5. CASE U = {}
    <3>1. \A y \in T : y = x
      BY <2>5
    <3>2. x <= x
      BY <2>2
    <3> QED
      BY <2>2, <3>1, <3>2
  <2>6. CASE U # {}
    <3>1. PICK m \in U : \A y \in U : y <= m
      BY <2>3, <2>4, <2>6
    <3>2. m \in Int /\ x \in Int /\ \A y \in U : y \in Int
      BY <2>2, <2>3
    <3>3. \A y \in T : y = x \/ y \in U
      OBVIOUS
    <3>4. CASE x <= m
      BY <3>1, <3>2, <3>3, <3>4
    <3>5. CASE ~(x <= m)
      <4>1. \A y \in T : y <= x
        BY <3>1, <3>2, <3>3, <3>5
      <4> QED
        BY <2>2, <4>1
    <3> QED
      BY <3>4, <3>5
  <2> QED
    BY <2>5, <2>6
<1>3. \E x \in S : \A y \in S : y <= x
  BY <1>2
<1>4. \E x \in S : \A y \in S : x >= y
  BY <1>3
<1>5. Max(S) \in S /\ \A y \in S : Max(S) >= y
  BY <1>4 DEF Max
<1> QED
  BY <1>5

\* The greatest element is the only one that is.
LEMMA MaxIs ==
    ASSUME NEW S \in SUBSET Int, NEW m \in S, \A y \in S : y <= m
    PROVE  Max(S) = m
<1>1. ASSUME NEW x \in S, \A y \in S : x >= y
      PROVE  x = m
  <2>1. x >= m /\ x <= m /\ x \in Int /\ m \in Int
    BY <1>1
  <2> QED
    BY <2>1
<1>2. \A y \in S : m >= y
  OBVIOUS
<1> QED
  BY <1>1, <1>2 DEF Max

LEMMA MaxOfTwo ==
    ASSUME NEW a \in Int, NEW b \in Int
    PROVE  Max({a, b}) = IF a >= b THEN a ELSE b
<1>1. CASE a >= b
  <2>1. {a, b} \in SUBSET Int /\ a \in {a, b} /\ \A y \in {a, b} : y <= a
    BY <1>1
  <2> QED
    BY <1>1, <2>1, MaxIs
<1>2. CASE ~(a >= b)
  <2>1. {a, b} \in SUBSET Int /\ b \in {a, b} /\ \A y \in {a, b} : y <= b
    BY <1>2
  <2> QED
    BY <1>2, <2>1, MaxIs
<1> QED
  BY <1>1, <1>2

\* A set of natural numbers has a least element.
LEMMA MinIsLeast ==
    ASSUME NEW S \in SUBSET Nat, S # {}
    PROVE  Min(S) \in S /\ \A y \in S : Min(S) <= y
<1> DEFINE R == OpToRel(<, Nat)
<1>1. IsWellFoundedOn(R, Nat)
  BY NatLessThanWellFounded
<1>2. PICK x \in S : \A y \in S : ~(<<y, x>> \in R)
  <2> HIDE DEF R
  <2> QED
    BY <1>1, WFMin
<1>3. \A y \in S : ~(y < x)
  BY <1>2 DEF OpToRel
<1>4. \A y \in S : x =< y
  BY <1>3
<1> QED
  BY <1>4 DEF Min

-----------------------------------------------------------------------------
(* The constants and the operators of the module.                          *)

LEMMA Sizes ==
    /\ ToSet(SetSizes) \in SUBSET (Nat \ {0}) /\ Head(SetSizes) \in ToSet(SetSizes)
    /\ Fds \in SUBSET Nat /\ IsFiniteSet(Fds)
    /\ \A n \in ToSet(SetSizes) : \A fd \in Nat : fd < n => fd \in Fds
<1> DEFINE S == ToSet(SetSizes)
<1>1. /\ \A i \in 1..Len(SetSizes) : SetSizes[i] \in Nat \ {0}
      /\ Len(SetSizes) \in Nat /\ Len(SetSizes) >= 1
      /\ DOMAIN SetSizes = 1..Len(SetSizes) /\ Head(SetSizes) = SetSizes[1]
  BY SetSizeAssumption
<1>2. S \in SUBSET (Nat \ {0}) /\ Head(SetSizes) \in S
  BY <1>1 DEF ToSet
<1>3. IsFiniteSet(S)
  <2>1. IsFiniteSet(1..Len(SetSizes))
    BY <1>1, FS_Interval
  <2>2. SetSizes \in Surjection(1..Len(SetSizes), S)
    <3>1. SetSizes \in [1..Len(SetSizes) -> S]
      BY <1>1, SetSizeAssumption DEF ToSet
    <3>2. \A n \in S : \E i \in 1..Len(SetSizes) : SetSizes[i] = n
      BY <1>1 DEF ToSet
    <3> HIDE DEF S
    <3> QED
      BY <3>1, <3>2 DEF Surjection
  <2> HIDE DEF S
  <2> QED
    BY <2>1, <2>2, FS_Surjection
<1>4. Max(S) \in S /\ \A n \in S : n <= Max(S)
  <2>1. S \in SUBSET Int /\ S # {}
    BY <1>2
  <2> HIDE DEF S
  <2> QED
    BY <1>3, <2>1, MaxIsGreatest
<1>5. Fds = 0..Max(S) - 1
  BY DEF Fds
<1>6. Max(S) \in Nat
  BY <1>2, <1>4
<1>7. IsFiniteSet(Fds) /\ Fds \in SUBSET Nat
  <2> HIDE DEF S
  <2>1. Max(S) - 1 \in Int
    BY <1>6
  <2> QED
    BY <1>5, <2>1, FS_Interval
<1>8. \A n \in S : \A fd \in Nat : fd < n => fd \in Fds
  <2> HIDE DEF S
  <2> SUFFICES ASSUME NEW n \in S, NEW fd \in Nat, fd < n PROVE fd \in Fds
    OBVIOUS
  <2>1. n \in Nat /\ n <= Max(S)
    BY <1>2, <1>4
  <2> QED
    BY <1>5, <1>6, <2>1
<1> QED
  BY <1>2, <1>7, <1>8

\* Nobody above the highest descriptor has an event.
LEMMA HighestRight ==
    ASSUME NEW mask \in [Fds -> SUBSET Bits]
    PROVE  /\ Highest(mask) \in {fd \in Fds : mask[fd] # {}} \cup {-1}
           /\ Highest(mask) \in Int /\ -1 <= Highest(mask)
           /\ \A fd \in Fds : mask[fd] # {} => fd <= Highest(mask)
<1> DEFINE S == {fd \in Fds : mask[fd] # {}} \cup {-1}
<1>1. S \in SUBSET Int /\ S # {} /\ -1 \in S
  <2>1. \A fd \in Fds : fd \in Int
    BY Sizes
  <2>2. -1 \in Int
    OBVIOUS
  <2> QED
    BY <2>1, <2>2
<1>2. IsFiniteSet(S)
  <2>1. IsFiniteSet({fd \in Fds : mask[fd] # {}})
    BY Sizes, FS_Subset
  <2> QED
    BY <2>1, FS_AddElement
<1>3. Max(S) \in S /\ \A y \in S : y <= Max(S)
  <2> HIDE DEF S
  <2> QED
    BY <1>1, <1>2, MaxIsGreatest
<1>4. Highest(mask) = Max(S)
  BY DEF Highest
<1> QED
  BY <1>1, <1>3, <1>4

LEMMA HighestIs ==
    ASSUME NEW mask \in [Fds -> SUBSET Bits],
           NEW m \in {fd \in Fds : mask[fd] # {}} \cup {-1},
           \A fd \in Fds : mask[fd] # {} => fd <= m
    PROVE  Highest(mask) = m
<1> DEFINE S == {fd \in Fds : mask[fd] # {}} \cup {-1}
<1>1. S \in SUBSET Int /\ m \in S
  <2>1. \A fd \in Fds : fd \in Int
    BY Sizes
  <2>2. -1 \in Int
    OBVIOUS
  <2> QED
    BY <2>1, <2>2
<1>2. m \in Int /\ -1 <= m
  BY Sizes
<1>3. \A y \in S : y <= m
  BY <1>2
<1>4. Max(S) = m
  <2> HIDE DEF S
  <2> QED
    BY <1>1, <1>3, MaxIs
<1> QED
  BY <1>4 DEF Highest

Timer == [id : Nat, when : Nat]

\* Taking a timer off the list leaves all the others, and nothing else.
LEMMA WithoutRight ==
    ASSUME NEW list \in Seq(Timer), NEW id
    PROVE  /\ Without(list, id) \in Seq(Timer)
           /\ \A i \in 1..Len(list) : list[i].id # id =>
                \E j \in 1..Len(Without(list, id)) : Without(list, id)[j] = list[i]
           /\ \A j \in 1..Len(Without(list, id)) :
                \E i \in 1..Len(list) : Without(list, id)[j] = list[i]
<1> DEFINE I == {i \in 1..Len(list) : list[i].id = id}
<1>1. CASE I = {}
  <2>1. Without(list, id) = list
    BY <1>1 DEF Without, RemoveFirstMatch
  <2> QED
    BY <2>1
<1>2. CASE I # {}
  <2> DEFINE p == Min(I)
             front == SubSeq(list, 1, p - 1)
             back == SubSeq(list, p + 1, Len(list))
  <2>1. p \in I
    <3>1. I \in SUBSET Nat
      OBVIOUS
    <3> HIDE DEF I
    <3> QED
      BY <1>2, <3>1, MinIsLeast
  <2>2. Without(list, id) = front \o back
    BY <1>2 DEF Without, RemoveFirstMatch, SelectInSeq, RemoveAt
  <2>3. p \in 1..Len(list) /\ list[p].id = id /\ Len(list) \in Nat
    BY <2>1
  <2> HIDE DEF p, I
  <2>4. /\ front \in Seq(Timer) /\ Len(front) = p - 1
        /\ \A i \in 1..p - 1 : front[i] = list[i]
    BY <2>3
  <2>5. /\ back \in Seq(Timer) /\ Len(back) = Len(list) - p
        /\ \A i \in 1..Len(list) - p : back[i] = list[p + i]
    BY <2>3
  <2> HIDE DEF front, back
  <2> DEFINE w == front \o back
  <2>6. w \in Seq(Timer) /\ Len(w) = Len(list) - 1
    <3>1. w \in Seq(Timer) /\ Len(w) = Len(front) + Len(back)
      BY <2>4, <2>5, ConcatProperties
    <3> HIDE DEF w
    <3> QED
      BY <2>3, <2>4, <2>5, <3>1
  <2>7. \A i \in 1..p - 1 : w[i] = list[i]
    BY <2>3, <2>4, <2>5
  <2>8. \A i \in p..Len(list) - 1 : w[i] = list[i + 1]
    <3> SUFFICES ASSUME NEW i \in p..Len(list) - 1 PROVE w[i] = list[i + 1]
      OBVIOUS
    <3>1. i \in 1..Len(front) + Len(back) /\ ~(i <= Len(front))
      BY <2>3, <2>4, <2>5
    <3>2. w[i] = back[i - Len(front)]
      BY <2>4, <2>5, <3>1, ConcatProperties
    <3>3. i - Len(front) \in 1..Len(list) - p /\ p + (i - Len(front)) = i + 1
      BY <2>3, <2>4
    <3> QED
      BY <2>5, <3>2, <3>3
  <2> HIDE DEF w
  <2>9. ASSUME NEW i \in 1..Len(list), list[i].id # id
        PROVE  \E j \in 1..Len(w) : w[j] = list[i]
    <3>1. i # p
      BY <2>3, <2>9
    <3>2. CASE i < p
      <4>1. i \in 1..p - 1 /\ i \in 1..Len(w)
        BY <2>3, <2>6, <3>2
      <4> QED
        BY <2>7, <4>1
    <3>3. CASE i > p
      <4>1. i - 1 \in p..Len(list) - 1 /\ i - 1 \in 1..Len(w) /\ (i - 1) + 1 = i
        BY <2>3, <2>6, <3>3
      <4> QED
        BY <2>8, <4>1
    <3> QED
      BY <2>3, <3>1, <3>2, <3>3
  <2>10. ASSUME NEW j \in 1..Len(w)
         PROVE  \E i \in 1..Len(list) : w[j] = list[i]
    <3>1. CASE j < p
      <4>1. j \in 1..p - 1 /\ j \in 1..Len(list)
        BY <2>3, <2>6, <3>1
      <4> QED
        BY <2>7, <4>1
    <3>2. CASE j >= p
      <4>1. j \in p..Len(list) - 1 /\ j + 1 \in 1..Len(list)
        BY <2>3, <2>6, <3>2
      <4> QED
        BY <2>8, <4>1
    <3> QED
      BY <2>3, <2>6, <3>1, <3>2
  <2>11. Without(list, id) = w
    BY <2>2 DEF w
  <2> QED
    BY <2>6, <2>9, <2>10, <2>11
<1> QED
  BY <1>1, <1>2

-----------------------------------------------------------------------------
(* Types, the highest descriptor and the kernel's copy of the masks.       *)

Pair == Fds \X Bits
Calls == {NoCall} \cup Pair \cup {<<id>> : id \in Nat}
Fired == [fd : Fds, mask : SUBSET Bits]

\* The masks, in which nothing is above maxfd, and what the kernel has been asked.
EventsRight ==
    /\ ev \in [setsize : Nat, maxfd : Int, mask : [Fds -> SUBSET Bits]]
    /\ ev.setsize \in ToSet(SetSizes)
    /\ ev.maxfd = Highest(ev.mask) /\ ev.maxfd < ev.setsize
    /\ epoll = ev.mask

Places == [pc : {"idle", "wait", "fired", "timers"}, fired : Seq(Fired), rfired : BOOLEAN,
           call : Calls, ops : Int, until : Int, maxId : Int, te : Int]

AtType == at \in Places /\ (at.pc = "timers" => at.te >= 1)

TimersType == timers \in [list : Seq(Timer), nextId : Nat, lastTime : Nat] /\ clock \in Second..MaxClock

SeenType == seen \in [owed : SUBSET Pair, fresh : SUBSET Pair, due : SUBSET Nat]

LoopInv == EventsRight /\ AtType /\ TimersType /\ SeenType

\* A field that gets a value of its type leaves the record a position.
LEMMA PlaceUpdates ==
    /\ \A p \in Places : \A x \in {"idle", "wait", "fired", "timers"} : [p EXCEPT !.pc = x] \in Places
    /\ \A p \in Places : \A x \in Seq(Fired) : [p EXCEPT !.fired = x] \in Places
    /\ \A p \in Places : \A x \in BOOLEAN : [p EXCEPT !.rfired = x] \in Places
    /\ \A p \in Places : \A x \in Calls : [p EXCEPT !.call = x] \in Places
    /\ \A p \in Places : \A x \in Int : /\ [p EXCEPT !.ops = x] \in Places
                                        /\ [p EXCEPT !.until = x] \in Places
                                        /\ [p EXCEPT !.maxId = x] \in Places
                                        /\ [p EXCEPT !.te = x] \in Places
    /\ \A p \in Places : /\ [p EXCEPT !.ops = 0] \in Places /\ [p EXCEPT !.until = 0] \in Places
                         /\ [p EXCEPT !.te = 0] \in Places /\ [p EXCEPT !.te = 1] \in Places
                         /\ [p EXCEPT !.maxId = -1] \in Places
<1>1. \A p \in Places : \A x \in {"idle", "wait", "fired", "timers"} : [p EXCEPT !.pc = x] \in Places
  BY DEF Places
<1>2. \A p \in Places : \A x \in Seq(Fired) : [p EXCEPT !.fired = x] \in Places
  BY DEF Places
<1>3. \A p \in Places : \A x \in BOOLEAN : [p EXCEPT !.rfired = x] \in Places
  BY Zenon DEF Places
<1>4. \A p \in Places : \A x \in Calls : [p EXCEPT !.call = x] \in Places
  BY DEF Places
<1>5. \A p \in Places : \A x \in Int : [p EXCEPT !.ops = x] \in Places /\ [p EXCEPT !.until = x] \in Places
  BY DEF Places
<1>6. \A p \in Places : \A x \in Int : [p EXCEPT !.maxId = x] \in Places /\ [p EXCEPT !.te = x] \in Places
  BY DEF Places
<1>7. \A p \in Places :
        /\ [p EXCEPT !.ops = 0] \in Places /\ [p EXCEPT !.until = 0] \in Places
        /\ [p EXCEPT !.te = 0] \in Places /\ [p EXCEPT !.te = 1] \in Places
        /\ [p EXCEPT !.maxId = -1] \in Places
  BY DEF Places
<1> QED
  BY <1>1, <1>2, <1>3, <1>4, <1>5, <1>6, <1>7

LEMMA LoopInvMeansType == LoopInv => AeTypeOK
<1> SUFFICES ASSUME LoopInv PROVE AeTypeOK
  OBVIOUS
<1>1. /\ ev.mask \in [Fds -> SUBSET Bits] /\ ev.setsize \in ToSet(SetSizes)
      /\ ev.maxfd = Highest(ev.mask) /\ ev.maxfd < ev.setsize /\ epoll = ev.mask
  BY DEF LoopInv, EventsRight
<1>2. at.pc \in {"idle", "wait", "fired", "timers"} /\ clock \in Second..MaxClock
  BY DEF LoopInv, AtType, Places, TimersType
<1>3. at.fired \in Seq(Fired)
  BY DEF LoopInv, AtType, Places
<1>4. \A i \in DOMAIN at.fired : at.fired[i].fd \in Fds
  <2>1. \A i \in DOMAIN at.fired : at.fired[i] \in Fired
    BY <1>3
  <2> QED
    BY <2>1 DEF Fired
<1> QED
  BY <1>1, <1>2, <1>4 DEF AeTypeOK

LEMMA InitLoop == AeInit => LoopInv
<1> SUFFICES ASSUME AeInit PROVE LoopInv
  OBVIOUS
<1> USE DEF AeInit
<1>1. EventsRight
  <2> DEFINE none == [fd \in Fds |-> {}]
  <2>1. none \in [Fds -> SUBSET Bits]
    OBVIOUS
  <2>2. Highest(none) = -1
    <3>1. -1 \in {fd \in Fds : none[fd] # {}} \cup {-1} /\ \A fd \in Fds : none[fd] # {} => fd <= -1
      OBVIOUS
    <3> HIDE DEF none
    <3> QED
      BY <2>1, <3>1, HighestIs
  <2>3. Head(SetSizes) \in ToSet(SetSizes) /\ Head(SetSizes) \in Nat \ {0}
    BY Sizes
  <2>4. ev = [setsize |-> Head(SetSizes), maxfd |-> -1, mask |-> none] /\ epoll = none
    OBVIOUS
  <2> HIDE DEF none, AeInit
  <2>5. ev.setsize = Head(SetSizes) /\ ev.maxfd = -1 /\ ev.mask = none
    BY <2>4
  <2>6. -1 < ev.setsize
    BY <2>3, <2>5
  <2> QED
    BY <2>1, <2>2, <2>3, <2>4, <2>5, <2>6 DEF EventsRight
<1>2. AtType
  <2>1. <<>> \in Seq(Fired) /\ NoCall \in Calls
    BY DEF Calls
  <2> QED
    BY <2>1, BoundAssumption DEF AtType, Places
<1>3. TimersType /\ SeenType
  <2>1. <<>> \in Seq(Timer) /\ Second \in Second..MaxClock /\ 1 \in Nat
    BY BoundAssumption, SecondAssumption
  <2> QED
    BY <2>1 DEF TimersType, SeenType
<1> QED
  BY <1>1, <1>2, <1>3 DEF LoopInv

LEMMA CreateEvents ==
    ASSUME LoopInv, NEW fd \in Fds, NEW bits \in SUBSET Bits, bits # {}, CreateFileEvent(fd, bits)
    PROVE  EventsRight'
<1> DEFINE mask == [ev.mask EXCEPT ![fd] = @ \cup bits]
<1>1. /\ ev \in [setsize : Nat, maxfd : Int, mask : [Fds -> SUBSET Bits]]
      /\ ev.setsize \in ToSet(SetSizes) /\ ev.maxfd = Highest(ev.mask) /\ ev.maxfd < ev.setsize
      /\ epoll = ev.mask
  BY DEF LoopInv, EventsRight
<1>2. /\ ev' = [ev EXCEPT !.mask[fd] = @ \cup bits, !.maxfd = Max({@, fd})]
      /\ epoll' = [epoll EXCEPT ![fd] = ev.mask[fd] \cup bits] /\ fd < ev.setsize
  BY DEF CreateFileEvent
<1>3. /\ ev' \in [setsize : Nat, maxfd : Int, mask : [Fds -> SUBSET Bits]]
      /\ ev'.mask = mask /\ ev'.maxfd = Max({ev.maxfd, fd}) /\ ev'.setsize = ev.setsize
  <2>1. ev.maxfd \in Int /\ fd \in Int
    BY <1>1, Sizes
  <2>2. Max({ev.maxfd, fd}) \in Int
    BY <2>1, MaxOfTwo
  <2> QED
    BY <1>1, <1>2, <2>2
<1>4. mask \in [Fds -> SUBSET Bits] /\ epoll' = mask
  BY <1>1, <1>2
<1>5. /\ ev.maxfd \in {f \in Fds : ev.mask[f] # {}} \cup {-1} /\ ev.maxfd \in Int /\ -1 <= ev.maxfd
      /\ \A f \in Fds : ev.mask[f] # {} => f <= ev.maxfd
  BY <1>1, HighestRight
<1>6. /\ \A f \in Fds : mask[f] # {} => f = fd \/ ev.mask[f] # {}
      /\ mask[fd] # {} /\ \A f \in Fds : ev.mask[f] # {} => mask[f] # {}
  BY <1>1
<1> HIDE DEF mask
<1>7. fd \in Nat /\ \A f \in Fds : f \in Nat
  BY Sizes
<1>8. CASE ev.maxfd >= fd
  <2>1. ev'.maxfd = ev.maxfd
    BY <1>3, <1>5, <1>7, <1>8, MaxOfTwo
  <2>2. ev.maxfd \in {f \in Fds : mask[f] # {}} \cup {-1}
    BY <1>5, <1>6
  <2>3. \A f \in Fds : mask[f] # {} => f <= ev.maxfd
    BY <1>5, <1>6, <1>7, <1>8
  <2>4. Highest(mask) = ev.maxfd
    BY <1>4, <2>2, <2>3, HighestIs
  <2> QED
    BY <1>1, <1>3, <1>4, <2>1, <2>4 DEF EventsRight
<1>9. CASE ~(ev.maxfd >= fd)
  <2>1. ev'.maxfd = fd
    BY <1>3, <1>5, <1>7, <1>9, MaxOfTwo
  <2>2. fd \in {f \in Fds : mask[f] # {}} \cup {-1}
    BY <1>6
  <2>3. \A f \in Fds : mask[f] # {} => f <= fd
    BY <1>5, <1>6, <1>7, <1>9
  <2>4. Highest(mask) = fd
    BY <1>4, <2>2, <2>3, HighestIs
  <2> QED
    BY <1>1, <1>2, <1>3, <1>4, <2>1, <2>4 DEF EventsRight
<1> QED
  BY <1>8, <1>9

LEMMA DeleteEvents ==
    ASSUME LoopInv, NEW fd \in Fds, NEW bits, DeleteFileEvent(fd, bits)
    PROVE  EventsRight'
<1> DEFINE mask == [ev.mask EXCEPT ![fd] = @ \ bits]
<1>1. /\ ev \in [setsize : Nat, maxfd : Int, mask : [Fds -> SUBSET Bits]]
      /\ ev.setsize \in ToSet(SetSizes) /\ ev.maxfd = Highest(ev.mask) /\ ev.maxfd < ev.setsize
      /\ epoll = ev.mask
  BY DEF LoopInv, EventsRight
<1>2. mask \in [Fds -> SUBSET Bits]
  BY <1>1
<1>3. epoll' = mask
  BY <1>1 DEF DeleteFileEvent
<1>4. /\ \A f \in Fds : mask[f] \subseteq ev.mask[f]
      /\ \A f \in Fds : f # fd => mask[f] = ev.mask[f]
  BY <1>1
<1>5. ev' = [ev EXCEPT !.mask = mask,
               !.maxfd = IF fd = @ /\ mask[fd] = {} THEN Highest(mask) ELSE @]
  BY DEF DeleteFileEvent, Dropped
<1> HIDE DEF mask
<1>6. /\ ev.maxfd \in {f \in Fds : ev.mask[f] # {}} \cup {-1} /\ ev.maxfd \in Int
      /\ \A f \in Fds : ev.mask[f] # {} => f <= ev.maxfd
  BY <1>1, HighestRight
<1>7. /\ Highest(mask) \in {f \in Fds : mask[f] # {}} \cup {-1}
      /\ Highest(mask) \in Int /\ -1 <= Highest(mask)
  BY <1>2, HighestRight
<1>8. /\ ev' \in [setsize : Nat, maxfd : Int, mask : [Fds -> SUBSET Bits]]
      /\ ev'.mask = mask /\ ev'.setsize = ev.setsize
      /\ ev'.maxfd = IF fd = ev.maxfd /\ mask[fd] = {} THEN Highest(mask) ELSE ev.maxfd
  BY <1>1, <1>2, <1>5, <1>7
<1>9. CASE fd = ev.maxfd /\ mask[fd] = {}
  <2>1. ev'.maxfd = Highest(mask)
    BY <1>8, <1>9
  <2>2. Highest(mask) < ev.setsize
    <3>1. CASE Highest(mask) = -1
      BY <1>1, <3>1
    <3>2. CASE Highest(mask) \in Fds /\ mask[Highest(mask)] # {}
      <4>1. ev.mask[Highest(mask)] # {}
        BY <1>4, <3>2
      <4>2. Highest(mask) <= ev.maxfd
        BY <1>6, <3>2, <4>1
      <4> QED
        BY <1>1, <1>7, <4>2
    <3> QED
      BY <1>7, <3>1, <3>2
  <2> QED
    BY <1>1, <1>3, <1>8, <2>1, <2>2 DEF EventsRight
<1>10. CASE ~(fd = ev.maxfd /\ mask[fd] = {})
  <2>1. ev'.maxfd = ev.maxfd
    BY <1>8, <1>10
  <2>2. ev.maxfd \in {f \in Fds : mask[f] # {}} \cup {-1}
    BY <1>4, <1>6, <1>10
  <2>3. \A f \in Fds : mask[f] # {} => f <= ev.maxfd
    BY <1>4, <1>6
  <2>4. Highest(mask) = ev.maxfd
    BY <1>2, <2>2, <2>3, HighestIs
  <2> QED
    BY <1>1, <1>3, <1>8, <2>1, <2>4 DEF EventsRight
<1> QED
  BY <1>9, <1>10

\* The tables only grow by empty entries, or shrink by them.
LEMMA ResizeEvents ==
    ASSUME LoopInv, NEW n \in ToSet(SetSizes), ResizeSetSize(n)
    PROVE  EventsRight' /\ ev'.mask = ev.mask
<1>1. /\ ev \in [setsize : Nat, maxfd : Int, mask : [Fds -> SUBSET Bits]]
      /\ ev.setsize \in ToSet(SetSizes) /\ ev.maxfd = Highest(ev.mask) /\ ev.maxfd < ev.setsize
      /\ epoll = ev.mask
  BY DEF LoopInv, EventsRight
<1> DEFINE mask == [fd \in Fds |-> IF fd \in ev.maxfd + 1..n - 1 THEN {} ELSE ev.mask[fd]]
<1>2. ev' = [ev EXCEPT !.setsize = n, !.mask = mask] /\ ev.maxfd < n /\ epoll' = epoll
  BY DEF ResizeSetSize
<1>3. mask = ev.mask
  <2>1. \A fd \in Fds : fd \in ev.maxfd + 1..n - 1 => ev.mask[fd] = {}
    <3> SUFFICES ASSUME NEW fd \in Fds, fd \in ev.maxfd + 1..n - 1, ev.mask[fd] # {} PROVE FALSE
      OBVIOUS
    <3>1. fd <= ev.maxfd
      BY <1>1, HighestRight
    <3> QED
      BY <1>1, <3>1
  <2>2. \A fd \in Fds : mask[fd] = ev.mask[fd]
    BY <2>1
  <2>3. mask \in [Fds -> SUBSET Bits]
    BY <1>1
  <2> HIDE DEF mask
  <2> QED
    BY <1>1, <2>2, <2>3
<1> HIDE DEF mask
<1>4. n \in Nat
  BY Sizes
<1>5. /\ ev' \in [setsize : Nat, maxfd : Int, mask : [Fds -> SUBSET Bits]]
      /\ ev'.setsize = n /\ ev'.maxfd = ev.maxfd /\ ev'.mask = ev.mask
  BY <1>1, <1>2, <1>3, <1>4
<1> QED
  BY <1>1, <1>2, <1>5 DEF EventsRight

\* What the time events of an action need of the list.
LEMMA TimerLists ==
    ASSUME NEW list \in Seq(Timer), NEW when, \A i \in 1..Len(list) : when[i] \in Nat
    PROVE  LET changed == [i \in DOMAIN list |-> [list[i] EXCEPT !.when = when[i]]]
           IN  /\ changed \in Seq(Timer) /\ Len(changed) = Len(list)
               /\ \A i \in 1..Len(list) : changed[i].id = list[i].id /\ changed[i].when = when[i]
<1> DEFINE changed == [i \in DOMAIN list |-> [list[i] EXCEPT !.when = when[i]]]
<1>1. DOMAIN list = 1..Len(list) /\ Len(list) \in Nat
  OBVIOUS
<1>2. ASSUME NEW i \in 1..Len(list)
      PROVE  changed[i] \in Timer /\ changed[i].id = list[i].id /\ changed[i].when = when[i]
  <2>1. list[i] \in Timer /\ when[i] \in Nat
    OBVIOUS
  <2>2. changed[i] = [list[i] EXCEPT !.when = when[i]]
    BY <1>1
  <2> HIDE DEF changed
  <2> QED
    BY <2>1, <2>2 DEF Timer
<1>3. changed \in [1..Len(list) -> Timer]
  BY <1>1, <1>2
<1> HIDE DEF changed
<1>4. changed \in Seq(Timer) /\ Len(changed) = Len(list)
  BY <1>1, <1>3
<1> QED
  BY <1>2, <1>4 DEF changed

\* Each descriptor has fired once.
OnceEach(fired) == \A i, j \in 1..Len(fired) : fired[i].fd = fired[j].fd => i = j

\* What has fired, and nothing else, has a place in the table of the iteration.
FiredAre(fired, fds, ready) ==
    /\ fired \in Seq(Fired)
    /\ \A i \in 1..Len(fired) : fired[i].fd \in fds /\ fired[i].mask = ready[fired[i].fd]
    /\ OnceEach(fired)
    /\ \A fd \in fds : \E i \in 1..Len(fired) : fired[i].fd = fd

\* Where the descriptors that fired stand when epoll_wait has returned.
LEMMA FiredInOrder ==
    ASSUME NEW fds \in SUBSET Fds, NEW ready, \A fd \in fds : ready[fd] \in SUBSET Bits,
           NEW order \in SetToSeqs(fds), NEW fired,
           fired = [i \in DOMAIN order |-> [fd |-> order[i], mask |-> ready[order[i]]]]
    PROVE  FiredAre(fired, fds, ready)
<1> DEFINE n == Cardinality(fds)
<1>1. IsFiniteSet(fds) /\ n \in Nat
  BY Sizes, FS_Subset, FS_CardinalityType
<1>2. order \in [1..n -> fds] /\ \A i, j \in 1..n : order[i] = order[j] => i = j
  BY DEF SetToSeqs
<1> HIDE DEF n
<1>3. order \in Injection(1..n, fds)
  BY <1>2 DEF Injection, IsInjective
<1>4. Cardinality(1..n) = n
  <2>1. Cardinality(1..n) = IF 1 > n THEN 0 ELSE n - 1 + 1
    BY <1>1, FS_Interval
  <2> QED
    BY <1>1, <2>1
<1>5. order \in Surjection(1..n, fds)
  BY <1>1, <1>3, <1>4, FS_Injection DEF n
<1>6. \A fd \in fds : \E i \in 1..n : order[i] = fd
  BY <1>5 DEF Surjection
<1>7. ASSUME NEW i \in 1..n
      PROVE  fired[i] \in Fired /\ fired[i].fd = order[i] /\ fired[i].mask = ready[order[i]]
  <2>1. fired[i] = [fd |-> order[i], mask |-> ready[order[i]]]
    BY <1>2
  <2>2. order[i] \in fds /\ order[i] \in Fds /\ ready[order[i]] \in SUBSET Bits
    BY <1>2
  <2> QED
    BY <2>1, <2>2 DEF Fired
<1>8. fired \in [1..n -> Fired]
  BY <1>2, <1>7
<1>9. fired \in Seq(Fired) /\ Len(fired) = n
  BY <1>1, <1>8
<1>10. \A i \in 1..n : fired[i].fd \in fds /\ fired[i].mask = ready[fired[i].fd]
  BY <1>2, <1>7
<1>11. OnceEach(fired)
  <2>1. ASSUME NEW i \in 1..n, NEW j \in 1..n, fired[i].fd = fired[j].fd
        PROVE  i = j
    <3>1. order[i] = order[j]
      BY <1>7, <2>1
    <3> QED
      BY <1>2, <3>1
  <2> QED
    BY <1>9, <2>1 DEF OnceEach
<1>12. ASSUME NEW fd \in fds
       PROVE  \E i \in 1..n : fired[i].fd = fd
  <2>1. PICK i \in 1..n : order[i] = fd
    BY <1>6
  <2>2. fired[i].fd = order[i]
    BY <1>7
  <2> QED
    BY <2>1, <2>2
<1> QED
  BY <1>9, <1>10, <1>11, <1>12 DEF FiredAre

-----------------------------------------------------------------------------
(* What each action leaves of the list of timers.                          *)

\* No timer but id's is lost, and none appears.
KeepsOthers(old, new, id) ==
    /\ \A i \in 1..Len(old) : old[i].id # id => \E j \in 1..Len(new) : new[j] = old[i]
    /\ \A j \in 1..Len(new) : \E i \in 1..Len(old) : new[j].id = old[i].id

LEMMA CreateList ==
    ASSUME TimersType, NEW delay \in Nat, CreateTimeEvent(delay)
    PROVE  /\ TimersType'
           /\ timers'.nextId = timers.nextId + 1
           /\ \A i \in 1..Len(timers.list) : \E j \in 1..Len(timers'.list) : timers'.list[j] = timers.list[i]
           /\ \A j \in 1..Len(timers'.list) : \/ timers'.list[j].id = timers.nextId
                                              \/ \E i \in 1..Len(timers.list) : timers'.list[j] = timers.list[i]
<1> DEFINE list == timers.list
           t == [id |-> timers.nextId, when |-> clock + delay]
           new == <<t>> \o list
<1>1. /\ timers \in [list : Seq(Timer), nextId : Nat, lastTime : Nat] /\ clock \in Second..MaxClock
      /\ clock \in Nat
  BY BoundAssumption, SecondAssumption DEF TimersType
<1>2. timers' = [timers EXCEPT !.nextId = @ + 1, !.list = new] /\ clock' = clock
  BY DEF CreateTimeEvent
<1>3. t \in Timer /\ list \in Seq(Timer) /\ t.id = timers.nextId
  BY <1>1 DEF Timer
<1> HIDE DEF t
<1>4. /\ new \in Seq(Timer) /\ Len(new) = Len(list) + 1 /\ new[1] = t
      /\ \A i \in 1..Len(list) : new[i + 1] = list[i]
  BY <1>3
<1> HIDE DEF new
<1>5. /\ timers' \in [list : Seq(Timer), nextId : Nat, lastTime : Nat]
      /\ timers'.list = new /\ timers'.nextId = timers.nextId + 1
  <2>1. timers.nextId + 1 \in Nat
    BY <1>1
  <2>2. timers' = [timers EXCEPT !.nextId = timers.nextId + 1, !.list = new]
    BY <1>2
  <2> QED
    BY <1>1, <1>4, <2>1, <2>2
<1>6. Len(list) \in Nat /\ Len(new) \in Nat
  BY <1>3, <1>4
<1>7. \A i \in 1..Len(list) : \E j \in 1..Len(new) : new[j] = list[i]
  <2> SUFFICES ASSUME NEW i \in 1..Len(list) PROVE \E j \in 1..Len(new) : new[j] = list[i]
    OBVIOUS
  <2>1. i + 1 \in 1..Len(new)
    BY <1>4, <1>6
  <2> QED
    BY <1>4, <2>1
<1>8. \A j \in 1..Len(new) : new[j].id = timers.nextId \/ \E i \in 1..Len(list) : new[j] = list[i]
  <2> SUFFICES ASSUME NEW j \in 1..Len(new), j # 1 PROVE \E i \in 1..Len(list) : new[j] = list[i]
    BY <1>3, <1>4
  <2>1. j - 1 \in 1..Len(list) /\ (j - 1) + 1 = j
    BY <1>4, <1>6
  <2> QED
    BY <1>4, <2>1
<1> QED
  BY <1>1, <1>2, <1>5, <1>7, <1>8 DEF TimersType

LEMMA DeleteList ==
    ASSUME TimersType, NEW id, DeleteTimeEvent(id)
    PROVE  TimersType' /\ timers'.nextId = timers.nextId /\ KeepsOthers(timers.list, timers'.list, id)
<1>1. timers \in [list : Seq(Timer), nextId : Nat, lastTime : Nat] /\ clock \in Second..MaxClock
  BY DEF TimersType
<1>2. timers' = [timers EXCEPT !.list = Without(@, id)] /\ clock' = clock
  BY DEF DeleteTimeEvent
<1>3. Without(timers.list, id) \in Seq(Timer) /\ KeepsOthers(timers.list, Without(timers.list, id), id)
  BY <1>1, WithoutRight DEF KeepsOthers
<1>4. /\ timers' \in [list : Seq(Timer), nextId : Nat, lastTime : Nat]
      /\ timers'.list = Without(timers.list, id) /\ timers'.nextId = timers.nextId
  BY <1>1, <1>2, <1>3
<1> QED
  BY <1>1, <1>2, <1>3, <1>4 DEF TimersType

\* The timers of a list that a pass owes a call.
DueOf(list, back) == {t.id : t \in {u \in ToSet(list) : back \/ u.when <= clock}}

LEMMA BeginList ==
    ASSUME TimersType, BeginTimers
    PROVE  /\ TimersType' /\ timers'.nextId = timers.nextId
           /\ Len(timers'.list) = Len(timers.list)
           /\ \A i \in 1..Len(timers.list) : timers'.list[i].id = timers.list[i].id
           /\ \E back \in BOOLEAN :
                /\ back => \A i \in 1..Len(timers'.list) : timers'.list[i].when <= clock
                /\ seen' = [seen EXCEPT !.due = DueOf(timers'.list, back)]
<1> DEFINE list == timers.list
           back == clock \div Second < timers.lastTime
           when == [i \in 1..Len(list) |-> IF back THEN list[i].when % Second ELSE list[i].when]
           changed == [i \in DOMAIN list |-> [list[i] EXCEPT !.when = when[i]]]
<1>1. /\ timers \in [list : Seq(Timer), nextId : Nat, lastTime : Nat] /\ clock \in Second..MaxClock
      /\ list \in Seq(Timer) /\ clock \in Nat
  BY BoundAssumption, SecondAssumption DEF TimersType
<1>2. DOMAIN list = 1..Len(list) /\ \A i \in 1..Len(list) : list[i] \in Timer
  BY <1>1
<1>3. \A i \in 1..Len(list) : when[i] \in Nat
  <2>1. \A n \in Nat : n % Second \in Nat
    BY SecondAssumption
  <2>2. \A i \in 1..Len(list) : list[i].when \in Nat
    BY <1>2 DEF Timer
  <2> HIDE DEF list
  <2> QED
    BY <2>1, <2>2
<1>4. /\ timers' = [timers EXCEPT !.list = changed, !.lastTime = clock \div Second]
      /\ seen' = [seen EXCEPT !.due = DueOf(changed, back)]
      /\ clock' = clock
  <2>1. changed = [i \in DOMAIN list |->
                     [list[i] EXCEPT !.when = IF back THEN list[i].when % Second ELSE list[i].when]]
    BY <1>2
  <2> HIDE DEF when, changed
  <2> QED
    BY <2>1 DEF BeginTimers, DueOf
<1>9. back \in BOOLEAN
  OBVIOUS
<1> HIDE DEF when
<1>5. /\ changed \in Seq(Timer) /\ Len(changed) = Len(list)
      /\ \A i \in 1..Len(list) : changed[i].id = list[i].id
  BY <1>1, <1>3, TimerLists
<1>8. back => \A i \in 1..Len(changed) : changed[i].when <= clock
  <2> SUFFICES ASSUME back, NEW i \in 1..Len(list) PROVE changed[i].when <= clock
    BY <1>5
  <2>1. when[i] = list[i].when % Second /\ list[i].when \in Nat
    BY <1>2 DEF when, Timer
  <2>2. when[i] < Second
    BY <2>1, SecondAssumption
  <2>3. changed[i].when = when[i]
    BY <1>2 DEF Timer
  <2> QED
    BY <1>1, <1>3, <2>2, <2>3, SecondAssumption
<1> HIDE DEF back
<1>6. clock \div Second \in Nat
  BY <1>1, SecondAssumption
<1> HIDE DEF changed
<1>7. /\ timers' \in [list : Seq(Timer), nextId : Nat, lastTime : Nat]
      /\ timers'.list = changed /\ timers'.nextId = timers.nextId
  BY <1>1, <1>4, <1>5, <1>6
<1> QED
  BY <1>1, <1>4, <1>5, <1>7, <1>8, <1>9 DEF TimersType

LEMMA ReturnList ==
    ASSUME TimersType, NEW delay \in Nat, TimerReturns(delay)
    PROVE  /\ TimersType' /\ timers'.nextId = timers.nextId
           /\ KeepsOthers(timers.list, timers'.list, at.call[1])
<1> DEFINE list == timers.list
           id == at.call[1]
           when == [i \in 1..Len(list) |-> IF list[i].id = id THEN clock + delay ELSE list[i].when]
           changed == [i \in DOMAIN list |-> [list[i] EXCEPT !.when = when[i]]]
           again == [i \in DOMAIN list |-> IF list[i].id = id THEN [list[i] EXCEPT !.when = clock + delay]
                                                              ELSE list[i]]
<1>1. /\ timers \in [list : Seq(Timer), nextId : Nat, lastTime : Nat] /\ clock \in Second..MaxClock
      /\ list \in Seq(Timer) /\ clock \in Nat
  BY BoundAssumption, SecondAssumption DEF TimersType
<1>2. timers' = [timers EXCEPT !.list = IF delay = 0 THEN Without(list, id) ELSE again] /\ clock' = clock
  BY DEF TimerReturns
<1> HIDE DEF id
<1>3. DOMAIN list = 1..Len(list) /\ \A i \in 1..Len(list) : list[i] \in Timer
  BY <1>1
<1>4. \A i \in 1..Len(list) : when[i] \in Nat
  <2>1. clock + delay \in Nat
    BY <1>1
  <2>2. \A i \in 1..Len(list) : list[i].when \in Nat
    BY <1>3 DEF Timer
  <2> HIDE DEF list
  <2> QED
    BY <2>1, <2>2
<1>5. again = changed
  <2> SUFFICES ASSUME NEW i \in DOMAIN list PROVE again[i] = changed[i]
    OBVIOUS
  <2>1. list[i] \in Timer /\ i \in 1..Len(list)
    BY <1>3
  <2>2. CASE list[i].id = id
    BY <2>1, <2>2
  <2>3. CASE list[i].id # id
    <3>1. [list[i] EXCEPT !.when = list[i].when] = list[i]
      BY <2>1 DEF Timer
    <3> QED
      BY <2>1, <2>3, <3>1
  <2> QED
    BY <2>2, <2>3
<1>6. KeepsOthers(list, again, id) /\ again \in Seq(Timer)
  <2>1. /\ changed \in Seq(Timer) /\ Len(changed) = Len(list)
        /\ \A i \in 1..Len(list) : changed[i].id = list[i].id
    <3> HIDE DEF when
    <3> QED
      BY <1>1, <1>4, TimerLists
  <2>2. \A i \in 1..Len(list) : list[i].id # id => again[i] = list[i]
    BY <1>3
  <2> HIDE DEF again, changed, list
  <2> QED
    BY <1>5, <2>1, <2>2 DEF KeepsOthers
<1>9. list \in Seq(Timer)
  BY <1>1
<1>7. KeepsOthers(list, Without(list, id), id) /\ Without(list, id) \in Seq(Timer)
  <2> HIDE DEF list, again, changed, when
  <2> QED
    BY <1>9, WithoutRight DEF KeepsOthers
<1> HIDE DEF again, changed
<1>8. /\ timers' \in [list : Seq(Timer), nextId : Nat, lastTime : Nat]
      /\ timers'.list = IF delay = 0 THEN Without(list, id) ELSE again
      /\ timers'.nextId = timers.nextId
  BY <1>1, <1>2, <1>6, <1>7
<1> QED
  BY <1>1, <1>2, <1>6, <1>7, <1>8 DEF TimersType, id

-----------------------------------------------------------------------------
(* What epoll_wait and the loop over what has fired do.                    *)

Wanted(i, bit) == bit \in at.fired[i].mask \cap ev.mask[at.fired[i].fd]

LEMMA PollRight ==
    ASSUME EventsRight, AtType, PollReturns
    PROVE  \E f \in Seq(Fired), owed \in SUBSET Pair :
             /\ at' = [at EXCEPT !.pc = "fired", !.rfired = FALSE, !.until = 0, !.ops = 0, !.fired = f]
             /\ seen' = [seen EXCEPT !.owed = owed, !.fresh = {}]
             /\ OnceEach(f)
             /\ \A p \in owed : \E i \in 1..Len(f) : /\ f[i].fd = p[1]
                                                     /\ p[2] \in f[i].mask \cap ev.mask[f[i].fd]
             /\ \A i \in 1..Len(f) : \A bit \in f[i].mask \cap ev.mask[f[i].fd] : <<f[i].fd, bit>> \in owed
<1>1. PICK ready \in [{fd \in Fds : epoll[fd] # {}} -> SUBSET Bits] :
        LET fds == {fd \in DOMAIN ready : ready[fd] # {}} IN
          /\ \E order \in SetToSeqs(fds) :
               at' = [at EXCEPT !.pc = "fired", !.rfired = FALSE, !.until = 0, !.ops = 0,
                         !.fired = [i \in DOMAIN order |-> [fd |-> order[i], mask |-> ready[order[i]]]]]
          /\ seen' = [seen EXCEPT !.owed = UNION {{fd} \X (ready[fd] \cap ev.mask[fd]) : fd \in fds},
                                  !.fresh = {}]
  BY DEF PollReturns
<1> DEFINE fds == {fd \in DOMAIN ready : ready[fd] # {}}
           owed == UNION {{fd} \X (ready[fd] \cap ev.mask[fd]) : fd \in fds}
<1>2. PICK order \in SetToSeqs(fds) :
        at' = [at EXCEPT !.pc = "fired", !.rfired = FALSE, !.until = 0, !.ops = 0,
                  !.fired = [i \in DOMAIN order |-> [fd |-> order[i], mask |-> ready[order[i]]]]]
  BY <1>1
<1>3. fds \in SUBSET Fds /\ \A fd \in fds : ready[fd] \in SUBSET Bits
  OBVIOUS
<1>4. seen' = [seen EXCEPT !.owed = owed, !.fresh = {}]
  BY <1>1
<1> DEFINE f == [i \in DOMAIN order |-> [fd |-> order[i], mask |-> ready[order[i]]]]
<1> HIDE DEF fds
<1>5. /\ f \in Seq(Fired)
      /\ \A i \in 1..Len(f) : f[i].fd \in fds /\ f[i].mask = ready[f[i].fd]
      /\ OnceEach(f)
      /\ \A fd \in fds : \E i \in 1..Len(f) : f[i].fd = fd
  <2>1. f = [i \in DOMAIN order |-> [fd |-> order[i], mask |-> ready[order[i]]]]
    OBVIOUS
  <2> HIDE DEF f, owed
  <2>2. fds \in SUBSET Fds
    BY <1>3
  <2>3. \A fd \in fds : ready[fd] \in SUBSET Bits
    BY <1>3
  <2>4. order \in SetToSeqs(fds)
    OBVIOUS
  <2>5. FiredAre(f, fds, ready)
    BY <2>1, <2>2, <2>3, <2>4, FiredInOrder
  <2> QED
    BY <2>5 DEF FiredAre
<1> HIDE DEF f
<1>6. owed \in SUBSET Pair
  BY <1>3 DEF Pair
<1>7. ASSUME NEW p \in owed
      PROVE  \E i \in 1..Len(f) : f[i].fd = p[1] /\ p[2] \in f[i].mask \cap ev.mask[f[i].fd]
  <2>1. PICK fd \in fds : p \in {fd} \X (ready[fd] \cap ev.mask[fd])
    OBVIOUS
  <2>2. p[1] = fd /\ p[2] \in ready[fd] \cap ev.mask[fd]
    BY <2>1
  <2>3. PICK i \in 1..Len(f) : f[i].fd = fd
    BY <1>5
  <2> QED
    BY <1>5, <2>2, <2>3
<1>8. ASSUME NEW i \in 1..Len(f), NEW bit \in f[i].mask \cap ev.mask[f[i].fd]
      PROVE  <<f[i].fd, bit>> \in owed
  <2>1. f[i].fd \in fds /\ bit \in ready[f[i].fd] \cap ev.mask[f[i].fd]
    BY <1>5
  <2> QED
    BY <2>1
<1>9. at' = [at EXCEPT !.pc = "fired", !.rfired = FALSE, !.until = 0, !.ops = 0, !.fired = f]
  BY <1>2 DEF f
<1> HIDE DEF owed
<1> QED
  BY <1>4, <1>5, <1>6, <1>7, <1>8, <1>9

\* What a step of the loop over what has fired is.
LEMMA ServeRight ==
    ASSUME AtType, ServeFired
    PROVE  /\ at.pc = "fired" /\ at.call = NoCall
           /\ Len(at.fired) >= 1 /\ at.fired[1] \in Fired /\ Tail(at.fired) \in Seq(Fired)
           /\ Len(Tail(at.fired)) = Len(at.fired) - 1
           /\ \A i \in 1..Len(Tail(at.fired)) : Tail(at.fired)[i] = at.fired[i + 1]
           /\ \/ ~at.rfired /\ Wanted(1, "readable") /\ Enter(at.fired[1], "readable")
              \/ /\ at.rfired \/ ~Wanted(1, "readable")
                 /\ Wanted(1, "writable") /\ ~(at.rfired /\ at.fired[1].fd \in SharedFds)
                 /\ Enter(at.fired[1], "writable")
              \/ /\ at.rfired \/ ~Wanted(1, "readable")
                 /\ ~Wanted(1, "writable") \/ (at.rfired /\ at.fired[1].fd \in SharedFds)
                 /\ at' = [at EXCEPT !.fired = Tail(@), !.rfired = FALSE] /\ UNCHANGED seen
<1>1. at.pc = "fired" /\ at.call = NoCall /\ at.fired # <<>>
  BY DEF ServeFired
<1>2. at.fired \in Seq(Fired)
  BY DEF AtType, Places
<1>3. Len(at.fired) >= 1 /\ Head(at.fired) = at.fired[1] /\ at.fired[1] \in Fired
  <2> DEFINE f == at.fired
  <2>1. f \in Seq(Fired) /\ f # <<>>
    BY <1>1, <1>2
  <2> HIDE DEF f
  <2>2. Len(f) >= 1 /\ Head(f) = f[1] /\ f[1] \in Fired
    BY <2>1
  <2> QED
    BY <2>2 DEF f
<1>4. /\ Tail(at.fired) \in Seq(Fired) /\ Len(Tail(at.fired)) = Len(at.fired) - 1
      /\ \A i \in 1..Len(Tail(at.fired)) : Tail(at.fired)[i] = at.fired[i + 1]
  BY <1>1, <1>2, HeadTailProperties
<1>5. \A bit : StillWanted(at.fired[1], bit) <=> Wanted(1, bit)
  BY DEF StillWanted, Wanted
<1>6. IF ~at.rfired /\ Wanted(1, "readable") THEN Enter(at.fired[1], "readable")
      ELSE IF Wanted(1, "writable") /\ ~(at.rfired /\ at.fired[1].fd \in SharedFds)
             THEN Enter(at.fired[1], "writable")
             ELSE at' = [at EXCEPT !.fired = Tail(@), !.rfired = FALSE] /\ UNCHANGED seen
  BY <1>3, <1>5 DEF ServeFired
<1>7. at.rfired \in BOOLEAN
  BY DEF AtType, Places
<1> QED
  BY <1>1, <1>3, <1>4, <1>6, <1>7, Zenon

-----------------------------------------------------------------------------
(* The time epoll_wait may take.                                           *)

LEMMA NearestType ==
    ASSUME TimersType, timers.list # <<>>
    PROVE  Nearest \in Nat
<1> DEFINE S == {timers.list[i].when : i \in DOMAIN timers.list}
<1>1. timers.list \in Seq(Timer)
  BY DEF TimersType
<1>2. \A i \in DOMAIN timers.list : timers.list[i] \in Timer
  BY <1>1
<1>3. S \in SUBSET Nat
  BY <1>2 DEF Timer
<1>4. S # {}
  <2>1. 1 \in DOMAIN timers.list
    <3> DEFINE list == timers.list
    <3>1. list \in Seq(Timer) /\ list # <<>>
      BY <1>1
    <3> HIDE DEF list
    <3>2. 1 \in DOMAIN list
      BY <3>1
    <3> QED
      BY <3>2 DEF list
  <2> QED
    BY <2>1
<1>5. Min(S) \in S
  <2> HIDE DEF S
  <2> QED
    BY <1>3, <1>4, MinIsLeast
<1> QED
  BY <1>3, <1>5 DEF Nearest

\* The time to the timer, if it is not overdue.
LEMMA TimeoutRight ==
    ASSUME NEW when \in Nat, clock \in Nat
    PROVE  /\ Timeout(when) \in Int
           /\ when >= clock => clock + Timeout(when) = when
<1> DEFINE wq == when \div Second
           wr == when % Second
           cq == clock \div Second
           cr == clock % Second
           borrow == IF wr < cr THEN 1 ELSE 0
           sec == wq - cq - borrow
<1>1. Second \in Nat /\ Second > 0
  BY SecondAssumption
<1>2. /\ wq \in Nat /\ wr \in 0..Second - 1 /\ when = wq * Second + wr
      /\ cq \in Nat /\ cr \in 0..Second - 1 /\ clock = cq * Second + cr
  BY <1>1
<1>3. Timeout(when) = (Max({sec, 0}) + borrow) * Second + wr - cr
  BY DEF Timeout
<1> HIDE DEF wq, wr, cq, cr
<1>4. borrow \in Nat /\ sec \in Int
  BY <1>2
<1>5. Max({sec, 0}) = IF sec >= 0 THEN sec ELSE 0
  <2> HIDE DEF sec
  <2> QED
    BY <1>4, MaxOfTwo
<1>6. CASE sec >= 0
  <2>1. Timeout(when) = (wq - cq) * Second + wr - cr
    <3>1. Max({sec, 0}) + borrow = wq - cq
      BY <1>2, <1>5, <1>6
    <3> QED
      BY <1>3, <3>1
  <2>2. (wq - cq) * Second = wq * Second - cq * Second
    BY <1>1, <1>2
  <2>3. wq * Second \in Int /\ cq * Second \in Int
    BY <1>1, <1>2
  <2> QED
    BY <1>1, <1>2, <2>1, <2>2, <2>3
<1>7. CASE ~(sec >= 0)
  <2>1. Timeout(when) = borrow * Second + wr - cr
    <3>1. Max({sec, 0}) + borrow = borrow
      BY <1>4, <1>5, <1>7
    <3> QED
      BY <1>3, <3>1
  <2>2. borrow * Second = IF wr < cr THEN Second ELSE 0
    BY <1>1
  <2>4. wq <= cq /\ (wr < cr \/ wq + 1 <= cq)
    BY <1>2, <1>7
  <2> HIDE DEF borrow
  <2>3. Timeout(when) \in Int
    BY <1>1, <1>2, <2>1, <2>2
  <2>5. \A n \in Nat, m \in Nat : n <= m => n * Second <= m * Second
    BY <1>1
  <2>6. wq * Second <= cq * Second
    BY <1>2, <2>4, <2>5
  <2>7. wq + 1 <= cq => (wq + 1) * Second <= cq * Second
    BY <1>2, <2>5
  <2>8. (wq + 1) * Second = wq * Second + Second
    BY <1>1, <1>2
  <2>9. wq * Second \in Int /\ cq * Second \in Int
    BY <1>1, <1>2
  <2>10. when < clock
    BY <1>1, <1>2, <2>4, <2>6, <2>7, <2>8, <2>9
  <2> QED
    BY <2>3, <2>10
<1> QED
  BY <1>6, <1>7

LEMMA TimeoutType ==
    ASSUME TimersType
    PROVE  (IF timers.list = <<>> THEN -1 ELSE clock + Timeout(Nearest)) \in Int
<1>1. clock \in Nat
  BY BoundAssumption, SecondAssumption DEF TimersType
<1>2. CASE timers.list = <<>>
  BY <1>2
<1>3. CASE timers.list # <<>>
  <2>1. Timeout(Nearest) \in Int
    BY <1>1, <1>3, NearestType, TimeoutRight
  <2> QED
    BY <1>1, <1>3, <2>1
<1> QED
  BY <1>2, <1>3

-----------------------------------------------------------------------------
(* The invariant of the types is kept.                                     *)

\* An operation that a handler may carry out moves the thread nowhere.
LEMMA ActedType ==
    ASSUME AtType, Acted
    PROVE  AtType' /\ at' = [at EXCEPT !.ops = at.ops - 1]
<1>1. at' = [at EXCEPT !.ops = at.ops - 1] /\ at.ops - 1 \in Int
  BY DEF Acted, AtType, Places
<1> QED
  BY <1>1 DEF AtType, Places

LEMMA EnterType ==
    ASSUME AtType, SeenType, at.fired # <<>>, at.fired[1] \in Fired, Tail(at.fired) \in Seq(Fired),
           at.pc = "fired", NEW bit \in Bits, Enter(at.fired[1], bit)
    PROVE  AtType' /\ SeenType'
<1> DEFINE e == at.fired[1]
<1>1. e.fd \in Fds /\ <<e.fd, bit>> \in Calls /\ HandlerOps \in Int
  BY BoundAssumption DEF Fired, Calls, Pair
<1> HIDE DEF e
<1>2. (bit = "readable") \in BOOLEAN
  OBVIOUS
<1>3. PICK first \in BOOLEAN : first = (bit = "readable")
  BY <1>2
<1>4. PICK fired \in Seq(Fired) : fired = IF bit = "readable" THEN at.fired ELSE Tail(at.fired)
  BY DEF AtType, Places
<1>5. at' = [at EXCEPT !.call = <<e.fd, bit>>, !.ops = HandlerOps, !.rfired = first, !.fired = fired]
  BY <1>3, <1>4, Zenon DEF Enter, e
<1>6. AtType'
  BY <1>1, <1>5 DEF AtType, Places
<1>7. PICK served : seen' = [seen EXCEPT !.owed = seen.owed \ served]
  BY DEF Enter
<1>8. SeenType'
  BY <1>7 DEF SeenType
<1> QED
  BY <1>6, <1>8

LEMMA BitsAre == Bits = {"readable", "writable"}
  BY DEF Bits

LEMMA StepLoop == LoopInv /\ [AeNext]_aeVars => LoopInv'
<1> SUFFICES ASSUME LoopInv, [AeNext]_aeVars PROVE LoopInv'
  OBVIOUS
<1> USE DEF LoopInv
<1>1. ASSUME NEW fd \in Fds, NEW bits \in (SUBSET Asked[fd]) \ {{}}, CreateFileEvent(fd, bits)
      PROVE  LoopInv'
  <2>1. bits \in SUBSET Bits /\ bits # {}
    <3>1. Asked[fd] \in SUBSET Bits
      BY AskedAssumption
    <3>2. bits \in SUBSET Asked[fd] /\ bits # {}
      OBVIOUS
    <3> QED
      BY <3>1, <3>2
  <2>2. EventsRight'
    BY <1>1, <2>1, CreateEvents
  <2>3. AtType'
    BY <1>1, ActedType DEF CreateFileEvent
  <2>4. TimersType'
    BY <1>1 DEF CreateFileEvent, TimersType
  <2>5. {fd} \X bits \in SUBSET Pair
    BY <2>1 DEF Pair
  <2>6. SeenType'
    BY <1>1, <2>5 DEF CreateFileEvent, SeenType
  <2> QED
    BY <2>2, <2>3, <2>4, <2>6
<1>2. ASSUME NEW fd \in Fds, NEW bits, DeleteFileEvent(fd, bits)
      PROVE  LoopInv'
  <2>1. EventsRight'
    BY <1>2, DeleteEvents
  <2>2. AtType'
    BY <1>2, ActedType DEF DeleteFileEvent
  <2>3. TimersType'
    BY <1>2 DEF DeleteFileEvent, TimersType
  <2>4. SeenType'
    BY <1>2 DEF DeleteFileEvent, SeenType
  <2> QED
    BY <2>1, <2>2, <2>3, <2>4
<1>3. ASSUME NEW n \in ToSet(SetSizes), ResizeSetSize(n)
      PROVE  LoopInv'
  <2>1. EventsRight'
    BY <1>3, ResizeEvents
  <2>2. AtType'
    BY <1>3, ActedType DEF ResizeSetSize
  <2>3. TimersType' /\ SeenType'
    BY <1>3 DEF ResizeSetSize, TimersType, SeenType
  <2> QED
    BY <2>1, <2>2, <2>3
<1>4. ASSUME NEW delay \in Delays, CreateTimeEvent(delay)
      PROVE  LoopInv'
  <2>1. EventsRight' /\ SeenType'
    BY <1>4 DEF CreateTimeEvent, EventsRight, SeenType
  <2>2. AtType'
    BY <1>4, ActedType DEF CreateTimeEvent
  <2>3. delay \in Nat
    BY BoundAssumption
  <2>4. TimersType'
    BY <1>4, <2>3, CreateList
  <2> QED
    BY <2>1, <2>2, <2>4
<1>5. ASSUME NEW delay \in Nat, TimerReturns(delay)
      PROVE  LoopInv'
  <2>1. EventsRight' /\ SeenType'
    BY <1>5 DEF TimerReturns, EventsRight, SeenType
  <2>2. at' = [at EXCEPT !.call = NoCall, !.ops = 0, !.te = 1] /\ NoCall \in Calls
    BY <1>5 DEF TimerReturns, Restart, Calls
  <2>3. AtType'
    <3>1. at' \in Places
      BY <2>2, PlaceUpdates DEF AtType
    <3>2. at'.pc = "timers" => at'.te >= 1
      BY <2>2 DEF AtType, Places
    <3> QED
      BY <3>1, <3>2 DEF AtType
  <2>4. TimersType'
    BY <1>5, ReturnList
  <2> QED
    BY <2>1, <2>3, <2>4
<1>6. ASSUME NEW id, DeleteTimeEvent(id)
      PROVE  LoopInv'
  <2>1. EventsRight'
    BY <1>6 DEF DeleteTimeEvent, EventsRight
  <2>2. SeenType'
    BY <1>6 DEF DeleteTimeEvent, SeenType
  <2>3. AtType'
    BY <1>6, ActedType DEF DeleteTimeEvent
  <2>4. TimersType'
    BY <1>6, DeleteList
  <2> QED
    BY <2>1, <2>2, <2>3, <2>4
<1>7. CASE Poll
  <2>1. EventsRight' /\ SeenType' /\ TimersType'
    BY <1>7 DEF Poll, EventsRight, SeenType, TimersType
  <2>2. PICK until : at' = [at EXCEPT !.pc = "wait", !.until = until]
                     /\ until = IF timers.list = <<>> THEN -1 ELSE clock + Timeout(Nearest)
    BY <1>7 DEF Poll
  <2>3. until \in Int
    BY <2>2, TimeoutType
  <2>4. AtType'
    <3>1. at' \in Places
      BY <2>2, <2>3, PlaceUpdates DEF AtType
    <3>2. at'.pc = "timers" => at'.te >= 1
      BY <2>2, <2>3 DEF AtType, Places
    <3> QED
      BY <3>1, <3>2 DEF AtType
  <2> QED
    BY <2>1, <2>4
<1>8. CASE PollReturns
  <2>1. EventsRight' /\ TimersType'
    BY <1>8 DEF PollReturns, EventsRight, TimersType
  <2>2. PICK f \in Seq(Fired), owed \in SUBSET Pair :
          /\ at' = [at EXCEPT !.pc = "fired", !.rfired = FALSE, !.until = 0, !.ops = 0, !.fired = f]
          /\ seen' = [seen EXCEPT !.owed = owed, !.fresh = {}]
    BY <1>8, PollRight
  <2>3. AtType'
    <3>1. at' \in Places
      BY <2>2, PlaceUpdates DEF AtType
    <3>2. at'.pc = "timers" => at'.te >= 1
      BY <2>2 DEF AtType, Places
    <3> QED
      BY <3>1, <3>2 DEF AtType
  <2>4. SeenType'
    BY <2>2 DEF SeenType
  <2> QED
    BY <2>1, <2>3, <2>4
<1>9. CASE ServeFired
  <2>1. EventsRight' /\ TimersType'
    BY <1>9 DEF ServeFired, EventsRight, TimersType
  <2>2. /\ at.pc = "fired" /\ Len(at.fired) >= 1 /\ at.fired[1] \in Fired /\ Tail(at.fired) \in Seq(Fired)
        /\ \/ Enter(at.fired[1], "readable")
           \/ Enter(at.fired[1], "writable")
           \/ at' = [at EXCEPT !.fired = Tail(@), !.rfired = FALSE] /\ UNCHANGED seen
    BY <1>9, ServeRight
  <2>3. at.fired # <<>>
    <3>1. Len(<<>>) = 0
      OBVIOUS
    <3> QED
      BY <2>2, <3>1
  <2>4. CASE Enter(at.fired[1], "readable")
    BY <2>1, <2>2, <2>3, <2>4, BitsAre, EnterType
  <2>5. CASE Enter(at.fired[1], "writable")
    BY <2>1, <2>2, <2>3, <2>5, BitsAre, EnterType
  <2>6. CASE at' = [at EXCEPT !.fired = Tail(@), !.rfired = FALSE] /\ UNCHANGED seen
    <3>1. PICK tail \in Seq(Fired) : tail = Tail(at.fired)
      BY <2>2
    <3>2. at' = [at EXCEPT !.fired = tail, !.rfired = FALSE]
      BY <2>6, <3>1
    <3>3. AtType'
      <4>1. at' \in Places
        BY <2>2, <3>2, PlaceUpdates DEF AtType
      <4>2. at'.pc = "timers" => at'.te >= 1
        BY <2>2, <3>2 DEF AtType, Places
      <4> QED
        BY <4>1, <4>2 DEF AtType
    <3> QED
      BY <2>1, <2>6, <3>3 DEF SeenType
  <2> QED
    BY <2>2, <2>4, <2>5, <2>6
<1>10. CASE HandlerReturns
  <2>1. EventsRight' /\ SeenType' /\ TimersType'
    BY <1>10 DEF HandlerReturns, EventsRight, SeenType, TimersType
  <2>2. at' = [at EXCEPT !.call = NoCall, !.ops = 0] /\ NoCall \in Calls
    BY <1>10 DEF HandlerReturns, Calls
  <2>3. AtType'
    <3>1. at' \in Places
      BY <2>2, PlaceUpdates DEF AtType
    <3>2. at'.pc = "timers" => at'.te >= 1
      BY <2>2 DEF AtType, Places
    <3> QED
      BY <3>1, <3>2 DEF AtType
  <2> QED
    BY <2>1, <2>3
<1>11. CASE BeginTimers
  <2>1. EventsRight'
    BY <1>11 DEF BeginTimers, EventsRight
  <2>2. TimersType'
    BY <1>11, BeginList
  <2>9. PICK back \in BOOLEAN : seen' = [seen EXCEPT !.due = DueOf(timers'.list, back)]
    BY <1>11, BeginList
  <2>3. \A t \in ToSet(timers'.list) : t.id \in Nat
    <3>1. timers'.list \in Seq(Timer)
      BY <2>2 DEF TimersType
    <3>2. \A i \in DOMAIN timers'.list : timers'.list[i] \in Timer
      BY <3>1
    <3> QED
      BY <3>2 DEF ToSet, Timer
  <2>4. PICK due \in SUBSET Nat : due = DueOf(timers'.list, back)
    BY <2>3 DEF DueOf
  <2>5. SeenType'
    <3>1. seen' = [seen EXCEPT !.due = due]
      BY <2>9, <2>4
    <3> QED
      BY <3>1 DEF SeenType
  <2>6. at' = [at EXCEPT !.pc = "timers", !.maxId = timers.nextId - 1, !.te = 1]
    BY <1>11 DEF BeginTimers
  <2>7. timers.nextId - 1 \in Int
    BY DEF TimersType
  <2>8. AtType'
    <3>1. at' \in Places
      BY <2>6, <2>7, PlaceUpdates DEF AtType
    <3>2. at'.pc = "timers" => at'.te >= 1
      BY <2>6, <2>7 DEF AtType, Places
    <3> QED
      BY <3>1, <3>2 DEF AtType
  <2> QED
    BY <2>1, <2>2, <2>5, <2>8
<1>12. CASE VisitTimer
  <2>1. EventsRight' /\ TimersType'
    BY <1>12 DEF VisitTimer, EventsRight, TimersType
  <2>2. at.pc = "timers" /\ at.te \in Int /\ at.te >= 1 /\ at.te <= Len(timers.list)
    BY <1>12 DEF VisitTimer, AtType, Places
  <2>3. timers.list[at.te] \in Timer
    <3>1. timers.list \in Seq(Timer)
      BY DEF TimersType
    <3>2. at.te \in 1..Len(timers.list)
      BY <2>2, <3>1
    <3> QED
      BY <3>1, <3>2
  <2>4. PICK t \in Timer : t = timers.list[at.te]
    BY <2>3
  <2>5. CASE Eligible(t)
    <3>1. at' = [at EXCEPT !.call = <<t.id>>, !.ops = HandlerOps] /\ seen' = [seen EXCEPT !.due = @ \ {t.id}]
      BY <1>12, <2>4, <2>5 DEF VisitTimer
    <3>2. <<t.id>> \in Calls /\ HandlerOps \in Int
      BY BoundAssumption DEF Calls, Timer
    <3>3. AtType'
      <4>1. at' \in Places
        BY <3>1, <3>2, PlaceUpdates DEF AtType
      <4>2. at'.pc = "timers" => at'.te >= 1
        BY <3>1, <3>2 DEF AtType, Places
      <4> QED
        BY <4>1, <4>2 DEF AtType
    <3>4. SeenType'
      BY <3>1 DEF SeenType
    <3> QED
      BY <2>1, <3>3, <3>4
  <2>6. CASE ~Eligible(t)
    <3>1. at' = [at EXCEPT !.te = at.te + 1] /\ seen' = seen
      BY <1>12, <2>4, <2>6 DEF VisitTimer
    <3>2. at.te + 1 \in Int /\ at.te + 1 >= 1
      BY <2>2
    <3>3. AtType'
      <4>1. at' \in Places
        BY <3>1, <3>2, PlaceUpdates DEF AtType
      <4>2. at'.pc = "timers" => at'.te >= 1
        BY <3>1, <3>2 DEF AtType, Places
      <4> QED
        BY <4>1, <4>2 DEF AtType
    <3> QED
      BY <2>1, <3>1, <3>3 DEF SeenType
  <2> QED
    BY <2>5, <2>6
<1>13. CASE EndTimers
  <2>1. EventsRight' /\ SeenType' /\ TimersType'
    BY <1>13 DEF EndTimers, EventsRight, SeenType, TimersType
  <2>2. at' = [at EXCEPT !.pc = "idle", !.ops = HandlerOps, !.te = 0, !.maxId = -1] /\ HandlerOps \in Int
    BY <1>13, BoundAssumption DEF EndTimers
  <2>3. AtType'
    <3>1. at' \in Places
      BY <2>2, PlaceUpdates DEF AtType
    <3>2. at'.pc = "timers" => at'.te >= 1
      BY <2>2 DEF AtType, Places
    <3> QED
      BY <3>1, <3>2 DEF AtType
  <2> QED
    BY <2>1, <2>3
<1>14. CASE Tick
  <2>1. EventsRight' /\ AtType' /\ SeenType' /\ timers' = timers
    BY <1>14 DEF Tick, EventsRight, AtType, SeenType
  <2>2. clock' \in Second..MaxClock
    BY <1>14, BoundAssumption, SecondAssumption DEF Tick, TimersType
  <2> QED
    BY <2>1, <2>2 DEF TimersType
<1>15. CASE SetBack
  <2>1. EventsRight' /\ AtType' /\ timers' = timers
    BY <1>15 DEF SetBack, EventsRight, AtType
  <2>2. SeenType'
    BY <1>15 DEF SetBack, SeenType
  <2>3. clock' \in Second..MaxClock
    BY <1>15, BoundAssumption, SecondAssumption DEF SetBack, TimersType
  <2> QED
    BY <2>1, <2>2, <2>3 DEF TimersType
<1>16. CASE UNCHANGED aeVars
  BY <1>16 DEF aeVars, EventsRight, AtType, TimersType, SeenType
<1>17. \A delay \in Delays : delay \in Nat
  BY BoundAssumption
<1> HIDE DEF LoopInv
<1> QED
  BY <1>1, <1>2, <1>3, <1>4, <1>5, <1>6, <1>7, <1>8, <1>9, <1>10, <1>11, <1>12, <1>13, <1>14, <1>15,
     <1>16, <1>17 DEF AeNext

\* maxfd is the greatest descriptor with an event, and the kernel watches exactly the
\* events that have a handler, whatever the handlers create and delete (ae.c:166-173).
THEOREM AeTypeCorrect == AeSpec => []AeTypeOK
<1>1. LoopInv => AeTypeOK
  BY LoopInvMeansType
<1> QED
  BY InitLoop, StepLoop, <1>1, PTL DEF AeSpec

\* epoll_wait is given the very time to the nearest timer while that is not overdue
\* (ae.c:389-400).
THEOREM SleepsToNearestCorrect == AeSpec => SleepsToNearest
<1> DEFINE P == Poll /\ timers.list # <<>> /\ Nearest >= clock => at'.until = Nearest
<1>1. LoopInv => [P]_aeVars
  <2> SUFFICES ASSUME LoopInv, Poll, timers.list # <<>>, Nearest >= clock
               PROVE  at'.until = Nearest
    OBVIOUS
  <2>1. at \in Places /\ TimersType /\ clock \in Nat
    BY BoundAssumption, SecondAssumption DEF LoopInv, AtType, TimersType
  <2>2. Nearest \in Nat
    BY <2>1, NearestType
  <2>3. PICK until : until = clock + Timeout(Nearest) /\ at' = [at EXCEPT !.pc = "wait", !.until = until]
    BY DEF Poll
  <2>4. at'.until = until
    BY <2>1, <2>3 DEF Places
  <2>5. clock + Timeout(Nearest) = Nearest
    BY <2>1, <2>2, TimeoutRight
  <2> QED
    BY <2>3, <2>4, <2>5
<1> QED
  BY InitLoop, StepLoop, <1>1, PTL DEF AeSpec, SleepsToNearest

-----------------------------------------------------------------------------
(* What has fired and was not deleted is served, and nothing else.         *)

\* The handler for the bit of the i-th descriptor is still to be called.
Owes(i, bit) ==
    /\ Wanted(i, bit)
    /\ ~(i = 1 /\ at.rfired /\ (bit = "readable" \/ at.fired[i].fd \in SharedFds))

\* Only an iteration that serves has a table of what has fired, each descriptor once.
\* What it owes is in the table, and what the table holds is owed or has been created
\* since epoll_wait returned.
ServeInv ==
    /\ at.pc # "fired" => at.fired = <<>>
    /\ OnceEach(at.fired)
    /\ \A p \in seen.owed : \E i \in 1..Len(at.fired) : at.fired[i].fd = p[1] /\ Owes(i, p[2])
    /\ \A i \in 1..Len(at.fired) : \A bit \in Bits :
         Owes(i, bit) => <<at.fired[i].fd, bit>> \in seen.owed \cup seen.fresh

LEMMA InitServe == AeInit => ServeInv
<1> SUFFICES ASSUME AeInit PROVE ServeInv
  OBVIOUS
<1>1. at.fired = <<>> /\ seen.owed = {} /\ Len(<<>>) = 0
  BY DEF AeInit
<1>2. 1..Len(at.fired) = {}
  BY <1>1
<1> QED
  BY <1>1, <1>2 DEF ServeInv, OnceEach

LEMMA QuietServe ==
    ASSUME ServeInv, at'.fired = at.fired, at'.rfired = at.rfired, ev'.mask = ev.mask,
           seen'.owed = seen.owed, seen'.fresh = seen.fresh, at'.pc # "fired" => at'.fired = <<>>
    PROVE  ServeInv'
<1>1. OnceEach(at.fired)'
  BY DEF ServeInv, OnceEach
<1>2. \A i, bit : Owes(i, bit)' <=> Owes(i, bit)
  BY DEF Owes, Wanted
<1> QED
  BY <1>1, <1>2 DEF ServeInv

LEMMA CreateServe ==
    ASSUME LoopInv, ServeInv, NEW fd \in Fds, NEW bits \in SUBSET Bits, CreateFileEvent(fd, bits)
    PROVE  ServeInv'
<1>1. /\ at \in Places /\ seen \in [owed : SUBSET Pair, fresh : SUBSET Pair, due : SUBSET Nat]
      /\ ev \in [setsize : Nat, maxfd : Int, mask : [Fds -> SUBSET Bits]]
  BY DEF LoopInv, AtType, SeenType, EventsRight
<1>2. at'.fired = at.fired /\ at'.rfired = at.rfired /\ at'.pc = at.pc
  BY <1>1 DEF CreateFileEvent, Acted, Places
<1>3. seen'.owed = seen.owed /\ seen'.fresh = seen.fresh \cup ({fd} \X bits)
  BY <1>1 DEF CreateFileEvent
<1>4. ev'.mask = [ev.mask EXCEPT ![fd] = @ \cup bits]
  BY <1>1 DEF CreateFileEvent
<1>5. at.fired \in Seq(Fired)
  BY <1>1 DEF Places
<1>6. \A i \in 1..Len(at.fired) : at.fired[i].fd \in Fds
  <2>1. \A i \in 1..Len(at.fired) : at.fired[i] \in Fired
    BY <1>5
  <2> QED
    BY <2>1 DEF Fired
<1>7. OnceEach(at.fired)'
  BY <1>2 DEF ServeInv, OnceEach
<1>8. \A i \in 1..Len(at.fired) : \A bit : Owes(i, bit) => Owes(i, bit)'
  BY <1>1, <1>2, <1>4, <1>6 DEF Owes, Wanted
<1>9. ASSUME NEW i \in 1..Len(at.fired), NEW bit \in Bits, Owes(i, bit)', ~Owes(i, bit)
      PROVE  <<at.fired[i].fd, bit>> \in {fd} \X bits
  BY <1>1, <1>2, <1>4, <1>6, <1>9 DEF Owes, Wanted
<1>10. \A p \in seen'.owed : \E i \in 1..Len(at'.fired) : at'.fired[i].fd = p[1] /\ Owes(i, p[2])'
  BY <1>2, <1>3, <1>8 DEF ServeInv
<1>11. ASSUME NEW i \in 1..Len(at'.fired), NEW bit \in Bits, Owes(i, bit)'
       PROVE  <<at'.fired[i].fd, bit>> \in seen'.owed \cup seen'.fresh
  <2>1. CASE Owes(i, bit)
    BY <1>2, <1>3, <2>1 DEF ServeInv
  <2>2. CASE ~Owes(i, bit)
    BY <1>2, <1>3, <1>9, <1>11, <2>2
  <2> QED
    BY <2>1, <2>2
<1> QED
  BY <1>2, <1>7, <1>10, <1>11 DEF ServeInv

LEMMA DeleteServe ==
    ASSUME LoopInv, ServeInv, NEW fd \in Fds, NEW bits, DeleteFileEvent(fd, bits)
    PROVE  ServeInv'
<1>1. /\ at \in Places /\ seen \in [owed : SUBSET Pair, fresh : SUBSET Pair, due : SUBSET Nat]
      /\ ev \in [setsize : Nat, maxfd : Int, mask : [Fds -> SUBSET Bits]]
  BY DEF LoopInv, AtType, SeenType, EventsRight
<1>2. at'.fired = at.fired /\ at'.rfired = at.rfired /\ at'.pc = at.pc
  BY <1>1 DEF DeleteFileEvent, Acted, Places
<1>3. seen'.owed = seen.owed \ ({fd} \X bits) /\ seen'.fresh = seen.fresh \ ({fd} \X bits)
  BY <1>1 DEF DeleteFileEvent
<1>4. ev'.mask = [ev.mask EXCEPT ![fd] = @ \ bits]
  BY <1>1 DEF DeleteFileEvent, Dropped
<1>5. at.fired \in Seq(Fired)
  BY <1>1 DEF Places
<1>6. \A i \in 1..Len(at.fired) : at.fired[i].fd \in Fds
  <2>1. \A i \in 1..Len(at.fired) : at.fired[i] \in Fired
    BY <1>5
  <2> QED
    BY <2>1 DEF Fired
<1>7. OnceEach(at.fired)'
  BY <1>2 DEF ServeInv, OnceEach
<1>8. \A i \in 1..Len(at.fired) : \A bit : Owes(i, bit)' <=> Owes(i, bit) /\ ~(at.fired[i].fd = fd /\ bit \in bits)
  BY <1>1, <1>2, <1>4, <1>6 DEF Owes, Wanted
<1>9. ASSUME NEW p \in seen'.owed
      PROVE  \E i \in 1..Len(at'.fired) : at'.fired[i].fd = p[1] /\ Owes(i, p[2])'
  <2>1. p \in seen.owed /\ p \in Pair /\ p \notin {fd} \X bits
    BY <1>1, <1>3
  <2>2. p = <<p[1], p[2]>>
    BY <2>1 DEF Pair
  <2>3. ~(p[1] = fd /\ p[2] \in bits)
    BY <2>1, <2>2
  <2>4. PICK i \in 1..Len(at.fired) : at.fired[i].fd = p[1] /\ Owes(i, p[2])
    BY <2>1 DEF ServeInv
  <2> QED
    BY <1>2, <1>8, <2>3, <2>4
<1>10. ASSUME NEW i \in 1..Len(at'.fired), NEW bit \in Bits, Owes(i, bit)'
       PROVE  <<at'.fired[i].fd, bit>> \in seen'.owed \cup seen'.fresh
  <2>1. i \in 1..Len(at.fired) /\ Owes(i, bit) /\ ~(at.fired[i].fd = fd /\ bit \in bits)
    BY <1>2, <1>8, <1>10
  <2>2. <<at.fired[i].fd, bit>> \in seen.owed \cup seen.fresh
    BY <2>1 DEF ServeInv
  <2> QED
    BY <1>2, <1>3, <2>1, <2>2
<1> QED
  BY <1>2, <1>7, <1>9, <1>10 DEF ServeInv

LEMMA PollServe ==
    ASSUME LoopInv, ServeInv, PollReturns
    PROVE  ServeInv'
<1>1. at \in Places /\ seen \in [owed : SUBSET Pair, fresh : SUBSET Pair, due : SUBSET Nat]
  BY DEF LoopInv, AtType, SeenType
<1>2. PICK f \in Seq(Fired), owed \in SUBSET Pair :
        /\ at' = [at EXCEPT !.pc = "fired", !.rfired = FALSE, !.until = 0, !.ops = 0, !.fired = f]
        /\ seen' = [seen EXCEPT !.owed = owed, !.fresh = {}]
        /\ OnceEach(f)
        /\ \A p \in owed : \E i \in 1..Len(f) : f[i].fd = p[1] /\ p[2] \in f[i].mask \cap ev.mask[f[i].fd]
        /\ \A i \in 1..Len(f) : \A bit \in f[i].mask \cap ev.mask[f[i].fd] : <<f[i].fd, bit>> \in owed
  BY PollRight DEF LoopInv
<1>3. at'.fired = f /\ at'.pc = "fired"
  BY <1>1, <1>2 DEF Places
<1>4. at'.rfired = FALSE
  BY <1>1, <1>2 DEF Places
<1>5. seen'.owed = owed /\ ev' = ev
  BY <1>1, <1>2 DEF PollReturns
<1>6. \A i, bit : Owes(i, bit)' <=> bit \in f[i].mask \cap ev.mask[f[i].fd]
  BY <1>3, <1>4, <1>5 DEF Owes, Wanted
<1>7. OnceEach(at.fired)'
  BY <1>2, <1>3 DEF OnceEach
<1> QED
  BY <1>2, <1>3, <1>5, <1>6, <1>7 DEF ServeInv

\* The loop is done with its first descriptor, which owes nothing more.
LEMMA TailServe ==
    ASSUME LoopInv, ServeInv, Len(at.fired) >= 1,
           Len(Tail(at.fired)) = Len(at.fired) - 1,
           \A i \in 1..Len(Tail(at.fired)) : Tail(at.fired)[i] = at.fired[i + 1],
           at'.fired = Tail(at.fired), at'.rfired = FALSE, at'.pc = "fired", ev' = ev,
           NEW served \in SUBSET Pair, \A p \in served : p[1] = at.fired[1].fd,
           seen'.owed = seen.owed \ served, seen'.fresh = seen.fresh,
           \A bit \in Bits : Owes(1, bit) => <<at.fired[1].fd, bit>> \in served
    PROVE  ServeInv'
<1> DEFINE f == at.fired
           g == Tail(at.fired)
<1>1. seen.owed \in SUBSET Pair /\ f \in Seq(Fired) /\ Len(f) \in Nat
  BY DEF LoopInv, SeenType, AtType, Places
<1>2. \A j \in 1..Len(g) : j + 1 \in 1..Len(f) /\ g[j] = f[j + 1] /\ j + 1 # 1
  BY <1>1
<1>3. \A i \in 1..Len(f) : i # 1 => i - 1 \in 1..Len(g) /\ g[i - 1] = f[i]
  <2> SUFFICES ASSUME NEW i \in 1..Len(f), i # 1 PROVE i - 1 \in 1..Len(g) /\ g[i - 1] = f[i]
    OBVIOUS
  <2>1. i - 1 \in 1..Len(g) /\ (i - 1) + 1 = i
    BY <1>1
  <2> QED
    BY <1>2, <2>1
<1>4. at'.fired = g /\ ev'.mask = ev.mask
  OBVIOUS
<1> HIDE DEF g
<1>5. \A i, j \in 1..Len(f) : f[i].fd = f[j].fd => i = j
  BY DEF ServeInv, OnceEach
<1>6. OnceEach(at.fired)'
  <2> SUFFICES ASSUME NEW i \in 1..Len(g), NEW j \in 1..Len(g), g[i].fd = g[j].fd PROVE i = j
    BY <1>4 DEF OnceEach
  <2>1. i + 1 = j + 1
    BY <1>2, <1>5
  <2> QED
    BY <2>1
<1>7. \A j \in 1..Len(g) : \A bit : Owes(j, bit)' <=> Owes(j + 1, bit)
  BY <1>2, <1>4 DEF Owes, Wanted
<1>8. ASSUME NEW p \in seen'.owed
      PROVE  \E j \in 1..Len(at'.fired) : at'.fired[j].fd = p[1] /\ Owes(j, p[2])'
  <2>1. p \in seen.owed /\ p \notin served /\ p \in Pair
    BY <1>1
  <2>2. PICK i \in 1..Len(f) : f[i].fd = p[1] /\ Owes(i, p[2])
    BY <2>1 DEF ServeInv
  <2>3. i # 1
    <3>1. p = <<p[1], p[2]>> /\ p[2] \in Bits
      BY <2>1 DEF Pair
    <3> QED
      BY <2>1, <2>2, <3>1
  <2>4. i - 1 \in 1..Len(g) /\ g[i - 1] = f[i]
    BY <1>3, <2>3
  <2>5. (i - 1) + 1 = i
    OBVIOUS
  <2>6. Owes(i - 1, p[2])'
    BY <1>7, <2>2, <2>4, <2>5
  <2> QED
    BY <1>4, <2>2, <2>4, <2>6
<1>9. ASSUME NEW j \in 1..Len(at'.fired), NEW bit \in Bits, Owes(j, bit)'
      PROVE  <<at'.fired[j].fd, bit>> \in seen'.owed \cup seen'.fresh
  <2>1. j + 1 \in 1..Len(f) /\ g[j] = f[j + 1] /\ j + 1 # 1 /\ Owes(j + 1, bit)
    BY <1>2, <1>4, <1>7, <1>9
  <2>2. <<f[j + 1].fd, bit>> \in seen.owed \cup seen.fresh
    BY <2>1 DEF ServeInv
  <2>3. f[j + 1].fd # f[1].fd
    <3>1. 1 \in 1..Len(f)
      BY <1>1
    <3> QED
      BY <1>5, <2>1, <3>1
  <2>4. <<f[j + 1].fd, bit>> \notin served
    BY <2>3
  <2> QED
    BY <1>4, <2>1, <2>2, <2>4
<1> QED
  BY <1>6, <1>8, <1>9 DEF ServeInv

LEMMA ReadableServe ==
    ASSUME LoopInv, ServeInv, Len(at.fired) >= 1, at.pc = "fired", ev' = ev,
           ~at.rfired, Wanted(1, "readable"), Enter(at.fired[1], "readable")
    PROVE  ServeInv'
<1> DEFINE f == at.fired
           fd == at.fired[1].fd
<1>1. at \in Places /\ seen \in [owed : SUBSET Pair, fresh : SUBSET Pair, due : SUBSET Nat]
  BY DEF LoopInv, AtType, SeenType
<1>2. at' = [at EXCEPT !.call = <<fd, "readable">>, !.ops = HandlerOps, !.rfired = TRUE, !.fired = @]
  BY Zenon DEF Enter
<1>3. at'.fired = f /\ at'.pc = "fired" /\ at'.rfired
  BY <1>1, <1>2 DEF Places
<1>4. PICK served : served = IF fd \in SharedFds THEN {fd} \X Bits ELSE {<<fd, "readable">>}
  OBVIOUS
<1>5. seen'.owed = seen.owed \ served /\ seen'.fresh = seen.fresh
  BY <1>1, <1>4 DEF Enter
<1> HIDE DEF fd
<1>6. \A i, j \in 1..Len(f) : f[i].fd = f[j].fd => i = j
  BY DEF ServeInv, OnceEach
<1>7. 1 \in 1..Len(f)
  BY <1>1 DEF Places
<1>8. \A i \in 1..Len(f) : \A bit : i # 1 => (Owes(i, bit)' <=> Owes(i, bit))
  BY <1>3 DEF Owes, Wanted
<1>9. \A bit : Owes(1, bit)' <=> Owes(1, bit) /\ bit # "readable" /\ fd \notin SharedFds
  BY <1>3 DEF Owes, Wanted, fd
<1>10. ASSUME NEW p \in seen'.owed
       PROVE  \E i \in 1..Len(at'.fired) : at'.fired[i].fd = p[1] /\ Owes(i, p[2])'
  <2>1. p \in seen.owed /\ p \notin served /\ p \in Pair
    BY <1>1, <1>5
  <2>2. PICK i \in 1..Len(f) : f[i].fd = p[1] /\ Owes(i, p[2])
    BY <2>1 DEF ServeInv
  <2>3. CASE i = 1
    <3>1. p = <<fd, p[2]>> /\ p[2] \in Bits
      BY <2>1, <2>2, <2>3 DEF Pair, fd
    <3>2. fd \notin SharedFds /\ p[2] # "readable"
      BY <1>4, <2>1, <3>1
    <3> QED
      BY <1>3, <1>9, <2>2, <2>3, <3>2
  <2>4. CASE i # 1
    BY <1>3, <1>8, <2>2, <2>4
  <2> QED
    BY <2>3, <2>4
<1>11. ASSUME NEW i \in 1..Len(at'.fired), NEW bit \in Bits, Owes(i, bit)'
       PROVE  <<at'.fired[i].fd, bit>> \in seen'.owed \cup seen'.fresh
  <2>1. i \in 1..Len(f) /\ Owes(i, bit)
    <3>1. CASE i = 1
      BY <1>3, <1>9, <1>11, <3>1
    <3>2. CASE i # 1
      BY <1>3, <1>8, <1>11, <3>2
    <3> QED
      BY <3>1, <3>2
  <2>2. <<f[i].fd, bit>> \in seen.owed \cup seen.fresh
    BY <2>1 DEF ServeInv
  <2>3. <<f[i].fd, bit>> \notin served
    <3>1. CASE i = 1
      <4>1. bit # "readable" /\ fd \notin SharedFds
        BY <1>9, <1>11, <3>1
      <4> QED
        BY <1>4, <4>1
    <3>2. CASE i # 1
      <4>1. f[i].fd # fd
        BY <1>6, <1>7, <2>1, <3>2 DEF fd
      <4> QED
        BY <1>4, <4>1
    <3> QED
      BY <3>1, <3>2
  <2> QED
    BY <1>3, <1>5, <2>2, <2>3
<1>12. OnceEach(at.fired)'
  BY <1>3 DEF ServeInv, OnceEach
<1> QED
  BY <1>3, <1>10, <1>11, <1>12 DEF ServeInv

LEMMA ServeServe ==
    ASSUME LoopInv, ServeInv, ServeFired
    PROVE  ServeInv'
<1>1. at \in Places /\ seen \in [owed : SUBSET Pair, fresh : SUBSET Pair, due : SUBSET Nat]
  BY DEF LoopInv, AtType, SeenType
<1>2. /\ at.pc = "fired" /\ Len(at.fired) >= 1 /\ Len(Tail(at.fired)) = Len(at.fired) - 1
      /\ \A i \in 1..Len(Tail(at.fired)) : Tail(at.fired)[i] = at.fired[i + 1]
      /\ \/ ~at.rfired /\ Wanted(1, "readable") /\ Enter(at.fired[1], "readable")
         \/ /\ at.rfired \/ ~Wanted(1, "readable")
            /\ Wanted(1, "writable") /\ ~(at.rfired /\ at.fired[1].fd \in SharedFds)
            /\ Enter(at.fired[1], "writable")
         \/ /\ at.rfired \/ ~Wanted(1, "readable")
            /\ ~Wanted(1, "writable") \/ (at.rfired /\ at.fired[1].fd \in SharedFds)
            /\ at' = [at EXCEPT !.fired = Tail(@), !.rfired = FALSE] /\ UNCHANGED seen
  BY ServeRight DEF LoopInv
<1>3. ev' = ev
  BY DEF ServeFired
<1> DEFINE fd == at.fired[1].fd
<1>4. ASSUME at.rfired \/ ~Wanted(1, "readable"),
             NEW bit \in Bits, Owes(1, bit)
      PROVE  bit = "writable" /\ Wanted(1, "writable") /\ ~(at.rfired /\ fd \in SharedFds)
  BY <1>4 DEF Owes, Bits
<1>5. at.fired[1] \in Fired
  BY ServeRight DEF LoopInv
<1>6. CASE ~at.rfired /\ Wanted(1, "readable") /\ Enter(at.fired[1], "readable")
  BY <1>2, <1>3, <1>6, ReadableServe
<1>7. CASE (at.rfired \/ ~Wanted(1, "readable")) /\ Enter(at.fired[1], "writable")
  <2>1. at' = [at EXCEPT !.call = <<fd, "writable">>, !.ops = HandlerOps, !.rfired = FALSE,
                         !.fired = Tail(at.fired)]
    <3>1. ("writable" = "readable") = FALSE
      OBVIOUS
    <3> QED
      BY <1>7, <3>1, Zenon DEF Enter
  <2>2. at'.fired = Tail(at.fired) /\ at'.pc = "fired"
    BY <1>1, <1>2, <2>1 DEF Places
  <2>3. at'.rfired = FALSE
    BY <1>1, <2>1 DEF Places
  <2>4. PICK served \in SUBSET Pair :
          served = IF fd \in SharedFds THEN {fd} \X Bits ELSE {<<fd, "writable">>}
    <3>1. fd \in Fds /\ "writable" \in Bits
      BY <1>5, BitsAre DEF Fired
    <3>2. {fd} \X Bits \in SUBSET Pair /\ {<<fd, "writable">>} \in SUBSET Pair
      BY <3>1 DEF Pair
    <3> QED
      BY <3>2
  <2>5. seen'.owed = seen.owed \ served /\ seen'.fresh = seen.fresh
    BY <1>1, <1>7, <2>4 DEF Enter
  <2>6. \A p \in served : p[1] = fd
    BY <2>4
  <2>7. \A bit \in Bits : Owes(1, bit) => <<fd, bit>> \in served
    BY <1>4, <1>7, <2>4
  <2> QED
    BY <1>2, <1>3, <2>2, <2>3, <2>5, <2>6, <2>7, TailServe
<1>8. CASE /\ at.rfired \/ ~Wanted(1, "readable")
           /\ ~Wanted(1, "writable") \/ (at.rfired /\ at.fired[1].fd \in SharedFds)
           /\ at' = [at EXCEPT !.fired = Tail(@), !.rfired = FALSE] /\ UNCHANGED seen
  <2>1. at'.fired = Tail(at.fired) /\ at'.pc = "fired"
    BY <1>1, <1>2, <1>8 DEF Places
  <2>2. at'.rfired = FALSE
    BY <1>1, <1>8 DEF Places
  <2>3. PICK served \in SUBSET Pair : served = {}
    OBVIOUS
  <2>4. seen'.owed = seen.owed \ served /\ seen'.fresh = seen.fresh
    BY <1>8, <2>3
  <2>5. \A bit \in Bits : Owes(1, bit) => <<fd, bit>> \in served
    BY <1>4, <1>8
  <2>6. \A p \in served : p[1] = fd
    BY <2>3
  <2> QED
    BY <1>2, <1>3, <2>1, <2>2, <2>4, <2>5, <2>6, TailServe
<1> QED
  BY <1>2, <1>6, <1>7, <1>8

LEMMA StepServe == LoopInv /\ ServeInv /\ [AeNext]_aeVars => ServeInv'
<1> SUFFICES ASSUME LoopInv, ServeInv, [AeNext]_aeVars PROVE ServeInv'
  OBVIOUS
<1>1. at \in Places /\ seen \in [owed : SUBSET Pair, fresh : SUBSET Pair, due : SUBSET Nat]
  BY DEF LoopInv, AtType, SeenType
<1>2. at.pc # "fired" => at.fired = <<>>
  BY DEF ServeInv
<1>3. ASSUME NEW fd \in Fds, NEW bits \in (SUBSET Asked[fd]) \ {{}}, CreateFileEvent(fd, bits)
      PROVE  ServeInv'
  <2>1. Asked[fd] \in SUBSET Bits /\ bits \in SUBSET Asked[fd]
    BY AskedAssumption
  <2> QED
    BY <1>3, <2>1, CreateServe
<1>4. ASSUME NEW fd \in Fds, NEW bits, DeleteFileEvent(fd, bits)
      PROVE  ServeInv'
  BY <1>4, DeleteServe
<1>5. ASSUME NEW n \in ToSet(SetSizes), ResizeSetSize(n)
      PROVE  ServeInv'
  <2>1. ev'.mask = ev.mask
    BY <1>5, ResizeEvents
  <2>2. /\ at'.fired = at.fired /\ at'.rfired = at.rfired /\ at'.pc = at.pc
        /\ seen'.owed = seen.owed /\ seen'.fresh = seen.fresh
    BY <1>1, <1>5 DEF ResizeSetSize, Acted, Places
  <2> QED
    BY <1>2, <2>1, <2>2, QuietServe
<1>6. ASSUME NEW delay, CreateTimeEvent(delay)
      PROVE  ServeInv'
  <2>1. /\ at'.fired = at.fired /\ at'.rfired = at.rfired /\ at'.pc = at.pc
        /\ seen'.owed = seen.owed /\ seen'.fresh = seen.fresh /\ ev'.mask = ev.mask
    BY <1>1, <1>6 DEF CreateTimeEvent, Acted, Places
  <2> QED
    BY <1>2, <2>1, QuietServe
<1>7. ASSUME NEW delay, TimerReturns(delay)
      PROVE  ServeInv'
  <2>1. /\ at'.fired = at.fired /\ at'.rfired = at.rfired /\ at'.pc = at.pc
        /\ seen'.owed = seen.owed /\ seen'.fresh = seen.fresh /\ ev'.mask = ev.mask
    BY <1>1, <1>7 DEF TimerReturns, Places
  <2> QED
    BY <1>2, <2>1, QuietServe
<1>8. ASSUME NEW id, DeleteTimeEvent(id)
      PROVE  ServeInv'
  <2>1. /\ at'.fired = at.fired /\ at'.rfired = at.rfired /\ at'.pc = at.pc
        /\ seen'.owed = seen.owed /\ seen'.fresh = seen.fresh /\ ev'.mask = ev.mask
    BY <1>1, <1>8 DEF DeleteTimeEvent, Acted, Places
  <2> QED
    BY <1>2, <2>1, QuietServe
<1>9. CASE Poll
  <2>1. /\ at'.fired = at.fired /\ at'.rfired = at.rfired /\ at.pc = "idle" /\ at'.pc = "wait"
        /\ seen'.owed = seen.owed /\ seen'.fresh = seen.fresh /\ ev'.mask = ev.mask
    BY <1>1, <1>9 DEF Poll, Places
  <2> QED
    BY <1>2, <2>1, QuietServe
<1>10. CASE PollReturns
  BY <1>10, PollServe
<1>11. CASE ServeFired
  BY <1>11, ServeServe
<1>12. CASE HandlerReturns
  <2>1. /\ at'.fired = at.fired /\ at'.rfired = at.rfired /\ at'.pc = at.pc
        /\ seen'.owed = seen.owed /\ seen'.fresh = seen.fresh /\ ev'.mask = ev.mask
    BY <1>1, <1>12 DEF HandlerReturns, Places
  <2> QED
    BY <1>2, <2>1, QuietServe
<1>13. CASE BeginTimers
  <2>1. at'.fired = <<>> /\ at.fired = <<>> /\ at'.rfired = at.rfired /\ ev'.mask = ev.mask
    BY <1>1, <1>13 DEF BeginTimers, Places
  <2>2. seen'.owed = seen.owed
    BY <1>1, <1>13 DEF BeginTimers
  <2>3. 1..Len(at.fired) = {} /\ 1..Len(at'.fired) = {}
    BY <2>1
  <2> QED
    BY <2>1, <2>2, <2>3 DEF ServeInv, OnceEach
<1>14. CASE VisitTimer
  <2>1. /\ at'.fired = at.fired /\ at'.rfired = at.rfired /\ at'.pc = at.pc
        /\ seen'.owed = seen.owed /\ seen'.fresh = seen.fresh /\ ev'.mask = ev.mask
    BY <1>1, <1>14 DEF VisitTimer, Places
  <2> QED
    BY <1>2, <2>1, QuietServe
<1>15. CASE EndTimers
  <2>1. /\ at'.fired = at.fired /\ at'.rfired = at.rfired /\ at.pc = "timers"
        /\ seen'.owed = seen.owed /\ seen'.fresh = seen.fresh /\ ev'.mask = ev.mask
    BY <1>1, <1>15 DEF EndTimers, Places
  <2> QED
    BY <1>2, <2>1, QuietServe
<1>16. CASE Tick \/ SetBack \/ UNCHANGED aeVars
  <2>1. /\ at' = at /\ seen'.owed = seen.owed /\ seen'.fresh = seen.fresh /\ ev' = ev
    BY <1>1, <1>16 DEF Tick, SetBack, aeVars
  <2> QED
    BY <1>2, <2>1, QuietServe
<1> QED
  BY <1>3, <1>4, <1>5, <1>6, <1>7, <1>8, <1>9, <1>10, <1>11, <1>12, <1>13, <1>14, <1>15, <1>16 DEF AeNext

\* Only the loop over what has fired calls a handler while there is something fired.
LEMMA CallIsServed ==
    ASSUME LoopInv, AeNext, at.pc = "fired", at'.call # at.call, at'.call # NoCall
    PROVE  ServeFired
<1>1. at \in Places
  BY DEF LoopInv, AtType
<1>2. ~Poll /\ ~PollReturns /\ ~VisitTimer /\ ~EndTimers
  BY DEF Poll, PollReturns, VisitTimer, EndTimers
<1>3. ~HandlerReturns
  BY <1>1 DEF HandlerReturns, Places
<1>4. ~BeginTimers
  BY <1>1 DEF BeginTimers, Places
<1>5. ~Acted
  BY <1>1 DEF Acted, Places
<1>6. at' # at
  OBVIOUS
<1>7. \A delay : ~TimerReturns(delay)
  BY DEF TimerReturns
<1> QED
  BY <1>2, <1>3, <1>4, <1>5, <1>6, <1>7
     DEF AeNext, CreateFileEvent, DeleteFileEvent, ResizeSetSize, CreateTimeEvent, DeleteTimeEvent,
         Tick, SetBack

\* A handler is called for what has fired and was not deleted, or was created since, and
\* nothing that was owed is left when the timers' turn comes (ae.c:418-436).
THEOREM ServedWhatFiredCorrect == AeSpec => ServedWhatFired
<1> DEFINE P == at.pc = "fired" /\ at'.call # at.call /\ at'.call # NoCall
                  => at'.call \in seen.owed \cup seen.fresh
           Q == at.pc = "timers" => seen.owed = {}
<1>1. LoopInv /\ ServeInv /\ [AeNext]_aeVars => [P]_aeVars
  <2> SUFFICES ASSUME LoopInv, ServeInv, AeNext, at.pc = "fired", at'.call # at.call, at'.call # NoCall
               PROVE  at'.call \in seen.owed \cup seen.fresh
    BY DEF aeVars
  <2>1. at \in Places
    BY DEF LoopInv, AtType
  <2>2. ServeFired
    BY CallIsServed
  <2>3. /\ Len(at.fired) >= 1
        /\ \/ ~at.rfired /\ Wanted(1, "readable") /\ Enter(at.fired[1], "readable")
           \/ /\ at.rfired \/ ~Wanted(1, "readable")
              /\ Wanted(1, "writable") /\ ~(at.rfired /\ at.fired[1].fd \in SharedFds)
              /\ Enter(at.fired[1], "writable")
           \/ at' = [at EXCEPT !.fired = Tail(@), !.rfired = FALSE]
    BY <2>2, ServeRight DEF LoopInv
  <2>4. at' # [at EXCEPT !.fired = Tail(@), !.rfired = FALSE]
    BY <2>1 DEF Places
  <2>5. PICK bit \in Bits : Owes(1, bit) /\ Enter(at.fired[1], bit)
    BY <2>3, <2>4, BitsAre DEF Owes
  <2>6. at'.call = <<at.fired[1].fd, bit>>
    BY <2>1, <2>5 DEF Enter, Places
  <2>7. 1 \in 1..Len(at.fired)
    BY <2>1, <2>3 DEF Places
  <2> QED
    BY <2>5, <2>6, <2>7 DEF ServeInv
<1>2. ServeInv => Q
  <2> SUFFICES ASSUME ServeInv, at.pc = "timers" PROVE seen.owed = {}
    OBVIOUS
  <2>1. at.fired = <<>>
    BY DEF ServeInv
  <2>2. 1..Len(at.fired) = {}
    BY <2>1
  <2> QED
    BY <2>2 DEF ServeInv
<1> QED
  BY InitLoop, StepLoop, InitServe, StepServe, <1>1, <1>2, PTL DEF AeSpec, ServedWhatFired

-----------------------------------------------------------------------------
(* A pass calls every timer that was due when it began.                    *)

\* The timer is ahead in the list, or anywhere while a handler runs, after which the
\* list is walked from its head.
Ahead(id) == \E i \in 1..Len(timers.list) :
    /\ timers.list[i].id = id /\ Eligible(timers.list[i])
    /\ at.call = NoCall => i >= at.te

DueInv ==
    /\ \A i \in 1..Len(timers.list) : timers.list[i].id < timers.nextId
    /\ at.pc # "timers" => seen.due = {}
    /\ \A id \in seen.due : Ahead(id)
    /\ at.pc = "timers" /\ at.call # NoCall
         => \E id \in Nat : at.call = <<id>> /\ id \notin seen.due /\ id <= at.maxId

LEMMA DueMeansRun == DueInv => DueTimersRun
<1> SUFFICES ASSUME DueInv PROVE DueTimersRun
  OBVIOUS
<1>1. at.pc = "idle" => seen.due = {}
  BY DEF DueInv
<1>2. ASSUME at.pc = "timers", Len(at.call) = 1
      PROVE  at.call[1] <= at.maxId
  <2>1. at.call # NoCall
    <3>1. Len(<<>>) = 0
      OBVIOUS
    <3> QED
      BY <1>2, <3>1 DEF NoCall
  <2>2. PICK id \in Nat : at.call = <<id>> /\ id <= at.maxId
    BY <1>2, <2>1 DEF DueInv
  <2> QED
    BY <2>2
<1> QED
  BY <1>1, <1>2 DEF DueTimersRun

LEMMA InitDue == AeInit => DueInv
<1> SUFFICES ASSUME AeInit PROVE DueInv
  OBVIOUS
<1>1. timers.list = <<>> /\ seen.due = {} /\ at.pc = "idle"
  BY DEF AeInit
<1>2. 1..Len(timers.list) = {}
  BY <1>1
<1> QED
  BY <1>1, <1>2 DEF DueInv

LEMMA QuietDue ==
    ASSUME DueInv, timers' = timers, clock' = clock, seen'.due = seen.due, at'.pc = at.pc,
           at'.call = at.call, at'.te = at.te, at'.maxId = at.maxId
    PROVE  DueInv'
<1>1. \A id : Ahead(id)' <=> Ahead(id)
  BY DEF Ahead, Eligible
<1> QED
  BY <1>1 DEF DueInv

\* Outside a pass nothing is due, whatever happens to the list.
LEMMA IdleDue ==
    ASSUME at'.pc # "timers", seen'.due = {},
           \A i \in 1..Len(timers'.list) : timers'.list[i].id < timers'.nextId
    PROVE  DueInv'
  BY DEF DueInv

LEMMA CreateDue ==
    ASSUME LoopInv, DueInv, NEW delay \in Nat, CreateTimeEvent(delay)
    PROVE  DueInv'
<1>1. /\ at \in Places /\ seen \in [owed : SUBSET Pair, fresh : SUBSET Pair, due : SUBSET Nat]
      /\ timers \in [list : Seq(Timer), nextId : Nat, lastTime : Nat]
  BY DEF LoopInv, AtType, SeenType, TimersType
<1>2. /\ timers'.nextId = timers.nextId + 1
      /\ \A i \in 1..Len(timers.list) : \E j \in 1..Len(timers'.list) : timers'.list[j] = timers.list[i]
      /\ \A j \in 1..Len(timers'.list) : \/ timers'.list[j].id = timers.nextId
                                         \/ \E i \in 1..Len(timers.list) : timers'.list[j] = timers.list[i]
  BY CreateList DEF LoopInv
<1>3. /\ at'.pc = at.pc /\ at'.call = at.call /\ at'.te = at.te /\ at'.maxId = at.maxId
      /\ at.call # NoCall \/ at.pc = "idle"
  BY <1>1 DEF CreateTimeEvent, Acted, MayAct, Places
<1>4. seen' = seen /\ clock' = clock
  BY DEF CreateTimeEvent
<1>5. ASSUME NEW j \in 1..Len(timers'.list)
      PROVE  timers'.list[j].id < timers'.nextId
  <2>1. CASE timers'.list[j].id = timers.nextId
    BY <1>1, <1>2, <2>1
  <2>2. CASE \E i \in 1..Len(timers.list) : timers'.list[j] = timers.list[i]
    <3>1. PICK i \in 1..Len(timers.list) : timers'.list[j] = timers.list[i]
      BY <2>2
    <3>2. timers.list[i].id < timers.nextId
      BY DEF DueInv
    <3>3. timers.list[i].id \in Nat /\ timers.nextId \in Nat
      <4>1. timers.list[i] \in Timer
        BY <1>1
      <4> QED
        BY <1>1, <4>1 DEF Timer
    <3> QED
      BY <1>2, <3>1, <3>2, <3>3
  <2> QED
    BY <1>2, <2>1, <2>2
<1>6. CASE at.call = NoCall
  <2>1. at'.pc # "timers" /\ seen'.due = {}
    BY <1>3, <1>4, <1>6 DEF DueInv
  <2> QED
    BY <1>5, <2>1, IdleDue
<1>7. CASE at.call # NoCall
  <2>1. ASSUME NEW id \in seen.due PROVE Ahead(id)'
    <3>1. PICK i \in 1..Len(timers.list) : timers.list[i].id = id /\ Eligible(timers.list[i])
      BY DEF DueInv, Ahead
    <3>2. PICK j \in 1..Len(timers'.list) : timers'.list[j] = timers.list[i]
      BY <1>2
    <3> QED
      BY <1>3, <1>4, <1>7, <3>1, <3>2 DEF Ahead, Eligible
  <2> QED
    BY <1>3, <1>4, <1>5, <2>1 DEF DueInv
<1> QED
  BY <1>6, <1>7

\* Nothing that is due is lost with another timer.
LEMMA KeptAhead ==
    ASSUME NEW gone, KeepsOthers(timers.list, timers'.list, gone), clock' = clock,
           at'.maxId = at.maxId, at'.call # NoCall \/ at'.te = 1,
           NEW id, id # gone, Ahead(id)
    PROVE  Ahead(id)'
<1>1. PICK i \in 1..Len(timers.list) : timers.list[i].id = id /\ Eligible(timers.list[i])
  BY DEF Ahead
<1>2. PICK j \in 1..Len(timers'.list) : timers'.list[j] = timers.list[i]
  BY <1>1 DEF KeepsOthers
<1>3. j >= 1
  OBVIOUS
<1> QED
  BY <1>1, <1>2, <1>3 DEF Ahead, Eligible

LEMMA KeptIds ==
    ASSUME NEW gone, DueInv, KeepsOthers(timers.list, timers'.list, gone), timers'.nextId = timers.nextId
    PROVE  \A i \in 1..Len(timers'.list) : timers'.list[i].id < timers'.nextId
  BY DEF KeepsOthers, DueInv

LEMMA DeleteDue ==
    ASSUME LoopInv, DueInv, NEW id, DeleteTimeEvent(id)
    PROVE  DueInv'
<1>1. at \in Places /\ seen \in [owed : SUBSET Pair, fresh : SUBSET Pair, due : SUBSET Nat]
  BY DEF LoopInv, AtType, SeenType
<1>2. timers'.nextId = timers.nextId /\ KeepsOthers(timers.list, timers'.list, id)
  BY DeleteList DEF LoopInv
<1>3. /\ at'.pc = at.pc /\ at'.call = at.call /\ at'.te = at.te /\ at'.maxId = at.maxId
      /\ at.call # NoCall \/ at.pc = "idle"
  BY <1>1 DEF DeleteTimeEvent, Acted, MayAct, Places
<1>4. seen'.due = seen.due \ {id} /\ clock' = clock
  BY <1>1 DEF DeleteTimeEvent
<1>5. \A i \in 1..Len(timers'.list) : timers'.list[i].id < timers'.nextId
  BY <1>2, KeptIds
<1>6. CASE at.call = NoCall
  <2>1. at'.pc # "timers" /\ seen'.due = {}
    BY <1>3, <1>4, <1>6 DEF DueInv
  <2> QED
    BY <1>5, <2>1, IdleDue
<1>7. CASE at.call # NoCall
  <2>1. ASSUME NEW d \in seen'.due PROVE Ahead(d)'
    <3>1. d # id /\ Ahead(d)
      BY <1>4 DEF DueInv
    <3> QED
      BY <1>2, <1>3, <1>4, <1>7, <3>1, KeptAhead
  <2> QED
    BY <1>3, <1>4, <1>5, <2>1 DEF DueInv
<1> QED
  BY <1>6, <1>7

LEMMA ReturnDue ==
    ASSUME LoopInv, DueInv, NEW delay \in Nat, TimerReturns(delay)
    PROVE  DueInv'
<1>1. at \in Places
  BY DEF LoopInv, AtType
<1>2. timers'.nextId = timers.nextId /\ KeepsOthers(timers.list, timers'.list, at.call[1])
  BY ReturnList DEF LoopInv
<1>3. at'.pc = at.pc /\ at'.call = NoCall /\ at'.te = 1 /\ at'.maxId = at.maxId
  BY <1>1 DEF TimerReturns, Restart, Places
<1>4. seen' = seen /\ clock' = clock /\ at.pc = "timers" /\ at.call # NoCall
  BY DEF TimerReturns
<1>5. \A i \in 1..Len(timers'.list) : timers'.list[i].id < timers'.nextId
  BY <1>2, KeptIds
<1>6. at.call[1] \notin seen.due
  <2>1. PICK id \in Nat : at.call = <<id>> /\ id \notin seen.due
    BY <1>4 DEF DueInv
  <2> QED
    BY <2>1
<1>7. ASSUME NEW id \in seen'.due PROVE Ahead(id)'
  <2>1. Ahead(id) /\ id # at.call[1]
    BY <1>4, <1>6 DEF DueInv
  <2> QED
    BY <1>2, <1>3, <1>4, <2>1, KeptAhead
<1> QED
  BY <1>3, <1>4, <1>5, <1>7 DEF DueInv

LEMMA BeginDue ==
    ASSUME LoopInv, DueInv, BeginTimers
    PROVE  DueInv'
<1>1. /\ at \in Places /\ seen \in [owed : SUBSET Pair, fresh : SUBSET Pair, due : SUBSET Nat]
      /\ timers \in [list : Seq(Timer), nextId : Nat, lastTime : Nat]
  BY DEF LoopInv, AtType, SeenType, TimersType
<1>2. /\ timers'.nextId = timers.nextId /\ Len(timers'.list) = Len(timers.list)
      /\ \A i \in 1..Len(timers.list) : timers'.list[i].id = timers.list[i].id
  BY BeginList DEF LoopInv
<1>7. PICK back \in BOOLEAN :
        /\ back => \A i \in 1..Len(timers'.list) : timers'.list[i].when <= clock
        /\ seen' = [seen EXCEPT !.due = DueOf(timers'.list, back)]
  BY BeginList DEF LoopInv
<1>3. timers'.list \in Seq(Timer)
  BY BeginList DEF LoopInv, TimersType
<1>4. /\ at'.pc = "timers" /\ at'.call = NoCall /\ at'.te = 1 /\ at'.maxId = timers.nextId - 1
      /\ clock' = clock
  BY <1>1 DEF BeginTimers, Places
<1>5. \A i \in 1..Len(timers'.list) : timers'.list[i].id < timers'.nextId
  BY <1>2 DEF DueInv
<1>6. ASSUME NEW id \in seen'.due PROVE Ahead(id)'
  <2>1. id \in DueOf(timers'.list, back)
    BY <1>1, <1>7
  <2>6. PICK i \in DOMAIN timers'.list : timers'.list[i].id = id /\ (back \/ timers'.list[i].when <= clock)
    BY <2>1 DEF ToSet, DueOf
  <2>7. i \in 1..Len(timers'.list)
    BY <1>3
  <2>2. timers'.list[i].id = id /\ timers'.list[i].when <= clock
    BY <1>7, <2>6, <2>7
  <2>3. i \in 1..Len(timers'.list) /\ i >= 1 /\ timers'.list[i] \in Timer
    BY <1>3
  <2>4. timers'.list[i].id < timers.nextId
    BY <1>2, <1>5, <2>3
  <2>5. timers'.list[i].id <= at'.maxId
    BY <1>1, <1>4, <2>3, <2>4 DEF Timer
  <2> QED
    BY <1>4, <2>2, <2>3, <2>5 DEF Ahead, Eligible
<1> QED
  BY <1>4, <1>5, <1>6 DEF DueInv

LEMMA VisitDue ==
    ASSUME LoopInv, DueInv, VisitTimer
    PROVE  DueInv'
<1>1. /\ at \in Places /\ seen \in [owed : SUBSET Pair, fresh : SUBSET Pair, due : SUBSET Nat]
      /\ timers.list \in Seq(Timer)
  BY DEF LoopInv, AtType, SeenType, TimersType
<1>2. /\ at.pc = "timers" /\ at.te \in Int /\ at.te >= 1 /\ at.te <= Len(timers.list)
      /\ timers' = timers /\ clock' = clock /\ at.call = NoCall
  BY DEF VisitTimer, LoopInv, AtType, Places
<1>3. PICK t \in Timer : t = timers.list[at.te]
  <2>1. at.te \in 1..Len(timers.list)
    BY <1>1, <1>2
  <2> QED
    BY <1>1, <2>1
<1>4. CASE Eligible(t)
  <2>1. at' = [at EXCEPT !.call = <<t.id>>, !.ops = HandlerOps] /\ seen' = [seen EXCEPT !.due = @ \ {t.id}]
    BY <1>3, <1>4 DEF VisitTimer
  <2>2. at'.call = <<t.id>> /\ at'.te = at.te /\ at'.maxId = at.maxId /\ at'.pc = "timers"
    BY <1>1, <1>2, <2>1 DEF Places
  <2>3. seen'.due = seen.due \ {t.id}
    BY <1>1, <2>1
  <2>4. at'.call # NoCall
    BY <2>2 DEF NoCall
  <2>5. \A id \in seen'.due : Ahead(id)'
    BY <1>2, <2>2, <2>3, <2>4 DEF DueInv, Ahead, Eligible
  <2>6. t.id \in Nat /\ t.id <= at'.maxId /\ t.id \notin seen'.due
    BY <1>4, <2>2, <2>3 DEF Timer, Eligible
  <2> QED
    BY <1>2, <2>2, <2>5, <2>6 DEF DueInv
<1>5. CASE ~Eligible(t)
  <2>1. at' = [at EXCEPT !.te = at.te + 1] /\ seen' = seen
    BY <1>3, <1>5 DEF VisitTimer
  <2>2. at'.call = NoCall /\ at'.te = at.te + 1 /\ at'.maxId = at.maxId /\ at'.pc = "timers"
    BY <1>1, <1>2, <2>1 DEF Places
  <2>3. ASSUME NEW id \in seen.due PROVE Ahead(id)'
    <3>1. PICK i \in 1..Len(timers.list) :
            timers.list[i].id = id /\ Eligible(timers.list[i]) /\ i >= at.te
      BY <1>2 DEF DueInv, Ahead
    <3>2. i # at.te
      BY <1>3, <1>5, <3>1
    <3>3. i >= at'.te
      BY <1>2, <2>2, <3>1, <3>2
    <3> QED
      BY <1>2, <2>2, <3>1, <3>3 DEF Ahead, Eligible
  <2> QED
    BY <1>2, <2>1, <2>2, <2>3 DEF DueInv
<1> QED
  BY <1>4, <1>5

LEMMA StepDue == LoopInv /\ DueInv /\ [AeNext]_aeVars => DueInv'
<1> SUFFICES ASSUME LoopInv, DueInv, [AeNext]_aeVars PROVE DueInv'
  OBVIOUS
<1>1. /\ at \in Places /\ seen \in [owed : SUBSET Pair, fresh : SUBSET Pair, due : SUBSET Nat]
      /\ timers \in [list : Seq(Timer), nextId : Nat, lastTime : Nat]
  BY DEF LoopInv, AtType, SeenType, TimersType
<1>2. \A i \in 1..Len(timers.list) : timers.list[i].id < timers.nextId
  BY DEF DueInv
<1>3. ASSUME \E fd \in Fds : \E bits : CreateFileEvent(fd, bits) \/ DeleteFileEvent(fd, bits)
      PROVE  DueInv'
  <2>1. /\ at'.pc = at.pc /\ at'.call = at.call /\ at'.te = at.te /\ at'.maxId = at.maxId
        /\ seen'.due = seen.due /\ timers' = timers /\ clock' = clock
    BY <1>1, <1>3 DEF CreateFileEvent, DeleteFileEvent, Acted, Places
  <2> QED
    BY <2>1, QuietDue
<1>4. ASSUME NEW n, ResizeSetSize(n)
      PROVE  DueInv'
  <2>1. /\ at'.pc = at.pc /\ at'.call = at.call /\ at'.te = at.te /\ at'.maxId = at.maxId
        /\ seen'.due = seen.due /\ timers' = timers /\ clock' = clock
    BY <1>1, <1>4 DEF ResizeSetSize, Acted, Places
  <2> QED
    BY <2>1, QuietDue
<1>5. ASSUME NEW delay \in Nat, CreateTimeEvent(delay) \/ TimerReturns(delay)
      PROVE  DueInv'
  BY <1>5, CreateDue, ReturnDue
<1>6. ASSUME NEW id, DeleteTimeEvent(id)
      PROVE  DueInv'
  BY <1>6, DeleteDue
<1>7. CASE Poll
  <2>1. at'.pc # "timers" /\ seen'.due = {} /\ timers' = timers
    BY <1>1, <1>7 DEF Poll, DueInv, Places
  <2> QED
    BY <1>2, <2>1, IdleDue
<1>8. CASE PollReturns
  <2>1. at.pc = "wait" /\ timers' = timers
    BY <1>8 DEF PollReturns
  <2>2. \E f, owed : /\ at' = [at EXCEPT !.pc = "fired", !.rfired = FALSE, !.until = 0, !.ops = 0, !.fired = f]
                     /\ seen' = [seen EXCEPT !.owed = owed, !.fresh = {}]
    BY <1>8, PollRight DEF LoopInv
  <2>3. at'.pc # "timers" /\ seen'.due = {}
    BY <1>1, <2>1, <2>2 DEF DueInv, Places
  <2> QED
    BY <1>2, <2>1, <2>3, IdleDue
<1>9. CASE ServeFired
  <2>1. at.pc = "fired" /\ timers' = timers
    BY <1>9 DEF ServeFired
  <2>2. at'.pc = at.pc /\ seen'.due = seen.due
    BY <1>1, <1>9 DEF ServeFired, Enter, Places
  <2>3. at'.pc # "timers" /\ seen'.due = {}
    BY <2>1, <2>2 DEF DueInv
  <2> QED
    BY <1>2, <2>1, <2>3, IdleDue
<1>10. CASE HandlerReturns
  <2>1. at'.pc # "timers" /\ seen'.due = {} /\ timers' = timers
    BY <1>1, <1>10 DEF HandlerReturns, DueInv, Places
  <2> QED
    BY <1>2, <2>1, IdleDue
<1>11. CASE BeginTimers
  BY <1>11, BeginDue
<1>12. CASE VisitTimer
  BY <1>12, VisitDue
<1>13. CASE EndTimers
  <2>1. at'.pc # "timers" /\ seen' = seen /\ timers' = timers
    BY <1>1, <1>13 DEF EndTimers, Places
  <2>2. at.te \in Int /\ at.te > Len(timers.list) /\ at.call = NoCall /\ Len(timers.list) \in Nat
    BY <1>1, <1>13 DEF EndTimers, Places
  <2>3. \A id \in seen.due : FALSE
    BY <2>2 DEF DueInv, Ahead
  <2> QED
    BY <1>2, <2>1, <2>3, IdleDue
<1>14. CASE Tick
  <2>1. clock \in Nat /\ clock' = clock + 1 /\ timers' = timers /\ at' = at /\ seen' = seen
    BY <1>14, BoundAssumption, SecondAssumption DEF Tick, LoopInv, TimersType
  <2>2. \A i \in 1..Len(timers.list) : Eligible(timers.list[i]) => Eligible(timers.list[i])'
    <3> SUFFICES ASSUME NEW i \in 1..Len(timers.list), Eligible(timers.list[i])
                 PROVE  Eligible(timers.list[i])'
      OBVIOUS
    <3>1. timers.list[i] \in Timer
      BY <1>1
    <3>2. timers.list[i].when \in Nat
      BY <3>1 DEF Timer
    <3> QED
      BY <2>1, <3>2 DEF Eligible
  <2>3. \A id : Ahead(id) => Ahead(id)'
    BY <2>1, <2>2 DEF Ahead
  <2> QED
    BY <2>1, <2>3 DEF DueInv
<1>15. CASE SetBack
  <2>1. seen'.due = {} /\ at' = at /\ timers' = timers
    BY <1>1, <1>15 DEF SetBack
  <2> QED
    BY <2>1 DEF DueInv
<1>16. CASE UNCHANGED aeVars
  <2>1. timers' = timers /\ clock' = clock /\ seen' = seen /\ at' = at
    BY <1>16 DEF aeVars
  <2> QED
    BY <2>1, QuietDue
<1>17. \A delay \in Delays : delay \in Nat
  BY BoundAssumption
<1> QED
  BY <1>3, <1>4, <1>5, <1>6, <1>7, <1>8, <1>9, <1>10, <1>11, <1>12, <1>13, <1>14, <1>15, <1>16, <1>17
     DEF AeNext

\* Nothing that was due when the pass began is left at its end, and no timer is called
\* that was created since (ae.c:321-330).
THEOREM DueTimersRunCorrect == AeSpec => []DueTimersRun
  BY InitLoop, StepLoop, InitDue, StepDue, DueMeansRun, PTL DEF AeSpec
=============================================================================
