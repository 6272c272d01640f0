--------------------------- MODULE Processes_proofs ---------------------------
(***************************************************************************)
(* Theorems about what master and workers share.  The account of used      *)
(* memory (Zmalloc) is right for any number of threads, blocks and calls   *)
(* and every size: the library defines a sum by recursion over the set of  *)
(* its summands, so that the first part is about such sums.  Start and     *)
(* shutdown (Shutdown) are in order for every number of workers and of     *)
(* reactor threads, and any number of interrupts, failing forks and dying  *)
(* workers.                                                                *)
(***************************************************************************)
EXTENDS Shutdown, Zmalloc, FiniteSetTheorems, WellFoundedInduction, TLAPS

-----------------------------------------------------------------------------
(* Sums over a finite set: what changing one summand does to SumFunction.  *)

\* Induction over the subsets of a finite set.
LEMMA SubsetInduction ==
    ASSUME NEW S, IsFiniteSet(S), NEW P \in SUBSET SUBSET S,
           \A T \in SUBSET S : (\A U \in SUBSET T : U # T => U \in P) => T \in P
    PROVE  P = SUBSET S
<1> DEFINE R == StrictSubsetOrdering(S)
           Bad == (SUBSET S) \ P
<1> SUFFICES ASSUME Bad # {} PROVE FALSE
  OBVIOUS
<1>1. IsWellFoundedOn(R, SUBSET S)
  <2>1. FiniteSubsetsOf(S) = SUBSET S
    BY FS_FiniteSubsetsOfFinite
  <2>2. IsWellFoundedOn(R, FiniteSubsetsOf(S))
    BY FS_StrictSubsetOrderingWellFounded
  <2> QED
    BY <2>1, <2>2
<1>2. PICK T \in Bad : \A U \in Bad : ~(<<U, T>> \in R)
  <2>1. Bad \subseteq SUBSET S
    OBVIOUS
  <2> HIDE DEF Bad, R
  <2> QED
    BY <1>1, <2>1, WFMin
<1>3. T \in SUBSET S /\ T \notin P
  OBVIOUS
<1>4. ASSUME NEW U \in SUBSET T, U # T PROVE U \in P
  <2>1. U \in SUBSET S
    BY <1>3
  <2>2. <<U, T>> \in R
    BY <1>3, <1>4, <2>1 DEF StrictSubsetOrdering
  <2> QED
    BY <1>2, <2>1, <2>2
<1> QED
  BY <1>3, <1>4

Pick(s) == CHOOSE x \in s : TRUE

LEMMA Picked ==
    ASSUME NEW s, s # {}
    PROVE  Pick(s) \in s /\ s \ {Pick(s)} \in SUBSET s /\ s \ {Pick(s)} # s
<1>1. \E x \in s : TRUE
  OBVIOUS
<1>2. Pick(s) \in s
  BY <1>1 DEF Pick
<1> QED
  BY <1>2

\* g follows the definition of the sum of f over the subsets of S.
Sums(f, S, g) ==
    \A s \in SUBSET S : g[s] = IF s = {} THEN 0 ELSE f[Pick(s)] + g[s \ {Pick(s)}]

LEMMA SumsUnique ==
    ASSUME NEW W, IsFiniteSet(W), NEW S, NEW T, W \in SUBSET S, W \in SUBSET T,
           NEW f, NEW g, NEW h, Sums(f, S, g), Sums(f, T, h)
    PROVE  g[W] = h[W]
<1> DEFINE P == {U \in SUBSET W : g[U] = h[U]}
<1>1. ASSUME NEW U \in SUBSET W, \A V \in SUBSET U : V # U => V \in P
      PROVE  U \in P
  <2>1. U \in SUBSET S /\ U \in SUBSET T
    OBVIOUS
  <2>2. CASE U = {}
    BY <2>1, <2>2 DEF Sums
  <2>3. CASE U # {}
    <3> DEFINE V == U \ {Pick(U)}
    <3>1. V \in SUBSET U /\ V # U
      BY <2>3, Picked
    <3>2. g[V] = h[V]
      <4> HIDE DEF V
      <4> QED
        BY <1>1, <3>1
    <3>3. g[U] = f[Pick(U)] + g[V] /\ h[U] = f[Pick(U)] + h[V]
      BY <2>1, <2>3 DEF Sums
    <3> HIDE DEF V
    <3> QED
      BY <3>2, <3>3
  <2> QED
    BY <2>2, <2>3
<1>2. P = SUBSET W
  <2>1. P \in SUBSET SUBSET W
    OBVIOUS
  <2> HIDE DEF P
  <2> QED
    BY <1>1, <2>1, SubsetInduction
<1> QED
  BY <1>2

LEMMA SumsExist ==
    ASSUME NEW S, IsFiniteSet(S), NEW f, \A x \in S : f[x] \in Int
    PROVE  \E g \in [SUBSET S -> Int] : Sums(f, S, g)
<1> DEFINE Good(T, g) == g \in [SUBSET T -> Int] /\ Sums(f, T, g)
           P == {T \in SUBSET S : \E g : Good(T, g)}
           Of(T) == CHOOSE g : Good(T, g)
<1>1. ASSUME NEW T \in SUBSET S, \A U \in SUBSET T : U # T => U \in P
      PROVE  T \in P
  <2>1. ASSUME NEW U \in SUBSET T, U # T PROVE Good(U, Of(U))
    <3>1. \E g : Good(U, g)
      BY <1>1, <2>1
    <3> HIDE DEF Good
    <3> QED
      BY <3>1
  <2>2. \A U \in SUBSET T : U # T => Of(U) \in [SUBSET U -> Int] /\ Sums(f, U, Of(U))
    BY <2>1
  <2> HIDE DEF Of
  <2> DEFINE v(s) == IF s = {} THEN 0 ELSE f[Pick(s)] + Of(s \ {Pick(s)})[s \ {Pick(s)}]
             g == [s \in SUBSET T |-> v(s)]
  <2>3. ASSUME NEW s \in SUBSET T, s # {}
        PROVE  LET w == s \ {Pick(s)}
               IN w \in SUBSET T /\ w # T /\ Of(w)[w] \in Int /\ f[Pick(s)] \in Int
    <3> DEFINE w == s \ {Pick(s)}
    <3>1. Pick(s) \in s /\ w \in SUBSET s /\ w # s
      BY <2>3, Picked
    <3>2. w \in SUBSET T /\ w # T
      BY <3>1
    <3> HIDE DEF w
    <3>3. Of(w) \in [SUBSET w -> Int] /\ w \in SUBSET w
      BY <2>2, <3>2
    <3>4. Of(w)[w] \in Int
      BY <3>3
    <3> QED
      BY <3>1, <3>2, <3>4 DEF w
  <2>4. g \in [SUBSET T -> Int]
    <3>1. \A s \in SUBSET T : v(s) \in Int
      BY <2>3
    <3> HIDE DEF v
    <3> QED
      BY <3>1
  <2>5. ASSUME NEW s \in SUBSET T, s # {}
        PROVE  g[s] = f[Pick(s)] + g[s \ {Pick(s)}]
    <3> DEFINE w == s \ {Pick(s)}
    <3>1. w \in SUBSET T /\ w # T
      BY <2>3, <2>5
    <3>2. g[s] = f[Pick(s)] + Of(w)[w]
      BY <2>5
    <3> HIDE DEF w
    <3>3. g[w] = v(w)
      BY <3>1
    <3>4. Sums(f, w, Of(w))
      BY <2>2, <3>1
    <3>5. v(w) = Of(w)[w]
      <4>1. w \in SUBSET w
        OBVIOUS
      <4>2. CASE w = {}
        BY <3>4, <4>1, <4>2 DEF Sums
      <4>3. CASE w # {}
        <5> DEFINE u == w \ {Pick(w)}
        <5>1. Of(w)[w] = f[Pick(w)] + Of(w)[u]
          BY <3>4, <4>1, <4>3 DEF Sums
        <5>2. u \in SUBSET T /\ u # T /\ u \in SUBSET w
          BY <2>3, <3>1, <4>3
        <5>3. v(w) = f[Pick(w)] + Of(u)[u]
          BY <4>3
        <5> HIDE DEF u, v
        <5>4. Sums(f, u, Of(u)) /\ IsFiniteSet(u) /\ u \in SUBSET u
          BY <2>2, <5>2, FS_Subset
        <5>5. Of(w)[u] = Of(u)[u]
          BY <3>4, <5>2, <5>4, SumsUnique
        <5> QED
          BY <5>1, <5>3, <5>5
      <4> QED
        BY <4>2, <4>3
    <3>6. g[s] = f[Pick(s)] + g[w]
      <4> HIDE DEF g, v
      <4> QED
        BY <3>2, <3>3, <3>5
    <3> QED
      BY <3>6 DEF w
  <2>6. g[{}] = 0
    OBVIOUS
  <2>7. Sums(f, T, g)
    <3> HIDE DEF g
    <3> QED
      BY <2>5, <2>6 DEF Sums
  <2> HIDE DEF g
  <2> QED
    BY <2>4, <2>7
<1>2. P = SUBSET S
  <2>1. P \in SUBSET SUBSET S
    OBVIOUS
  <2> HIDE DEF P
  <2> QED
    BY <1>1, <2>1, SubsetInduction
<1>3. S \in P
  BY <1>2
<1> QED
  BY <1>3
-----------------------------------------------------------------------------

\* The library's sum is a function that follows the definition.
LEMMA SumRight ==
    ASSUME NEW S, IsFiniteSet(S), NEW f \in [S -> Int]
    PROVE  \E g \in [SUBSET S -> Int] : Sums(f, S, g) /\ SumFunction(f) = g[S]
<1> DEFINE it == CHOOSE it : it = [s \in SUBSET S |-> IF s = {} THEN 0
                                    ELSE f[CHOOSE x \in s : TRUE] + it[s \ {CHOOSE x \in s : TRUE}]]
<1>1. SumFunction(f) = it[S]
  <2>1. DOMAIN f = S
    OBVIOUS
  <2> QED
    BY <2>1 DEF SumFunction, SumFunctionOnSet, FoldFunctionOnSet, MapThenFoldSet
<1>2. PICK g \in [SUBSET S -> Int] : Sums(f, S, g)
  BY SumsExist
<1>3. g = [s \in SUBSET S |-> IF s = {} THEN 0
             ELSE f[CHOOSE x \in s : TRUE] + g[s \ {CHOOSE x \in s : TRUE}]]
  BY <1>2 DEF Sums, Pick
<1>4. it = [s \in SUBSET S |-> IF s = {} THEN 0
             ELSE f[CHOOSE x \in s : TRUE] + it[s \ {CHOOSE x \in s : TRUE}]]
  BY <1>3
<1>5. Sums(f, S, it)
  <2> HIDE DEF it
  <2> QED
    BY <1>4 DEF Sums, Pick
<1>6. it[S] = g[S]
  <2> HIDE DEF it
  <2>1. S \in SUBSET S
    OBVIOUS
  <2> QED
    BY <1>2, <1>5, <2>1, SumsUnique
<1> QED
  <2> HIDE DEF it
  <2> QED
    BY <1>1, <1>2, <1>6

LEMMA SumInt ==
    ASSUME NEW S, IsFiniteSet(S), NEW f \in [S -> Int]
    PROVE  SumFunction(f) \in Int
<1>1. PICK g \in [SUBSET S -> Int] : Sums(f, S, g) /\ SumFunction(f) = g[S]
  BY SumRight
<1>2. S \in SUBSET S
  OBVIOUS
<1> QED
  BY <1>1, <1>2

LEMMA SumZero ==
    ASSUME NEW S, IsFiniteSet(S), NEW f \in [S -> Int], \A x \in S : f[x] = 0
    PROVE  SumFunction(f) = 0
<1>1. PICK g \in [SUBSET S -> Int] : Sums(f, S, g) /\ SumFunction(f) = g[S]
  BY SumRight
<1> DEFINE P == {T \in SUBSET S : g[T] = 0}
<1>2. ASSUME NEW T \in SUBSET S, \A U \in SUBSET T : U # T => U \in P
      PROVE  T \in P
  <2>1. CASE T = {}
    BY <1>1, <2>1 DEF Sums
  <2>2. CASE T # {}
    <3> DEFINE U == T \ {Pick(T)}
    <3>1. Pick(T) \in T /\ U \in SUBSET T /\ U # T
      BY <2>2, Picked
    <3>2. g[T] = f[Pick(T)] + g[U]
      BY <1>1, <2>2 DEF Sums
    <3> HIDE DEF U
    <3>3. g[U] = 0
      BY <1>2, <3>1
    <3>4. f[Pick(T)] = 0
      BY <3>1
    <3> QED
      BY <3>2, <3>3, <3>4
  <2> QED
    BY <2>1, <2>2
<1>3. P = SUBSET S
  <2>1. P \in SUBSET SUBSET S
    OBVIOUS
  <2> HIDE DEF P
  <2> QED
    BY <1>2, <2>1, SubsetInduction
<1> QED
  <2>1. S \in P
    BY <1>3
  <2> QED
    BY <1>1, <2>1

\* One summand changes.
LEMMA SumChange ==
    ASSUME NEW S, IsFiniteSet(S), NEW e \in [S -> Int], NEW f \in [S -> Int], NEW y \in S,
           \A x \in S \ {y} : f[x] = e[x]
    PROVE  SumFunction(f) = SumFunction(e) - e[y] + f[y]
<1>1. PICK g \in [SUBSET S -> Int] : Sums(e, S, g) /\ SumFunction(e) = g[S]
  BY SumRight
<1>2. PICK h \in [SUBSET S -> Int] : Sums(f, S, h) /\ SumFunction(f) = h[S]
  BY SumRight
<1> DEFINE P == {T \in SUBSET S : h[T] = IF y \in T THEN g[T] - e[y] + f[y] ELSE g[T]}
<1>3. ASSUME NEW T \in SUBSET S, \A U \in SUBSET T : U # T => U \in P
      PROVE  T \in P
  <2>1. CASE T = {}
    BY <1>1, <1>2, <2>1 DEF Sums
  <2>2. CASE T # {}
    <3> DEFINE U == T \ {Pick(T)}
               z == Pick(T)
    <3>1. z \in T /\ U \in SUBSET T /\ U # T
      BY <2>2, Picked
    <3>2. g[T] = e[z] + g[U] /\ h[T] = f[z] + h[U]
      BY <1>1, <1>2, <2>2 DEF Sums
    <3>3. y \in U <=> y \in T /\ y # z
      OBVIOUS
    <3> HIDE DEF U, z
    <3>4. U \in P
      BY <1>3, <3>1
    <3>5. h[U] = IF y \in U THEN g[U] - e[y] + f[y] ELSE g[U]
      BY <3>4
    <3>6. g[U] \in Int /\ e[z] \in Int /\ f[z] \in Int /\ e[y] \in Int /\ f[y] \in Int
      BY <3>1
    <3>7. z # y => f[z] = e[z]
      BY <3>1
    <3>8. h[T] = IF y \in T THEN g[T] - e[y] + f[y] ELSE g[T]
      BY <3>1, <3>2, <3>3, <3>5, <3>6, <3>7
    <3> QED
      BY <3>8
  <2> QED
    BY <2>1, <2>2
<1>4. P = SUBSET S
  <2>1. P \in SUBSET SUBSET S
    OBVIOUS
  <2> HIDE DEF P
  <2> QED
    BY <1>3, <2>1, SubsetInduction
<1> QED
  <2>1. S \in P
    BY <1>4
  <2>2. h[S] = g[S] - e[y] + f[y]
    BY <2>1
  <2> QED
    BY <1>1, <1>2, <2>2

-----------------------------------------------------------------------------
(* The account.                                                            *)

\* A header more is a word more.
LEMMA RoundedPlusWord ==
    ASSUME NEW n \in Nat
    PROVE  Rounded(n) \in Int /\ Rounded(n + Word) = Rounded(n) + Word
<1> DEFINE w == Word
           a == n \div w
           b == (n + w) \div w
           c == n % w
           d == (n + w) % w
<1>0. w \in Nat \ {0}
  BY ZmallocAssumption
<1> HIDE DEF w
<1>1. n = w * a + c /\ n + w = w * b + d
  BY <1>0
<1>2. a \in Int /\ b \in Int /\ c \in 0..(w - 1) /\ d \in 0..(w - 1)
  BY <1>0
<1>3. Rounded(n) = IF c = 0 THEN n ELSE n + w - c
  BY DEF Rounded, w
<1>4. Rounded(n + Word) = IF d = 0 THEN n + w ELSE n + w + w - d
  BY DEF Rounded, w
<1> HIDE DEF a, b, c, d
<1>5. w * (a + 1) = w * a + w /\ a + 1 \in Int
  BY <1>0, <1>2
<1>6. ~(b < a + 1)
  <2>1. SUFFICES ASSUME b < a + 1 PROVE w * b + w <= w * (a + 1)
    BY <1>0, <1>1, <1>2, <1>5
  <2> QED
    BY <1>0, <1>2, <2>1
<1>7. ~(a + 1 < b)
  <2>1. SUFFICES ASSUME a + 1 < b PROVE w * (a + 1) + w <= w * b
    BY <1>0, <1>1, <1>2, <1>5
  <2> QED
    BY <1>0, <1>2, <2>1
<1>8. b = a + 1
  BY <1>2, <1>6, <1>7
<1>9. c = d
  BY <1>0, <1>1, <1>2, <1>5, <1>8
<1> QED
  BY <1>0, <1>2, <1>3, <1>4, <1>9 DEF w

\* The updates a call leaves: none, one or two.
Updates == {<<>>} \cup {<<m>> : m \in Int} \cup {<<m, n>> : m \in Int, n \in Int}
Due(s) == IF s = <<>> THEN 0 ELSE IF Len(s) = 1 THEN s[1] ELSE s[1] + s[2]

ZmallocType ==
    /\ used_memory \in Int /\ overlapped \in BOOLEAN
    /\ header \in [Blocks -> Nat \cup {None}]
    /\ todo \in [Users -> Updates]
    /\ loaded \in [Users -> {<<>>} \cup {<<n>> : n \in Int}]
    /\ \A t \in Users : loaded[t] # <<>> => todo[t] # <<>>

\* A thread that has loaded used_memory is alone, and the value is still that.
LoadedRight == ~overlapped =>
    \A t \in Users : loaded[t] # <<>> =>
        loaded[t] = <<used_memory>> /\ \A o \in Users : loaded[o] # <<>> => o = t

SizeOf(h) == IF h = None THEN 0 ELSE Rounded(h) + PREFIX_SIZE
Sizes == [b \in Blocks |-> SizeOf(header[b])]
Dues == [t \in Users |-> Due(todo[t])]

\* What is counted and what is still to be counted are the sizes of the blocks.
Balanced == ~overlapped => used_memory + SumFunction(Dues) = SumFunction(Sizes)

AccountInv == ZmallocType /\ LoadedRight /\ Balanced

LEMMA DueOf ==
    ASSUME NEW s \in Updates
    PROVE  /\ Due(s) \in Int
           /\ s # <<>> => /\ Head(s) \in Int /\ Tail(s) \in Updates
                          /\ Due(s) = Head(s) + Due(Tail(s))
<1>1. CASE s = <<>>
  BY <1>1 DEF Due
<1>2. CASE \E m \in Int : s = <<m>>
  <2>1. PICK m \in Int : s = <<m>>
    BY <1>2
  <2>2. Len(s) = 1 /\ s[1] = m /\ Head(s) = m /\ Tail(s) = <<>> /\ s # <<>>
    BY <2>1
  <2>3. Due(s) = m /\ Due(Tail(s)) = 0
    BY <2>2 DEF Due
  <2>4. Tail(s) \in Updates
    BY <2>2 DEF Updates
  <2> QED
    BY <2>2, <2>3, <2>4
<1>3. CASE \E m \in Int, n \in Int : s = <<m, n>>
  <2>1. PICK m \in Int, n \in Int : s = <<m, n>>
    BY <1>3
  <2>2. Len(s) = 2 /\ s[1] = m /\ s[2] = n /\ Head(s) = m /\ Tail(s) = <<n>> /\ s # <<>>
    BY <2>1
  <2>3. Len(<<n>>) = 1 /\ <<n>>[1] = n /\ <<n>> # <<>>
    OBVIOUS
  <2>4. Due(s) = m + n /\ Due(Tail(s)) = n
    BY <2>2, <2>3 DEF Due
  <2>5. Tail(s) \in Updates
    BY <2>2 DEF Updates
  <2> QED
    BY <2>2, <2>4, <2>5
<1> QED
  BY <1>1, <1>2, <1>3 DEF Updates

LEMMA SizeOfInt ==
    ASSUME NEW h \in Nat \cup {None}
    PROVE  SizeOf(h) \in Int
BY RoundedPlusWord, ZmallocAssumption DEF SizeOf, PREFIX_SIZE, None

LEMMA AccountInit == ZmallocInit => AccountInv
<1> SUFFICES ASSUME ZmallocInit PROVE AccountInv
  OBVIOUS
<1>1. ZmallocType
  <2>1. <<>> \in Updates
    BY DEF Updates
  <2>2. used_memory \in Int /\ overlapped \in BOOLEAN /\ header \in [Blocks -> Nat \cup {None}]
    <3>1. used_memory \in Int /\ header \in [Blocks -> Nat \cup {None}]
      BY DEF ZmallocInit
    <3>2. overlapped \in BOOLEAN
      BY Zenon DEF ZmallocInit
    <3> QED
      BY <3>1, <3>2
  <2>3. todo \in [Users -> Updates]
    BY <2>1 DEF ZmallocInit
  <2>4. /\ loaded \in [Users -> {<<>>} \cup {<<n>> : n \in Int}]
        /\ \A t \in Users : loaded[t] = <<>>
    <3>1. <<>> \in {<<>>} \cup {<<n>> : n \in Int}
      OBVIOUS
    <3> QED
      BY <3>1 DEF ZmallocInit
  <2> QED
    BY <2>2, <2>3, <2>4 DEF ZmallocType
<1>2. LoadedRight
  BY DEF ZmallocInit, LoadedRight
<1>3. SumFunction(Dues) = 0
  <2>1. Dues \in [Users -> Int] /\ \A t \in Users : Dues[t] = 0
    BY DEF ZmallocInit, Dues, Due
  <2> QED
    BY <2>1, SumZero, ZmallocAssumption
<1>4. SumFunction(Sizes) = 0
  <2>1. Sizes \in [Blocks -> Int] /\ \A b \in Blocks : Sizes[b] = 0
    BY DEF ZmallocInit, Sizes, SizeOf
  <2> QED
    BY <2>1, SumZero, ZmallocAssumption
<1>5. Balanced
  BY <1>3, <1>4 DEF ZmallocInit, Balanced
<1> QED
  BY <1>1, <1>2, <1>5 DEF AccountInv

LEMMA SumsTyped ==
    ASSUME ZmallocType
    PROVE  Dues \in [Users -> Int] /\ Sizes \in [Blocks -> Int]
BY DueOf, SizeOfInt DEF ZmallocType, Dues, Sizes

\* A call changes one block and leaves updates that are what its size changes by.
LEMMA CallBalanced ==
    ASSUME AccountInv, NEW t \in Users, NEW b \in Blocks, NEW h \in Nat \cup {None},
           NEW u \in Updates, Call(t, b, h, u), Due(u) = SizeOf(h) - SizeOf(header[b])
    PROVE  AccountInv'
<1>1. ZmallocType'
  BY DEF AccountInv, ZmallocType, Call
<1>2. LoadedRight'
  BY DEF AccountInv, LoadedRight, Call
<1>3. Dues \in [Users -> Int] /\ Sizes \in [Blocks -> Int]
  BY SumsTyped DEF AccountInv
<1>4. Dues' \in [Users -> Int] /\ Sizes' \in [Blocks -> Int]
  BY <1>1, DueOf, SizeOfInt DEF ZmallocType, Dues, Sizes
<1>5. SumFunction(Dues') = SumFunction(Dues) - Dues[t] + Dues'[t]
  <2>1. \A o \in Users \ {t} : Dues'[o] = Dues[o]
    BY DEF AccountInv, ZmallocType, Call, Dues
  <2> QED
    BY <1>3, <1>4, <2>1, SumChange, ZmallocAssumption
<1>6. SumFunction(Sizes') = SumFunction(Sizes) - Sizes[b] + Sizes'[b]
  <2>1. \A x \in Blocks \ {b} : Sizes'[x] = Sizes[x]
    BY DEF AccountInv, ZmallocType, Call, Sizes
  <2> QED
    BY <1>3, <1>4, <2>1, SumChange, ZmallocAssumption
<1>7. Dues[t] = 0 /\ Dues'[t] = Due(u)
  BY DEF AccountInv, ZmallocType, Call, Dues, Due
<1>8. Sizes[b] = SizeOf(header[b]) /\ Sizes'[b] = SizeOf(h)
  BY DEF AccountInv, ZmallocType, Call, Sizes
<1>9. /\ SumFunction(Dues) \in Int /\ SumFunction(Sizes) \in Int
      /\ SizeOf(header[b]) \in Int /\ SizeOf(h) \in Int
  BY <1>3, <1>8, SumInt, SizeOfInt, ZmallocAssumption
<1>10. Balanced'
  <2>1. SUFFICES ASSUME ~overlapped' PROVE used_memory' + SumFunction(Dues') = SumFunction(Sizes')
    BY DEF Balanced
  <2>2. used_memory' = used_memory /\ used_memory \in Int
    BY DEF Call, AccountInv, ZmallocType
  <2>3. used_memory + SumFunction(Dues) = SumFunction(Sizes)
    BY <2>1 DEF Call, AccountInv, Balanced
  <2> QED
    BY <1>5, <1>6, <1>7, <1>8, <1>9, <2>2, <2>3
<1> QED
  BY <1>1, <1>2, <1>10 DEF AccountInv

LEMMA AllocateBalanced ==
    ASSUME AccountInv, NEW t \in Users, NEW b \in Blocks, NEW n \in 1..MaxSize, Allocate(t, b, n)
    PROVE  AccountInv'
<1> DEFINE u == <<Rounded(n + PREFIX_SIZE)>>
<1>1. n \in Nat /\ n # None
  BY ZmallocAssumption DEF None
<1>2. Rounded(n) \in Int /\ Rounded(n + Word) = Rounded(n) + Word /\ Word \in Nat
  BY <1>1, RoundedPlusWord, ZmallocAssumption
<1>3. u \in Updates /\ Due(u) = Rounded(n) + Word
  BY <1>2 DEF Updates, Due, PREFIX_SIZE
<1>4. Due(u) = SizeOf(n) - SizeOf(header[b])
  BY <1>1, <1>2, <1>3 DEF Allocate, SizeOf, PREFIX_SIZE
<1>5. Call(t, b, n, u)
  BY DEF Allocate
<1> HIDE DEF u
<1> QED
  BY <1>1, <1>3, <1>4, <1>5, CallBalanced

LEMMA ReallocateBalanced ==
    ASSUME AccountInv, NEW t \in Users, NEW b \in Blocks, NEW n \in 1..MaxSize, Reallocate(t, b, n)
    PROVE  AccountInv'
<1> DEFINE u == <<-Rounded(header[b]), Rounded(n)>>
<1>1. n \in Nat /\ n # None /\ header[b] \in Nat /\ header[b] # None
  BY ZmallocAssumption DEF None, Reallocate, AccountInv, ZmallocType
<1>2. Rounded(n) \in Int /\ Rounded(header[b]) \in Int /\ Word \in Nat
  BY <1>1, RoundedPlusWord, ZmallocAssumption
<1>3. u \in Updates /\ Due(u) = Rounded(n) - Rounded(header[b])
  BY <1>2 DEF Updates, Due
<1>4. Due(u) = SizeOf(n) - SizeOf(header[b])
  BY <1>1, <1>2, <1>3 DEF SizeOf, PREFIX_SIZE
<1>5. Call(t, b, n, u)
  BY DEF Reallocate
<1> HIDE DEF u
<1> QED
  BY <1>1, <1>3, <1>4, <1>5, CallBalanced

LEMMA FreeBalanced ==
    ASSUME AccountInv, NEW t \in Users, NEW b \in Blocks, Free(t, b)
    PROVE  AccountInv'
<1> DEFINE u == <<-Rounded(header[b] + PREFIX_SIZE)>>
<1>1. header[b] \in Nat /\ header[b] # None
  BY DEF None, Free, AccountInv, ZmallocType
<1>2. Rounded(header[b]) \in Int /\ Rounded(header[b] + Word) = Rounded(header[b]) + Word /\ Word \in Nat
  BY <1>1, RoundedPlusWord, ZmallocAssumption
<1>3. u \in Updates /\ Due(u) = -(Rounded(header[b]) + Word)
  BY <1>2 DEF Updates, Due, PREFIX_SIZE
<1>4. Due(u) = SizeOf(None) - SizeOf(header[b])
  BY <1>1, <1>2, <1>3 DEF SizeOf, PREFIX_SIZE
<1>5. Call(t, b, None, u) /\ None \in Nat \cup {None}
  BY DEF Free
<1> HIDE DEF u
<1> QED
  BY <1>3, <1>4, <1>5, CallBalanced

LEMMA LoadBalanced ==
    ASSUME AccountInv, NEW t \in Users, Load(t)
    PROVE  AccountInv'
<1>1. ZmallocType'
  BY DEF AccountInv, ZmallocType, Load
<1>2. LoadedRight'
  BY DEF AccountInv, ZmallocType, LoadedRight, Load
<1>3. Dues' = Dues /\ Sizes' = Sizes
  BY DEF Load, Dues, Sizes
<1>4. Balanced'
  BY <1>3 DEF AccountInv, ZmallocType, Balanced, Load
<1> QED
  BY <1>1, <1>2, <1>4 DEF AccountInv

LEMMA StoreBalanced ==
    ASSUME AccountInv, NEW t \in Users, Store(t)
    PROVE  AccountInv'
<1>1. /\ todo[t] # <<>> /\ todo[t] \in Updates
      /\ Head(todo[t]) \in Int /\ Tail(todo[t]) \in Updates
      /\ Due(todo[t]) = Head(todo[t]) + Due(Tail(todo[t]))
  BY DueOf DEF AccountInv, ZmallocType, Store
<1>2. Head(loaded[t]) \in Int
  BY DEF AccountInv, ZmallocType, Store
<1>3. ZmallocType'
  BY <1>1, <1>2 DEF AccountInv, ZmallocType, Store
<1>4. LoadedRight'
  BY DEF AccountInv, ZmallocType, LoadedRight, Store
<1>5. Dues \in [Users -> Int] /\ Sizes \in [Blocks -> Int] /\ Sizes' = Sizes
  BY SumsTyped DEF AccountInv, Store, Sizes
<1>6. Dues' \in [Users -> Int]
  BY <1>3, DueOf DEF ZmallocType, Dues
<1>7. SumFunction(Dues') = SumFunction(Dues) - Dues[t] + Dues'[t]
  <2>1. \A o \in Users \ {t} : Dues'[o] = Dues[o]
    BY DEF AccountInv, ZmallocType, Store, Dues
  <2> QED
    BY <1>5, <1>6, <2>1, SumChange, ZmallocAssumption
<1>8. Dues[t] = Due(todo[t]) /\ Dues'[t] = Due(Tail(todo[t]))
  BY DEF AccountInv, ZmallocType, Store, Dues
<1>9. SumFunction(Dues) \in Int /\ Due(Tail(todo[t])) \in Int
  BY <1>1, <1>5, SumInt, DueOf, ZmallocAssumption
<1>10. Balanced'
  <2>1. SUFFICES ASSUME ~overlapped' PROVE used_memory' + SumFunction(Dues') = SumFunction(Sizes')
    BY DEF Balanced
  <2>2. ~overlapped /\ used_memory \in Int
    BY <2>1 DEF Store, AccountInv, ZmallocType
  <2>3. Head(loaded[t]) = used_memory
    BY <2>2 DEF Store, AccountInv, LoadedRight
  <2>4. used_memory' = used_memory + Head(todo[t])
    BY <2>3 DEF Store
  <2>5. used_memory + SumFunction(Dues) = SumFunction(Sizes)
    BY <2>2 DEF AccountInv, Balanced
  <2> QED
    BY <1>1, <1>5, <1>7, <1>8, <1>9, <2>2, <2>4, <2>5
<1> QED
  BY <1>3, <1>4, <1>10 DEF AccountInv

LEMMA AccountStep == AccountInv /\ [ZmallocNext]_zmallocVars => AccountInv'
<1> SUFFICES ASSUME AccountInv, [ZmallocNext]_zmallocVars PROVE AccountInv'
  OBVIOUS
<1>1. ASSUME NEW t \in Users, Load(t) PROVE AccountInv'
  BY <1>1, LoadBalanced
<1>2. ASSUME NEW t \in Users, Store(t) PROVE AccountInv'
  BY <1>2, StoreBalanced
<1>3. ASSUME NEW t \in Users, NEW b \in Blocks, Free(t, b) PROVE AccountInv'
  BY <1>3, FreeBalanced
<1>4. ASSUME NEW t \in Users, NEW b \in Blocks, NEW n \in 1..MaxSize, Allocate(t, b, n)
      PROVE  AccountInv'
  BY <1>4, AllocateBalanced
<1>5. ASSUME NEW t \in Users, NEW b \in Blocks, NEW n \in 1..MaxSize, Reallocate(t, b, n)
      PROVE  AccountInv'
  BY <1>5, ReallocateBalanced
<1>6. CASE UNCHANGED zmallocVars
  <2>1. ZmallocType' /\ LoadedRight'
    BY <1>6 DEF AccountInv, ZmallocType, LoadedRight, zmallocVars
  <2>2. Balanced'
    BY <1>6 DEF AccountInv, Balanced, Dues, Sizes, zmallocVars
  <2> QED
    BY <2>1, <2>2 DEF AccountInv
<1> QED
  BY <1>1, <1>2, <1>3, <1>4, <1>5, <1>6 DEF ZmallocNext

LEMMA AccountGives == AccountInv => Accounted
<1> SUFFICES ASSUME AccountInv, \A t \in Users : todo[t] = <<>>, ~overlapped
             PROVE  used_memory = SumFunction([b \in Blocks |-> IF header[b] = None THEN 0 ELSE zmalloc_size(b)])
  BY DEF Accounted
<1>1. Sizes = [b \in Blocks |-> IF header[b] = None THEN 0 ELSE zmalloc_size(b)]
  BY DEF Sizes, SizeOf, zmalloc_size
<1>2. SumFunction(Dues) = 0
  <2>1. Dues \in [Users -> Int] /\ \A t \in Users : Dues[t] = 0
    BY DEF Dues, Due
  <2> QED
    BY <2>1, SumZero, ZmallocAssumption
<1>3. used_memory = SumFunction(Sizes)
  BY <1>2 DEF AccountInv, ZmallocType, Balanced
<1> QED
  BY <1>1, <1>3

\* used_memory is the sum of the sizes zmalloc_size gives whenever no thread is
\* changing it, until two threads change it at once (zmalloc.c:89, 100): for any
\* number of threads and blocks, and sizes that are no whole number of words.
THEOREM AccountedCorrect == ZmallocSpec => []Accounted
<1>1. ZmallocInit => AccountInv
  BY AccountInit
<1>2. AccountInv /\ [ZmallocNext]_zmallocVars => AccountInv'
  BY AccountStep
<1>3. AccountInv => Accounted
  BY AccountGives
<1> QED
  BY <1>1, <1>2, <1>3, PTL DEF ZmallocSpec

-----------------------------------------------------------------------------
USE DEF processVars, masterVars, pollerVars, historyVars, shutdownVars

-----------------------------------------------------------------------------
(* The workers.                                                            *)

ProcessType ==
    /\ worker \in [Workers -> Live \cup {"none", "zombie", "reaped"}]
    /\ signals \in [Workers -> SUBSET {"int", "term"}]
    /\ recorded \subseteq Children

\* A step of a worker of its own, a signal that it handles, its end.
OwnStep(w) == WorkerStep(w) \/ WorkerSignal(w) \/ Wake(w) \/ Crash(w)

\* Where the steps of worker w may take it: a live one stays alive or becomes a
\* zombie, and no other is touched.
LEMMA OwnStepMoves ==
    ASSUME ProcessType, NEW w \in Workers, OwnStep(w)
    PROVE  /\ Alive(w)
           /\ \E to \in Live \cup {"zombie"} : worker' = [worker EXCEPT ![w] = to]
           /\ signals' = signals \/ \E s \in SUBSET signals[w] : signals' = [signals EXCEPT ![w] = s]
           /\ UNCHANGED <<masterVars, pollerVars>>
<1>1. CASE WorkerStep(w)
  BY <1>1 DEF WorkerStep, ArmSignals, CreateLoop, EnterMain, TestStop, Sleep, Exit, Ends, Alive, Live
<1>2. ASSUME InheritedInt(w) \/ TermStops(w)
      PROVE  /\ Alive(w)
             /\ \E to \in Live : worker' = [worker EXCEPT ![w] = to]
             /\ \E s \in SUBSET signals[w] : signals' = [signals EXCEPT ![w] = s]
             /\ UNCHANGED <<masterVars, pollerVars>>
  <2>1. Alive(w) /\ Interrupted(w) \in Live
    BY <1>2 DEF InheritedInt, TermStops, Interrupted, Alive, Live
  <2>2. worker' = [worker EXCEPT ![w] = Interrupted(w)]
    BY <1>2 DEF InheritedInt, TermStops
  <2>3. \E s \in SUBSET signals[w] : signals' = [signals EXCEPT ![w] = s]
    <3>1. \/ signals' = [signals EXCEPT ![w] = signals[w] \ {"int"}]
          \/ signals' = [signals EXCEPT ![w] = signals[w] \ {"term"}]
      BY <1>2 DEF InheritedInt, TermStops
    <3> QED
      BY <3>1
  <2>4. UNCHANGED <<masterVars, pollerVars>>
    BY <1>2 DEF InheritedInt, TermStops
  <2> QED
    BY <2>1, <2>2, <2>3, <2>4
<1>3. CASE TermKills(w) \/ TermUnready(w)
  <2>1. Alive(w) /\ UNCHANGED <<masterVars, pollerVars>>
    BY <1>3 DEF TermKills, TermUnready, Alive, Live
  <2>2. \/ worker' = [worker EXCEPT ![w] = "zombie"] /\ signals' = [signals EXCEPT ![w] = {}]
        \/ worker' = worker /\ signals' = [signals EXCEPT ![w] = signals[w] \ {"term"}]
    BY <1>3 DEF TermKills, TermUnready, Ends
  <2>3. worker' = worker => worker' = [worker EXCEPT ![w] = worker[w]] /\ worker[w] \in Live
    BY <2>1 DEF ProcessType, Alive
  <2> QED
    BY <2>1, <2>2, <2>3
<1>4. CASE Wake(w)
  BY <1>4 DEF Wake, Alive, Live
<1>5. CASE Crash(w)
  BY <1>5 DEF Crash, Ends
<1> QED
  BY <1>1, <1>2, <1>3, <1>4, <1>5 DEF OwnStep, WorkerSignal

\* So nobody stops being a child by a step of its own, and nobody becomes one.
LEMMA OwnStepChildren ==
    ASSUME ProcessType, NEW w \in Workers, OwnStep(w)
    PROVE  ProcessType' /\ Children' = Children
<1>1. PICK to \in Live \cup {"zombie"} : worker' = [worker EXCEPT ![w] = to]
  BY OwnStepMoves
<1>2. Alive(w) /\ recorded' = recorded
  BY OwnStepMoves
<1>3. Children' = Children
  BY <1>1, <1>2 DEF Children, Alive, ProcessType
<1>4. signals' \in [Workers -> SUBSET {"int", "term"}]
  <2>1. CASE signals' = signals
    BY <2>1 DEF ProcessType
  <2>2. ASSUME NEW s \in SUBSET signals[w], signals' = [signals EXCEPT ![w] = s]
        PROVE  signals' \in [Workers -> SUBSET {"int", "term"}]
    <3>1. s \in SUBSET {"int", "term"}
      BY <2>2 DEF ProcessType
    <3> QED
      BY <2>2, <3>1 DEF ProcessType
  <2> QED
    BY <2>1, <2>2, OwnStepMoves
<1> QED
  BY <1>1, <1>2, <1>3, <1>4 DEF ProcessType, Live

\* The steps that change a worker or what is recorded of it, and are not its own.
LEMMA OtherProcessSteps ==
    ASSUME ProcessType, [ShutdownNext]_shutdownVars, ~ \E w \in Workers : OwnStep(w)
    PROVE  ProcessType' /\ (master # "fork" => Children' \subseteq Children)
<1>1. CASE Fork
  BY <1>1 DEF Fork, ProcessType, Children, Alive, Live
<1>2. CASE Reap
  BY <1>2 DEF Reap, ProcessType, Children, Alive, Live
<1>3. CASE CtrlC
  <2>1. signals' \in [Workers -> SUBSET {"int", "term"}]
    BY <1>3 DEF CtrlC, ProcessType
  <2> QED
    BY <1>3, <2>1 DEF CtrlC, ProcessType, Children, Alive
<1>4. CASE KillWorkers
  <2>1. signals' \in [Workers -> SUBSET {"int", "term"}]
    BY <1>4 DEF KillWorkers, ProcessType
  <2> QED
    BY <1>4, <2>1 DEF KillWorkers, ProcessType, Children, Alive
<1>5. CASE UNCHANGED <<worker, signals, recorded>>
  BY <1>5 DEF ProcessType, Children, Alive
<1>6. ~(Fork \/ Reap \/ CtrlC \/ KillWorkers) => UNCHANGED <<worker, signals, recorded>>
  BY DEF ShutdownNext, OwnStep, MasterStep, StartReactors, RecvSignals, StartWaiting, NoChild,
         EndSignals, StopPollers, CancelNext, Join, DeleteLoops, ForkFails, MasterSignal,
         PollerStep, EnterPoller, TestStopP, Serve, BeginDrain, Lock, Unlock, DrainFails,
         DeleteOwnLoop, Cancel, Event
<1> QED
  BY <1>1, <1>2, <1>3, <1>4, <1>5, <1>6

LEMMA ProcessStep == ProcessType /\ [ShutdownNext]_shutdownVars => ProcessType'
BY OwnStepChildren, OtherProcessSteps

-----------------------------------------------------------------------------
(* The signals on their way, and the master's counter.                     *)

Sig == {"int", "chld"}

\* The last conjunct is what makes Tail(batch) one: waitpid is called for a byte.
MasterType ==
    /\ next \in Nat /\ pending \subseteq Sig /\ batch \in Seq(Sig) /\ sigPipe \in Seq(Sig)
    /\ master = "waiting" => batch # <<>>

\* The master's own steps.
LEMMA MasterTypeMaster == MasterType /\ MasterStep => MasterType'
<1> SUFFICES ASSUME MasterType, MasterStep PROVE MasterType'
  OBVIOUS
<1> USE DEF MasterType
<1>1. CASE Fork \/ StartReactors
  BY <1>1 DEF Fork, StartReactors
<1>2. CASE RecvSignals
  <2>1. <<>> \in Seq(Sig)
    OBVIOUS
  <2> QED
    BY <1>2, <2>1 DEF RecvSignals
<1>3. CASE KillWorkers \/ NoChild
  <2>1. batch # <<>> /\ batch' = Tail(batch) /\ master' = "bytes"
    BY <1>3 DEF KillWorkers, NoChild
  <2>2. batch' \in Seq(Sig)
    BY <2>1
  <2>3. UNCHANGED <<next, pending, sigPipe>>
    BY <1>3 DEF KillWorkers, NoChild
  <2> QED
    BY <2>1, <2>2, <2>3
<1>4. CASE StartWaiting \/ Reap
  BY <1>4 DEF StartWaiting, Reap
<1>5. CASE EndSignals
  BY <1>5 DEF EndSignals
<1>6. CASE StopPollers \/ CancelNext \/ Join \/ DeleteLoops
  BY <1>6 DEF StopPollers, CancelNext, Join, DeleteLoops
<1> QED
  BY <1>1, <1>2, <1>3, <1>4, <1>5, <1>6 DEF MasterStep

\* A worker's end and its copy of SIGINT are what it does to the master.
LEMMA MasterTypeWorker ==
    ASSUME ProcessType, MasterType, NEW w \in Workers, OwnStep(w)
    PROVE  MasterType'
<1>1. UNCHANGED <<next, batch, master>>
  BY OwnStepMoves
<1>2. pending' = pending \/ pending' = pending \cup {"chld"}
  BY DEF OwnStep, WorkerStep, ArmSignals, CreateLoop, EnterMain, TestStop, Sleep, Exit, Ends,
         WorkerSignal, InheritedInt, TermKills, TermUnready, TermStops, Wake, Crash
<1>3. sigPipe' = sigPipe \/ sigPipe' = Append(sigPipe, "int")
  BY DEF OwnStep, WorkerStep, ArmSignals, CreateLoop, EnterMain, TestStop, Sleep, Exit, Ends,
         WorkerSignal, InheritedInt, TermKills, TermUnready, TermStops, Wake, Crash
<1>4. sigPipe' \in Seq(Sig)
  BY <1>3 DEF MasterType, Sig
<1> QED
  BY <1>1, <1>2, <1>4 DEF MasterType, Sig

LEMMA MasterTypeStep == ProcessType /\ MasterType /\ [ShutdownNext]_shutdownVars => MasterType'
<1> SUFFICES ASSUME ProcessType, MasterType, [ShutdownNext]_shutdownVars PROVE MasterType'
  OBVIOUS
<1>1. CASE ForkFails
  BY <1>1 DEF ForkFails, MasterType
<1>2. CASE CtrlC
  BY <1>2 DEF CtrlC, MasterType, Sig
<1>3. ASSUME NEW sig \in Sig, MasterSignal(sig) PROVE MasterType'
  <2>1. sigPipe' \in Seq(Sig)
    BY <1>3 DEF MasterSignal, MasterType
  <2> QED
    BY <1>3, <2>1 DEF MasterSignal, MasterType
<1>4. ASSUME NEW p \in Pollers, PollerStep(p) \/ Event(p) PROVE MasterType'
  BY <1>4 DEF PollerStep, EnterPoller, TestStopP, Serve, BeginDrain, Lock, Unlock, DrainFails,
         DeleteOwnLoop, Cancel, Event, MasterType
<1>5. CASE UNCHANGED shutdownVars
  BY <1>5 DEF MasterType
<1> QED
  BY <1>1, <1>2, <1>3, <1>4, <1>5, MasterTypeMaster, MasterTypeWorker DEF ShutdownNext, OwnStep, Sig

LEMMA InitType == ShutdownInit => ProcessType /\ MasterType
BY DEF ShutdownInit, ProcessType, MasterType, Sig, Children, Alive, Live

LEMMA TypeParts == ProcessType /\ MasterType => ShutdownTypeOK
BY DEF ShutdownTypeOK, ProcessType, MasterType, Sig

\* Every variable keeps its type, and no pid is recorded but that of a child that
\* has not been reaped: SIGTERM never reaches a process that was given the
\* number of a dead worker (aeserver.c:65-74, 91-94).
THEOREM ShutdownTypeCorrect == ShutdownSpec => []ShutdownTypeOK
<1>1. ShutdownSpec => [](ProcessType /\ MasterType)
  BY InitType, ProcessStep, MasterTypeStep, PTL DEF ShutdownSpec
<1> QED
  BY <1>1, TypeParts, PTL

-----------------------------------------------------------------------------
(* The order of the end.                                                   *)

Ending == {"stop", "cancel", "join", "exit"}

\* Only waitpid's answer that there is no child sets mainStop, and the master forks
\* no more.
StopMeansNoChild ==
    /\ mainStop => Children = {} /\ master # "fork"
    /\ master \in Ending => mainStop

LEMMA StopStep ==
    ProcessType /\ StopMeansNoChild /\ [ShutdownNext]_shutdownVars => StopMeansNoChild'
<1> SUFFICES ASSUME ProcessType, StopMeansNoChild, [ShutdownNext]_shutdownVars
             PROVE  StopMeansNoChild'
  OBVIOUS
<1>1. master # "fork" => Children' \subseteq Children
  BY OwnStepChildren, OtherProcessSteps
<1>2. CASE MasterStep
  BY <1>1, <1>2 DEF StopMeansNoChild, Ending, MasterStep, Fork, StartReactors, RecvSignals, KillWorkers,
              StartWaiting, Reap, NoChild, EndSignals, StopPollers, CancelNext, Join, DeleteLoops
<1>3. CASE UNCHANGED <<master, mainStop>>
  BY <1>1, <1>3 DEF StopMeansNoChild
<1>4. ~MasterStep => UNCHANGED <<master, mainStop>>
  <2>1. ASSUME NEW w \in Workers, OwnStep(w) PROVE UNCHANGED <<master, mainStop>>
    BY <2>1, OwnStepMoves
  <2> QED
    BY <2>1 DEF ShutdownNext, OwnStep, ForkFails, CtrlC, MasterSignal, PollerStep, EnterPoller,
                TestStopP, Serve, BeginDrain, Lock, Unlock, DrainFails, DeleteOwnLoop, Cancel, Event
<1> QED
  BY <1>2, <1>3, <1>4

\* The master stops its reactors and releases the table and the buffers only when
\* no worker is left that could still use them (aeserver.c:65-79, 834-869).
THEOREM WorkersGoneFirstCorrect == ShutdownSpec => []WorkersGoneFirst
<1>1. ShutdownInit => StopMeansNoChild
  BY DEF ShutdownInit, StopMeansNoChild, Ending
<1>2. StopMeansNoChild => WorkersGoneFirst
  BY DEF StopMeansNoChild, WorkersGoneFirst, Ending
<1>3. ShutdownSpec => []StopMeansNoChild
  BY <1>1, InitType, ProcessStep, StopStep, PTL DEF ShutdownSpec
<1> QED
  BY <1>2, <1>3, PTL

-----------------------------------------------------------------------------
(* The reactors' loops.                                                    *)

\* No loop is deleted before the threads exist; the threads are joined in the
\* order of their numbers, and nothing wakes one that has ended.
JoinedInOrder ==
    /\ freed \in [Pollers -> Nat] /\ next \in Nat
    /\ poller \in [Pollers -> {"none", "begun", "test", "left", "asleep", "serving", "locking",
                              "draining", "ended"}]
    /\ master = "fork" => \A p \in Pollers : freed[p] = 0 /\ poller[p] = "none"
    /\ master \in {"cancel", "join"} =>
         next > 0 /\ \A p \in Pollers : p < next => poller[p] = "ended"
    /\ LoopsReleased

\* A number behind that of the last thread.
LEMMA PollersNumbered ==
    /\ Pollers \subseteq Nat \ {0}
    /\ \A n \in Nat \ {0} : n \notin Pollers => \A p \in Pollers : p < n
<1>1. Cardinality(Pollers) \in Nat /\ Pollers = 1..Cardinality(Pollers)
  BY ShutdownAssumption, FS_CardinalityType
<1> QED
  BY <1>1

LEMMA JoinStep == JoinedInOrder /\ ProcessType /\ [ShutdownNext]_shutdownVars => JoinedInOrder'
<1> SUFFICES ASSUME JoinedInOrder, ProcessType, [ShutdownNext]_shutdownVars PROVE JoinedInOrder'
  OBVIOUS
<1> USE DEF JoinedInOrder, LoopsReleased
<1>1. CASE Fork \/ ForkFails \/ StartReactors
  BY <1>1 DEF Fork, ForkFails, StartReactors
<1>2. CASE RecvSignals \/ KillWorkers \/ StartWaiting \/ Reap \/ NoChild \/ EndSignals
  BY <1>2 DEF RecvSignals, KillWorkers, StartWaiting, Reap, NoChild, EndSignals
<1>3. CASE StopPollers
  BY <1>3, PollersNumbered DEF StopPollers
<1>4. CASE CancelNext
  BY <1>4 DEF CancelNext
<1>5. CASE Join
  <2>1. \A p \in Pollers : p < next + 1 => p < next \/ p = next
    BY PollersNumbered
  <2> QED
    BY <1>5, <2>1 DEF Join
<1>6. CASE DeleteLoops
  <2>1. \A p \in Pollers : poller[p] = "ended" /\ freed'[p] > 0
    BY <1>6, PollersNumbered DEF DeleteLoops
  <2> QED
    BY <1>6, <2>1 DEF DeleteLoops
<1>7. ASSUME NEW p \in Pollers, PollerStep(p) \/ Event(p) PROVE JoinedInOrder'
  <2>1. poller[p] \notin {"none", "ended"}
    BY <1>7 DEF PollerStep, EnterPoller, TestStopP, Serve, BeginDrain, Lock, Unlock, DrainFails,
         DeleteOwnLoop, Cancel, Event
  <2>2. freed[p] = 0 /\ master # "exit"
    BY <2>1
  <2>3. CASE DeleteOwnLoop(p)
    <3>1. master # "fork"
      BY <2>1
    <3> QED
      BY <2>1, <2>2, <2>3 DEF DeleteOwnLoop
  <2>4. CASE EnterPoller(p) \/ TestStopP(p) \/ Serve(p) \/ BeginDrain(p) \/ Lock(p) \/ Unlock(p)
              \/ DrainFails(p) \/ Cancel(p) \/ Event(p)
    <3>1. UNCHANGED <<masterVars, freed>>
      BY <2>4 DEF EnterPoller, TestStopP, Serve, BeginDrain, Lock, Unlock, DrainFails, Cancel, Event
    <3>2. \E to \in {"test", "left", "asleep", "serving", "locking", "draining", "ended"} :
            poller' = [poller EXCEPT ![p] = to]
      BY <2>4 DEF EnterPoller, TestStopP, Serve, BeginDrain, Lock, Unlock, DrainFails, Cancel, Event
    <3>3. master # "fork"
      BY <2>1
    <3> QED
      BY <2>1, <2>2, <3>1, <3>2, <3>3
  <2> QED
    BY <1>7, <2>3, <2>4 DEF PollerStep
<1>8. CASE UNCHANGED <<masterVars, pollerVars>>
  BY <1>8
<1>9. ASSUME NEW w \in Workers, OwnStep(w) PROVE UNCHANGED <<masterVars, pollerVars>>
  BY <1>9, OwnStepMoves
<1>10. (CtrlC \/ \E sig \in {"int", "chld"} : MasterSignal(sig)) => UNCHANGED <<masterVars, pollerVars>>
  BY DEF CtrlC, MasterSignal
<1> QED
  BY <1>1, <1>2, <1>3, <1>4, <1>5, <1>6, <1>7, <1>8, <1>9, <1>10 DEF ShutdownNext, MasterStep, OwnStep

\* The master deletes a loop only when its thread has ended, by pthread_cancel or
\* by itself, and when it exits every loop has been deleted (aeserver.c:704,
\* 771-793).
THEOREM LoopsReleasedCorrect == ShutdownSpec => []LoopsReleased
<1>1. ShutdownInit => JoinedInOrder
  BY DEF ShutdownInit, JoinedInOrder, LoopsReleased
<1>2. JoinedInOrder => LoopsReleased
  BY DEF JoinedInOrder
<1> QED
  BY <1>1, <1>2, InitType, ProcessStep, JoinStep, PTL DEF ShutdownSpec

=============================================================================
