----------------------------- MODULE Dict_proofs -----------------------------
(***************************************************************************)
(* The dictionary is a map, its entries are where a lookup searches them,  *)
(* and an iterator and a scan hand out what there is, for any keys, hash   *)
(* function and sizes.                                                     *)
(***************************************************************************)
EXTENDS Dict, FiniteSetTheorems, SequenceTheorems, WellFoundedInduction, TLAPS

-----------------------------------------------------------------------------
(* Tables.                                                                 *)

Buckets(n) == [0..n - 1 -> Seq(Entries)]
Table == {t \in [size : Nat, used : Nat, table : UNION {Buckets(n) : n \in Nat}] : t.table \in Buckets(t.size)}

\* The entries of bucket b have its index, and each its own key.
ChainFine(c, n, b) ==
    \A j \in 1..Len(c) : /\ Hash[c[j].key] % n = b
                         /\ \A i \in 1..Len(c) : c[i].key = c[j].key => i = j

TableFine(t) ==
    /\ t \in Table
    /\ \A b \in 0..t.size - 1 : ChainFine(t.table[b], t.size, b)
    /\ IsFiniteSet(Chained(t)) /\ t.used = Cardinality(Chained(t))

KeysOf(t) == {e.key : e \in Chained(t)}

LEMMA TableType ==
    ASSUME NEW t \in Table
    PROVE  /\ t.size \in Nat /\ t.used \in Nat /\ t.table \in [0..t.size - 1 -> Seq(Entries)]
           /\ DOMAIN t.table = 0..t.size - 1
           /\ t = [size |-> t.size, used |-> t.used, table |-> t.table]
BY DEF Table, Buckets

LEMMA TableOf ==
    ASSUME NEW n \in Nat, NEW u \in Nat, NEW T \in [0..n - 1 -> Seq(Entries)]
    PROVE  [size |-> n, used |-> u, table |-> T] \in Table
<1>1. T \in Buckets(n)
  BY DEF Buckets
<1>2. T \in UNION {Buckets(m) : m \in Nat}
  BY <1>1
<1> QED
  BY <1>1, <1>2 DEF Table

LEMMA TableExcept ==
    ASSUME NEW t \in Table, NEW X, NEW u
    PROVE  [[t EXCEPT !.table = X] EXCEPT !.used = u] = [size |-> t.size, used |-> u, table |-> X]
<1>1. t = [size |-> t.size, used |-> t.used, table |-> t.table]
  BY TableType
<1> DEFINE r == [t EXCEPT !.table = X]
<1>2. r = [size |-> t.size, used |-> t.used, table |-> X]
  BY <1>1
<1> HIDE DEF r
<1>3. [r EXCEPT !.used = u] = [size |-> t.size, used |-> u, table |-> X]
  BY <1>2
<1> QED
  BY <1>3 DEF r

LEMMA InChained ==
    ASSUME NEW t \in Table, NEW e
    PROVE  e \in Chained(t) <=> \E b \in 0..t.size - 1 : \E j \in 1..Len(t.table[b]) : e = t.table[b][j]
<1>1. DOMAIN t.table = 0..t.size - 1
  BY TableType
<1>2. ASSUME NEW b \in 0..t.size - 1 PROVE DOMAIN t.table[b] = 1..Len(t.table[b])
  <2>1. t.table[b] \in Seq(Entries)
    BY TableType
  <2> QED
    BY <2>1
<1> QED
  BY <1>1, <1>2 DEF Chained, ToSet

LEMMA ChainedType ==
    ASSUME NEW t \in Table
    PROVE  Chained(t) \subseteq Entries
<1> SUFFICES ASSUME NEW e \in Chained(t) PROVE e \in Entries
  OBVIOUS
<1>1. PICK b \in 0..t.size - 1 : \E j \in 1..Len(t.table[b]) : e = t.table[b][j]
  BY InChained
<1>2. t.table[b] \in Seq(Entries)
  BY TableType
<1> QED
  BY <1>1, <1>2, ElementOfSeq

LEMMA EntryType ==
    ASSUME NEW e \in Entries
    PROVE  e.key \in Keys /\ e.val \in Vals /\ Hash[e.key] \in Nat /\ e = [key |-> e.key, val |-> e.val]
BY HashAssumption DEF Entries

LEMMA IndexType ==
    ASSUME NEW k \in Keys, NEW t \in Table, t.size # 0
    PROVE  Index(k, t) \in 0..t.size - 1 /\ Index(k, t) = Hash[k] % t.size
<1>1. Hash[k] \in Nat /\ t.size \in Nat \ {0}
  BY HashAssumption, TableType
<1> QED
  BY <1>1 DEF Index

\* One entry for a key.
LEMMA KeyUnique ==
    ASSUME NEW t, TableFine(t), NEW e \in Chained(t), NEW f \in Chained(t), e.key = f.key
    PROVE  e = f
<1>1. t \in Table
  BY DEF TableFine
<1>2. PICK b \in 0..t.size - 1 : \E j \in 1..Len(t.table[b]) : e = t.table[b][j]
  BY <1>1, InChained
<1>3. PICK j \in 1..Len(t.table[b]) : e = t.table[b][j]
  BY <1>2
<1>4. PICK c \in 0..t.size - 1 : \E i \in 1..Len(t.table[c]) : f = t.table[c][i]
  BY <1>1, InChained
<1>5. PICK i \in 1..Len(t.table[c]) : f = t.table[c][i]
  BY <1>4
<1>6. ChainFine(t.table[b], t.size, b) /\ ChainFine(t.table[c], t.size, c)
  BY DEF TableFine
<1>7. b = c
  BY <1>3, <1>5, <1>6 DEF ChainFine
<1> QED
  BY <1>3, <1>5, <1>6, <1>7 DEF ChainFine

LEMMA NewTableFine ==
    ASSUME NEW n \in Nat
    PROVE  /\ TableFine(NewTable(n)) /\ NewTable(n).size = n /\ NewTable(n).used = 0
           /\ Chained(NewTable(n)) = {}
           /\ \A b \in 0..n - 1 : NewTable(n).table[b] = <<>>
<1> DEFINE t == NewTable(n)
<1>1. t.size = n /\ t.used = 0 /\ t.table = [i \in 0..n - 1 |-> <<>>]
  BY DEF NewTable
<1>2. t \in Table
  <2>1. <<>> \in Seq(Entries)
    OBVIOUS
  <2>2. [i \in 0..n - 1 |-> <<>>] \in [0..n - 1 -> Seq(Entries)]
    BY <2>1
  <2> QED
    BY <2>2, TableOf DEF NewTable
<1>3. \A b \in 0..n - 1 : t.table[b] = <<>>
  BY <1>1
<1> HIDE DEF t
<1>4. Chained(t) = {}
  <2>1. \A b \in 0..n - 1 : Len(t.table[b]) = 0
    BY <1>3
  <2> QED
    BY <1>1, <1>2, <2>1, InChained
<1>5. \A b \in 0..n - 1 : ChainFine(t.table[b], n, b)
  <2>1. \A b \in 0..n - 1 : Len(t.table[b]) = 0
    BY <1>3
  <2> QED
    BY <2>1 DEF ChainFine
<1>6. TableFine(t)
  BY <1>1, <1>2, <1>4, <1>5, FS_EmptySet DEF TableFine
<1> QED
  BY <1>1, <1>3, <1>4, <1>6 DEF t

LEMMA PushFine ==
    ASSUME NEW t, TableFine(t), t.size # 0, NEW e \in Entries, e.key \notin KeysOf(t)
    PROVE  /\ TableFine(Push(t, e)) /\ Push(t, e).size = t.size
           /\ Chained(Push(t, e)) = Chained(t) \cup {e}
<1> DEFINE n == t.size
           T == t.table
           b == Index(e.key, t)
           p == Push(t, e)
           c == <<e>> \o T[b]
<1>1. t \in Table /\ n \in Nat /\ t.used \in Nat /\ T \in [0..n - 1 -> Seq(Entries)]
  BY TableType DEF TableFine
<1>2. e.key \in Keys /\ b \in 0..n - 1 /\ b = Hash[e.key] % n
  BY <1>1, EntryType, IndexType
<1>3. p = [size |-> n, used |-> t.used + 1, table |-> [T EXCEPT ![b] = c]]
  <2>1. t = [size |-> n, used |-> t.used, table |-> T]
    BY <1>1, TableType
  <2>2. p = [[t EXCEPT !.table = [T EXCEPT ![b] = c]] EXCEPT !.used = t.used + 1]
    BY DEF Push
  <2>3. [t EXCEPT !.table = [T EXCEPT ![b] = c]]
          = [size |-> n, used |-> t.used, table |-> [T EXCEPT ![b] = c]]
    <3> HIDE DEF b, c
    <3> QED
      BY <2>1
  <2> QED
    BY <2>2, <2>3
<1>4. T[b] \in Seq(Entries)
  BY <1>1, <1>2
<1> HIDE DEF p, b
<1>p. p.size = n /\ p.used = t.used + 1 /\ p.table = [T EXCEPT ![b] = c]
  BY <1>3
<1>5. /\ c \in Seq(Entries) /\ Len(c) = Len(T[b]) + 1
      /\ \A j \in 1..Len(c) : c[j] = IF j = 1 THEN e ELSE T[b][j - 1]
  <2>1. <<e>> \in Seq(Entries) /\ Len(<<e>>) = 1 /\ <<e>>[1] = e
    OBVIOUS
  <2>2. /\ c \in Seq(Entries) /\ Len(c) = 1 + Len(T[b])
        /\ \A j \in 1..1 + Len(T[b]) : c[j] = IF j <= 1 THEN <<e>>[j] ELSE T[b][j - 1]
    BY <1>4, <2>1, ConcatProperties
  <2>3. Len(T[b]) \in Nat
    BY <1>4, LenProperties
  <2> HIDE DEF c
  <2> QED
    BY <2>1, <2>2, <2>3
<1> HIDE DEF c
<1>6. \A x \in 0..n - 1 : p.table[x] = IF x = b THEN c ELSE T[x]
  BY <1>1, <1>p
<1>7. p \in Table
  <2>1. [T EXCEPT ![b] = c] \in [0..n - 1 -> Seq(Entries)]
    BY <1>1, <1>5
  <2>2. t.used + 1 \in Nat
    BY <1>1
  <2> QED
    BY <1>1, <1>3, <2>1, <2>2, TableOf
<1>8. Chained(p) = Chained(t) \cup {e}
  <2>1. ASSUME NEW f \in Chained(p) PROVE f \in Chained(t) \cup {e}
    <3>1. PICK x \in 0..n - 1 : \E j \in 1..Len(p.table[x]) : f = p.table[x][j]
      <4>1. \E x \in 0..p.size - 1 : \E j \in 1..Len(p.table[x]) : f = p.table[x][j]
        BY <1>7, <2>1, InChained
      <4> QED
        BY <1>p, <4>1
    <3>2. PICK j \in 1..Len(p.table[x]) : f = p.table[x][j]
      BY <3>1
    <3>3. CASE x # b
      BY <1>1, <1>6, <3>2, <3>3, InChained
    <3>4. CASE x = b
      <4>1. f = IF j = 1 THEN e ELSE T[b][j - 1]
        BY <1>5, <1>6, <3>2, <3>4
      <4>2. j = 1 \/ j - 1 \in 1..Len(T[b])
        <5>1. Len(T[b]) \in Nat
          BY <1>4, LenProperties
        <5> QED
          BY <1>5, <1>6, <3>4, <5>1
      <4> QED
        BY <1>1, <1>2, <4>1, <4>2, InChained
    <3> QED
      BY <3>3, <3>4
  <2>2. ASSUME NEW f \in Chained(t) PROVE f \in Chained(p)
    <3>1. PICK x \in 0..n - 1 : \E j \in 1..Len(T[x]) : f = T[x][j]
      BY <1>1, InChained
    <3>2. PICK j \in 1..Len(T[x]) : f = T[x][j]
      BY <3>1
    <3>3. CASE x # b
      BY <1>p, <1>6, <1>7, <3>2, <3>3, InChained
    <3>4. CASE x = b
      <4>1. j + 1 \in 1..Len(c) /\ c[j + 1] = T[b][j]
        <5>1. Len(T[b]) \in Nat
          BY <1>4, LenProperties
        <5> QED
          BY <1>5, <3>2, <3>4, <5>1
      <4> QED
        BY <1>2, <1>p, <1>6, <1>7, <3>2, <3>4, <4>1, InChained
    <3> QED
      BY <3>3, <3>4
  <2>3. e \in Chained(p)
    <3>1. 1 \in 1..Len(c) /\ c[1] = e
      <4>1. Len(T[b]) \in Nat
        BY <1>4, LenProperties
      <4> QED
        BY <1>5, <4>1
    <3> QED
      BY <1>2, <1>p, <1>6, <1>7, <3>1, InChained
  <2> QED
    BY <2>1, <2>2, <2>3
<1>9. ASSUME NEW x \in 0..n - 1 PROVE ChainFine(p.table[x], n, x)
  <2>1. ChainFine(T[x], n, x)
    BY DEF TableFine
  <2>2. CASE x # b
    BY <1>6, <2>1, <2>2
  <2>3. CASE x = b
    <3>1. Len(T[b]) \in Nat
      BY <1>4, LenProperties
    <3>2. \A j \in 1..Len(T[b]) : T[b][j] \in Chained(t)
      BY <1>1, <1>2, InChained
    <3>3. \A j \in 1..Len(T[b]) : T[b][j].key # e.key
      BY <3>2 DEF KeysOf
    <3>4. ChainFine(c, n, b)
      <4> SUFFICES ASSUME NEW j \in 1..Len(c)
                   PROVE  /\ Hash[c[j].key] % n = b
                          /\ \A i \in 1..Len(c) : c[i].key = c[j].key => i = j
        BY DEF ChainFine
      <4>1. \A i \in 1..Len(c) : i # 1 => i - 1 \in 1..Len(T[b]) /\ c[i] = T[b][i - 1]
        BY <1>5, <3>1
      <4>2. c[1] = e
        BY <1>5, <3>1
      <4>3. CASE j = 1
        BY <1>2, <3>3, <4>1, <4>2, <4>3
      <4>4. CASE j # 1
        <5>1. Hash[c[j].key] % n = b
          <6>1. j - 1 \in 1..Len(T[b]) /\ c[j] = T[b][j - 1]
            BY <4>1, <4>4
          <6>2. Hash[T[b][j - 1].key] % n = b
            BY <2>1, <2>3, <6>1 DEF ChainFine
          <6> QED
            BY <6>1, <6>2
        <5>2. ASSUME NEW i \in 1..Len(c), c[i].key = c[j].key PROVE i = j
          <6>1. i # 1
            BY <3>3, <4>1, <4>2, <4>4, <5>2
          <6>2. /\ i - 1 \in 1..Len(T[b]) /\ j - 1 \in 1..Len(T[b])
                /\ T[b][i - 1].key = T[b][j - 1].key
            BY <4>1, <4>4, <5>2, <6>1
          <6>3. i - 1 = j - 1
            BY <2>1, <2>3, <6>2 DEF ChainFine
          <6> QED
            BY <6>3
        <5> QED
          BY <5>1, <5>2
      <4> QED
        BY <4>3, <4>4
    <3> QED
      BY <1>6, <2>3, <3>4
  <2> QED
    BY <2>2, <2>3
<1>10. IsFiniteSet(Chained(p)) /\ p.used = Cardinality(Chained(p))
  <2>1. e \notin Chained(t)
    BY DEF KeysOf
  <2>2. IsFiniteSet(Chained(t)) /\ t.used = Cardinality(Chained(t))
    BY DEF TableFine
  <2> QED
    BY <1>p, <1>8, <2>1, <2>2, FS_AddElement
<1>11. TableFine(p)
  BY <1>p, <1>7, <1>9, <1>10 DEF TableFine
<1> QED
  BY <1>p, <1>8, <1>11 DEF p

-----------------------------------------------------------------------------
(* A bucket whose chain is replaced.                                       *)

LEMMA ChainSet ==
    ASSUME NEW c \in Seq(Entries)
    PROVE  /\ ToSet(c) = {c[j] : j \in 1..Len(c)} /\ ToSet(c) \subseteq Entries
           /\ Len(c) \in Nat /\ IsFiniteSet(ToSet(c))
<1>1. Len(c) \in Nat /\ c \in [1..Len(c) -> Entries] /\ DOMAIN c = 1..Len(c)
  BY LenProperties
<1>2. ToSet(c) = {c[j] : j \in 1..Len(c)}
  BY <1>1 DEF ToSet
<1>3. ToSet(c) \subseteq Entries
  BY <1>1, <1>2
<1>4. c \in Surjection(1..Len(c), ToSet(c))
  BY <1>1, <1>2 DEF Surjection
<1>5. IsFiniteSet(1..Len(c))
  BY <1>1, FS_Interval
<1>6. IsFiniteSet(ToSet(c))
  BY <1>4, <1>5, FS_Surjection
<1> QED
  BY <1>1, <1>2, <1>3, <1>6

\* A chain has as many entries as keys.
LEMMA ChainCount ==
    ASSUME NEW c \in Seq(Entries), NEW n, NEW b, ChainFine(c, n, b)
    PROVE  Cardinality(ToSet(c)) = Len(c)
<1>1. Len(c) \in Nat /\ c \in [1..Len(c) -> Entries]
  BY LenProperties
<1>2. ToSet(c) = {c[j] : j \in 1..Len(c)}
  BY ChainSet
<1>3. c \in Surjection(1..Len(c), ToSet(c))
  BY <1>1, <1>2 DEF Surjection
<1>4. c \in Injection(1..Len(c), ToSet(c))
  <2>1. \A i, j \in 1..Len(c) : c[i] = c[j] => i = j
    BY DEF ChainFine
  <2>2. c \in [1..Len(c) -> ToSet(c)] /\ DOMAIN c = 1..Len(c)
    BY <1>1, <1>2
  <2>3. IsInjective(c)
    BY <2>1, <2>2 DEF IsInjective
  <2> QED
    BY <2>2, <2>3 DEF Injection
<1>5. IsFiniteSet(1..Len(c)) /\ Cardinality(1..Len(c)) = Len(c)
  BY <1>1, FS_Interval
<1> QED
  BY <1>3, <1>4, <1>5, FS_Surjection

\* An entry is in the bucket of its key.
LEMMA InBucket ==
    ASSUME NEW t, TableFine(t), NEW e \in Chained(t), NEW b \in 0..t.size - 1, Index(e.key, t) = b
    PROVE  e \in ToSet(t.table[b])
<1>1. t \in Table
  BY DEF TableFine
<1>2. PICK x \in 0..t.size - 1 : \E j \in 1..Len(t.table[x]) : e = t.table[x][j]
  BY <1>1, InChained
<1>3. ChainFine(t.table[x], t.size, x) /\ t.table[x] \in Seq(Entries)
  BY <1>1, TableType DEF TableFine
<1>4. x = b
  BY <1>2, <1>3 DEF ChainFine, Index
<1> QED
  BY <1>2, <1>3, <1>4, ChainSet

LEMMA OfBucket ==
    ASSUME NEW t, TableFine(t), NEW b \in 0..t.size - 1, NEW e \in ToSet(t.table[b])
    PROVE  e \in Chained(t) /\ Index(e.key, t) = b
<1>1. t \in Table
  BY DEF TableFine
<1>2. ChainFine(t.table[b], t.size, b) /\ t.table[b] \in Seq(Entries)
  BY <1>1, TableType DEF TableFine
<1>3. PICK j \in 1..Len(t.table[b]) : e = t.table[b][j]
  BY <1>2, ChainSet
<1> QED
  BY <1>1, <1>2, <1>3, InChained DEF ChainFine, Index

\* The chain of bucket b is c, and the counter follows.
Rechain(t, b, c, p) ==
    /\ p.size = t.size /\ p.table = [t.table EXCEPT ![b] = c]
    /\ p.used = Cardinality((Chained(t) \ ToSet(t.table[b])) \cup ToSet(c))

LEMMA Rechained ==
    ASSUME NEW t, TableFine(t), NEW b \in 0..t.size - 1, NEW c \in Seq(Entries),
           ChainFine(c, t.size, b), NEW p \in Table, Rechain(t, b, c, p)
    PROVE  /\ TableFine(p)
           /\ Chained(p) = (Chained(t) \ ToSet(t.table[b])) \cup ToSet(c)
<1> DEFINE T == t.table
           n == t.size
<1>1. t \in Table /\ n \in Nat /\ T \in [0..n - 1 -> Seq(Entries)]
  BY TableType DEF TableFine
<1>0. /\ p.size = n /\ p.table = [T EXCEPT ![b] = c]
      /\ p.used = Cardinality((Chained(t) \ ToSet(T[b])) \cup ToSet(c))
  BY DEF Rechain
<1>2. \A e : e \in Chained(p) <=> \E x \in 0..n - 1 : \E j \in 1..Len(p.table[x]) : e = p.table[x][j]
  <2>1. \A e : e \in Chained(p)
              <=> \E x \in 0..p.size - 1 : \E j \in 1..Len(p.table[x]) : e = p.table[x][j]
    BY InChained
  <2> QED
    BY <1>0, <2>1
<1>3. \A e : e \in Chained(t) <=> \E x \in 0..n - 1 : \E j \in 1..Len(T[x]) : e = T[x][j]
  BY <1>1, InChained
<1>4. \A x \in 0..n - 1 : p.table[x] = IF x = b THEN c ELSE T[x]
  BY <1>0, <1>1
<1>5. \A x \in 0..n - 1 : ChainFine(p.table[x], n, x)
  BY <1>4 DEF TableFine
<1>6. Chained(p) = (Chained(t) \ ToSet(T[b])) \cup ToSet(c)
  <2>1. ASSUME NEW e \in Chained(p) PROVE e \in (Chained(t) \ ToSet(T[b])) \cup ToSet(c)
    <3>1. \E x \in 0..n - 1 : \E j \in 1..Len(p.table[x]) : e = p.table[x][j]
      BY <1>2, <2>1
    <3>2. PICK x \in 0..n - 1 : \E j \in 1..Len(p.table[x]) : e = p.table[x][j]
      BY <3>1
    <3>3. CASE x = b
      BY <1>4, <3>2, <3>3, ChainSet
    <3>4. CASE x # b
      <4>1. T[x] \in Seq(Entries) /\ e \in ToSet(T[x])
        <5>1. T[x] \in Seq(Entries) /\ \E j \in 1..Len(T[x]) : e = T[x][j]
          BY <1>1, <1>4, <3>2, <3>4
        <5> QED
          BY <5>1, ChainSet
      <4>2. e \in Chained(t) /\ Index(e.key, t) = x
        BY <4>1, OfBucket
      <4>3. e \notin ToSet(T[b])
        BY <3>4, <4>2, OfBucket
      <4> QED
        BY <4>2, <4>3
    <3> QED
      BY <3>3, <3>4
  <2>2. ASSUME NEW e \in Chained(t), e \notin ToSet(T[b]) PROVE e \in Chained(p)
    <3>1. PICK x \in 0..n - 1 : \E j \in 1..Len(T[x]) : e = T[x][j]
      BY <1>3, <2>2
    <3>2. x # b
      BY <1>1, <2>2, <3>1, ChainSet
    <3>3. \E j \in 1..Len(p.table[x]) : e = p.table[x][j]
      BY <1>4, <3>1, <3>2
    <3> QED
      BY <1>2, <3>1, <3>3
  <2>3. ASSUME NEW e \in ToSet(c) PROVE e \in Chained(p)
    <3>1. \E j \in 1..Len(p.table[b]) : e = p.table[b][j]
      BY <1>4, <2>3, ChainSet
    <3> QED
      BY <1>2, <3>1
  <2> QED
    BY <2>1, <2>2, <2>3
<1>7. IsFiniteSet(Chained(p))
  <2>1. IsFiniteSet(Chained(t))
    BY DEF TableFine
  <2>2. IsFiniteSet(Chained(t) \ ToSet(T[b]))
    <3> DEFINE S == Chained(t)
               R == ToSet(T[b])
    <3>1. IsFiniteSet(S)
      BY <2>1
    <3> HIDE DEF S, R
    <3>2. IsFiniteSet(S \ R)
      BY <3>1, FS_Difference
    <3> QED
      BY <3>2 DEF S, R
  <2>3. IsFiniteSet(ToSet(c))
    BY ChainSet
  <2>4. IsFiniteSet((Chained(t) \ ToSet(T[b])) \cup ToSet(c))
    BY <2>2, <2>3, FS_Union
  <2> QED
    BY <1>6, <2>4
<1>8. TableFine(p)
  BY <1>0, <1>5, <1>6, <1>7 DEF TableFine
<1> QED
  BY <1>6, <1>8

LEMMA EmptiedFine ==
    ASSUME NEW t, TableFine(t), NEW b \in 0..t.size - 1
    PROVE  /\ TableFine(Emptied(t, b)) /\ Emptied(t, b).size = t.size
           /\ Emptied(t, b).table = [t.table EXCEPT ![b] = <<>>]
           /\ Chained(Emptied(t, b)) = Chained(t) \ ToSet(t.table[b])
<1> DEFINE T == t.table
           p == Emptied(t, b)
           u == t.used - Len(T[b])
           c == <<>>
<1>1. t \in Table /\ t.size \in Nat /\ t.used \in Nat /\ T \in [0..t.size - 1 -> Seq(Entries)]
      /\ t = [size |-> t.size, used |-> t.used, table |-> T]
  BY TableType DEF TableFine
<1>2. T[b] \in Seq(Entries) /\ ChainFine(T[b], t.size, b)
  BY <1>1 DEF TableFine
<1>3. c \in Seq(Entries) /\ Len(c) = 0 /\ ToSet(c) = {}
  <2>1. c \in Seq(Entries) /\ Len(c) = 0
    OBVIOUS
  <2> HIDE DEF c
  <2>2. ToSet(c) = {c[j] : j \in 1..0}
    BY <2>1, ChainSet
  <2> QED
    BY <2>1, <2>2
<1>4. ChainFine(c, t.size, b)
  BY <1>3 DEF ChainFine
<1>5. p = [size |-> t.size, used |-> u, table |-> [T EXCEPT ![b] = c]]
  <2>1. p = [[t EXCEPT !.table = [T EXCEPT ![b] = c]] EXCEPT !.used = t.used - Len(T[b])]
    BY DEF Emptied
  <2> DEFINE X == [T EXCEPT ![b] = c]
  <2>2. p = [[t EXCEPT !.table = X] EXCEPT !.used = u]
    BY <2>1
  <2> HIDE DEF X, u, p
  <2>3. p = [size |-> t.size, used |-> u, table |-> X]
    BY <1>1, <2>2, TableExcept
  <2> QED
    BY <2>3 DEF X
<1> HIDE DEF c
<1>6. ToSet(T[b]) \subseteq Chained(t)
  BY OfBucket
<1>7. u = Cardinality(Chained(t) \ ToSet(T[b])) /\ u \in Nat
  <2>1. IsFiniteSet(Chained(t)) /\ t.used = Cardinality(Chained(t))
    BY DEF TableFine
  <2>2. Chained(t) \cap ToSet(T[b]) = ToSet(T[b])
    BY <1>6
  <2>3. Cardinality(ToSet(T[b])) = Len(T[b])
    BY <1>2, ChainCount
  <2> DEFINE S == Chained(t)
             R == ToSet(T[b])
  <2>4. IsFiniteSet(S \ R) /\ Cardinality(S \ R) = t.used - Len(T[b])
    <3>1. IsFiniteSet(S) /\ t.used = Cardinality(S) /\ S \cap R = R /\ Cardinality(R) = Len(T[b])
      BY <2>1, <2>2, <2>3
    <3> HIDE DEF S, R
    <3>2. IsFiniteSet(S \ R) /\ Cardinality(S \ R) = Cardinality(S) - Cardinality(S \cap R)
      BY <3>1, FS_Difference
    <3> QED
      BY <3>1, <3>2
  <2> QED
    BY <2>4, FS_CardinalityType
<1> HIDE DEF p, u
<1>8. (Chained(t) \ ToSet(T[b])) \cup ToSet(c) = Chained(t) \ ToSet(T[b])
  BY <1>3
<1>10. p.size = t.size /\ p.used = u /\ p.table = [T EXCEPT ![b] = c]
  BY <1>5
<1>11. p \in Table
  <2>1. [T EXCEPT ![b] = c] \in [0..t.size - 1 -> Seq(Entries)]
    BY <1>1, <1>3
  <2> QED
    BY <1>1, <1>5, <1>7, <2>1, TableOf
<1>12. p.used = Cardinality((Chained(t) \ ToSet(T[b])) \cup ToSet(c))
  BY <1>7, <1>8, <1>10
<1>9. TableFine(p) /\ Chained(p) = (Chained(t) \ ToSet(T[b])) \cup ToSet(c)
  <2>1. c \in Seq(Entries) /\ ChainFine(c, t.size, b) /\ p \in Table
    BY <1>3, <1>4, <1>11
  <2>2. Rechain(t, b, c, p)
    BY <1>10, <1>12 DEF Rechain
  <2> QED
    BY <2>1, <2>2, Rechained
<1> QED
  BY <1>8, <1>9, <1>10 DEF p, c

\* One entry gets another value.
ValuedChain(c, k, v) == [j \in DOMAIN c |-> IF c[j].key = k THEN [c[j] EXCEPT !.val = v] ELSE c[j]]

LEMMA ChainValued ==
    ASSUME NEW c \in Seq(Entries), NEW n, NEW b, ChainFine(c, n, b), NEW i \in 1..Len(c), NEW v \in Vals
    PROVE  LET f == ValuedChain(c, c[i].key, v)
           IN  /\ f \in Seq(Entries) /\ ChainFine(f, n, b)
               /\ ToSet(f) = (ToSet(c) \ {c[i]}) \cup {[key |-> c[i].key, val |-> v]}
<1> DEFINE e == [key |-> c[i].key, val |-> v]
           f == ValuedChain(c, c[i].key, v)
<1>1. Len(c) \in Nat /\ c \in [1..Len(c) -> Entries] /\ DOMAIN c = 1..Len(c)
  BY LenProperties
<1>2. \A j \in 1..Len(c) : c[j] \in Entries /\ (c[j].key = c[i].key => j = i)
  BY <1>1 DEF ChainFine
<1>3. [c[i] EXCEPT !.val = v] = e /\ e \in Entries /\ e.key = c[i].key
  <2>1. c[i] = [key |-> c[i].key, val |-> c[i].val] /\ c[i].key \in Keys
    BY <1>2, EntryType
  <2> QED
    BY <2>1 DEF Entries
<1>f. f = [j \in 1..Len(c) |-> IF c[j].key = c[i].key THEN [c[j] EXCEPT !.val = v] ELSE c[j]]
  BY <1>1 DEF ValuedChain
<1> HIDE DEF f
<1>4. \A j \in 1..Len(c) : f[j] = IF j = i THEN e ELSE c[j]
  BY <1>1, <1>2, <1>3, <1>f
<1>5. f \in [1..Len(c) -> Entries]
  <2>1. \A j \in 1..Len(c) : f[j] \in Entries
    BY <1>2, <1>3, <1>4
  <2>2. DOMAIN f = 1..Len(c) /\ f = [j \in 1..Len(c) |-> f[j]]
    BY <1>1, <1>f
  <2> HIDE DEF e
  <2> QED
    BY <2>1, <2>2
<1>6. f \in Seq(Entries) /\ Len(f) = Len(c)
  <2>1. f \in Seq(Entries)
    BY <1>1, <1>5
  <2>2. DOMAIN f = 1..Len(f) /\ Len(f) \in Nat /\ DOMAIN f = 1..Len(c)
    BY <1>5, <2>1, LenProperties
  <2>3. Len(f) = Len(c)
    <3> DEFINE m == Len(f)
               l == Len(c)
    <3>1. m \in Nat /\ l \in Nat /\ 1..m = 1..l
      BY <1>1, <2>2
    <3> HIDE DEF m, l
    <3>2. (m # 0 => m \in 1..m) /\ (l # 0 => l \in 1..l)
      BY <3>1
    <3>3. (m # 0 => m <= l) /\ (l # 0 => l <= m)
      BY <3>1, <3>2
    <3>4. m = l
      BY <3>1, <3>3
    <3> QED
      BY <3>4 DEF m, l
  <2> QED
    BY <2>1, <2>3
<1> HIDE DEF e
<1>7. ChainFine(f, n, b)
  <2>1. \A j \in 1..Len(c) : f[j].key = c[j].key
    BY <1>3, <1>4
  <2> QED
    BY <1>6, <2>1 DEF ChainFine
<1>8. ToSet(f) = (ToSet(c) \ {c[i]}) \cup {e}
  <2>1. ToSet(f) = {f[j] : j \in 1..Len(c)} /\ ToSet(c) = {c[j] : j \in 1..Len(c)}
    BY <1>6, ChainSet
  <2>2. \A j \in 1..Len(c) : j # i => c[j] # c[i]
    BY <1>2
  <2>3. ASSUME NEW j \in 1..Len(c) PROVE f[j] \in ({c[l] : l \in 1..Len(c)} \ {c[i]}) \cup {e}
    BY <1>4, <2>2
  <2>4. ASSUME NEW j \in 1..Len(c), c[j] # c[i] PROVE c[j] \in {f[l] : l \in 1..Len(c)}
    <3>1. f[j] = c[j]
      BY <1>4, <2>4
    <3> QED
      BY <3>1
  <2>5. e \in {f[l] : l \in 1..Len(c)}
    BY <1>4
  <2>6. ToSet(f) \subseteq (ToSet(c) \ {c[i]}) \cup {e}
    BY <2>1, <2>3
  <2>7. ToSet(c) \ {c[i]} \subseteq ToSet(f)
    BY <2>1, <2>4
  <2>8. e \in ToSet(f)
    BY <2>1, <2>5
  <2> QED
    BY <2>6, <2>7, <2>8
<1> QED
  BY <1>6, <1>7, <1>8 DEF e, f

LEMMA ChainDropped ==
    ASSUME NEW c \in Seq(Entries), NEW n, NEW b, ChainFine(c, n, b), NEW i \in 1..Len(c)
    PROVE  /\ RemoveAt(c, i) \in Seq(Entries) /\ ChainFine(RemoveAt(c, i), n, b)
           /\ ToSet(RemoveAt(c, i)) = ToSet(c) \ {c[i]}
<1> DEFINE f == RemoveAt(c, i)
           x == SubSeq(c, 1, i - 1)
           y == SubSeq(c, i + 1, Len(c))
           m == Len(c)
<1>1. m \in Nat /\ c \in [1..m -> Entries]
  BY LenProperties
<1>2. \A j \in 1..m : c[j] \in Entries
  BY <1>1
<1> HIDE DEF m
<1>3. i \in 1..m
  BY DEF m
<1>4. x \in Seq(Entries) /\ Len(x) = i - 1 /\ \A j \in 1..i - 1 : x[j] = c[j]
  <2>1. \A j \in 1..i - 1 : c[j] \in Entries
    BY <1>1, <1>2, <1>3
  <2>2. /\ x \in Seq(Entries) /\ Len(x) = IF 1 <= i - 1 THEN (i - 1) - 1 + 1 ELSE 0
        /\ \A j \in 1..(i - 1) - 1 + 1 : x[j] = c[1 + j - 1]
    BY <1>1, <1>3, <2>1, SubSeqProperties
  <2> HIDE DEF x
  <2> QED
    BY <1>1, <1>3, <2>2
<1>5. y \in Seq(Entries) /\ Len(y) = m - i /\ \A j \in 1..m - i : y[j] = c[i + j]
  <2>1. \A j \in i + 1..m : c[j] \in Entries
    BY <1>1, <1>2, <1>3
  <2>2. /\ y \in Seq(Entries) /\ Len(y) = IF i + 1 <= m THEN m - (i + 1) + 1 ELSE 0
        /\ \A j \in 1..m - (i + 1) + 1 : y[j] = c[(i + 1) + j - 1]
    BY <1>1, <1>3, <2>1, SubSeqProperties DEF m
  <2> HIDE DEF y
  <2> QED
    BY <1>1, <1>3, <2>2
<1>6. f = x \o y
  BY DEF RemoveAt
<1> HIDE DEF f, x, y
<1>7. /\ f \in Seq(Entries) /\ Len(f) = m - 1
      /\ \A j \in 1..m - 1 : f[j] = IF j < i THEN c[j] ELSE c[j + 1]
  <2>1. /\ f \in Seq(Entries) /\ Len(f) = Len(x) + Len(y)
        /\ \A j \in 1..Len(x) + Len(y) : f[j] = IF j <= Len(x) THEN x[j] ELSE y[j - Len(x)]
    BY <1>4, <1>5, <1>6, ConcatProperties
  <2>2. Len(x) + Len(y) = m - 1
    BY <1>1, <1>3, <1>4, <1>5
  <2>3. ASSUME NEW j \in 1..m - 1 PROVE f[j] = IF j < i THEN c[j] ELSE c[j + 1]
    <3>1. CASE j < i
      <4>1. j \in 1..i - 1 /\ j <= Len(x)
        BY <1>1, <1>3, <1>4, <3>1
      <4>2. f[j] = x[j]
        BY <2>1, <2>2, <4>1
      <4> QED
        BY <1>4, <3>1, <4>1, <4>2
    <3>2. CASE ~(j < i)
      <4>1. j - (i - 1) \in 1..m - i /\ i + (j - (i - 1)) = j + 1
        BY <1>1, <1>3, <3>2
      <4>2. f[j] = y[j - (i - 1)]
        BY <1>1, <1>3, <1>4, <2>1, <2>2, <3>2
      <4> QED
        BY <1>5, <3>2, <4>1, <4>2
    <3> QED
      BY <3>1, <3>2
  <2> QED
    BY <2>1, <2>2, <2>3
<1>8. ChainFine(f, n, b)
  <2> SUFFICES ASSUME NEW j \in 1..m - 1
               PROVE  /\ Hash[f[j].key] % n = b
                      /\ \A l \in 1..m - 1 : f[l].key = f[j].key => l = j
    BY <1>7 DEF ChainFine
  <2>1. \A l \in 1..m - 1 : l \in 1..m /\ l + 1 \in 1..m
    BY <1>1
  <2>2. \A p \in 1..m : Hash[c[p].key] % n = b /\ \A q \in 1..m : c[q].key = c[p].key => q = p
    BY DEF ChainFine, m
  <2>3. Hash[f[j].key] % n = b
    BY <1>7, <2>1, <2>2
  <2>4. ASSUME NEW l \in 1..m - 1, f[l].key = f[j].key PROVE l = j
    <3> DEFINE p == IF j < i THEN j ELSE j + 1
               q == IF l < i THEN l ELSE l + 1
    <3>1. p \in 1..m /\ q \in 1..m /\ f[j] = c[p] /\ f[l] = c[q]
      BY <1>7, <2>1
    <3>2. p = q
      BY <2>2, <2>4, <3>1
    <3> QED
      BY <1>1, <1>3, <3>2
  <2> QED
    BY <2>3, <2>4
<1>9. ToSet(f) = ToSet(c) \ {c[i]}
  <2>1. ToSet(f) = {f[j] : j \in 1..m - 1} /\ ToSet(c) = {c[j] : j \in 1..m}
    BY <1>7, ChainSet DEF m
  <2>2. \A p \in 1..m : p # i => c[p] # c[i]
    BY <1>3 DEF ChainFine, m
  <2>3. ASSUME NEW j \in 1..m - 1 PROVE f[j] \in {c[p] : p \in 1..m} \ {c[i]}
    <3> DEFINE p == IF j < i THEN j ELSE j + 1
    <3>1. p \in 1..m /\ p # i /\ f[j] = c[p]
      BY <1>1, <1>3, <1>7
    <3> QED
      BY <2>2, <3>1
  <2>4. ASSUME NEW p \in 1..m, c[p] # c[i] PROVE c[p] \in {f[j] : j \in 1..m - 1}
    <3> DEFINE j == IF p < i THEN p ELSE p - 1
    <3>1. p # i
      BY <2>4
    <3>2. j \in 1..m - 1 /\ f[j] = c[p]
      BY <1>1, <1>3, <1>7, <3>1
    <3> QED
      BY <3>2
  <2> QED
    BY <2>1, <2>3, <2>4
<1> QED
  BY <1>7, <1>8, <1>9 DEF f

\* SetVal and Unlink in the table that holds the key.
Valued(t, b, k, v) == [t EXCEPT !.table[b] = ValuedChain(t.table[b], k, v)]
Dropped(t, b, i) == [[t EXCEPT !.table[b] = RemoveAt(t.table[b], i)] EXCEPT !.used = @ - 1]

LEMMA ValuedFine ==
    ASSUME NEW t, TableFine(t), NEW b \in 0..t.size - 1, NEW e \in ToSet(t.table[b]), NEW v \in Vals
    PROVE  LET p == Valued(t, b, e.key, v)
           IN  /\ TableFine(p) /\ p.size = t.size
               /\ Chained(p) = (Chained(t) \ {e}) \cup {[key |-> e.key, val |-> v]}
               /\ \A x \in 0..t.size - 1 : x # b => p.table[x] = t.table[x]
<1> DEFINE c == t.table[b]
           f == ValuedChain(c, e.key, v)
           p == Valued(t, b, e.key, v)
           g == [key |-> e.key, val |-> v]
           S == Chained(t)
           R == ToSet(c)
<1>1. t \in Table /\ t.size \in Nat /\ t.used \in Nat /\ t.table \in [0..t.size - 1 -> Seq(Entries)]
      /\ t = [size |-> t.size, used |-> t.used, table |-> t.table]
  BY TableType DEF TableFine
<1>2. c \in Seq(Entries) /\ ChainFine(c, t.size, b)
  BY <1>1 DEF TableFine
<1>3. PICK i \in 1..Len(c) : e = c[i]
  BY <1>2, ChainSet
<1>4. f \in Seq(Entries) /\ ChainFine(f, t.size, b) /\ ToSet(f) = (R \ {e}) \cup {g}
  <2>1. f = ValuedChain(c, c[i].key, v)
    BY <1>3
  <2> HIDE DEF c, f
  <2> QED
    BY <1>2, <1>3, <2>1, ChainValued
<1>5. R \subseteq S
  BY OfBucket
<1>6. p = [size |-> t.size, used |-> t.used, table |-> [t.table EXCEPT ![b] = f]]
  <2> DEFINE X == [t.table EXCEPT ![b] = f]
  <2>1. p = [t EXCEPT !.table = X]
    BY DEF Valued
  <2> HIDE DEF X, p
  <2>2. p = [size |-> t.size, used |-> t.used, table |-> X]
    BY <1>1, <2>1
  <2> QED
    BY <2>2 DEF X
<1> HIDE DEF p, f
<1>7. p.size = t.size /\ p.used = t.used /\ p.table = [t.table EXCEPT ![b] = f]
  BY <1>6
<1>8. p \in Table
  <2>1. [t.table EXCEPT ![b] = f] \in [0..t.size - 1 -> Seq(Entries)]
    BY <1>1, <1>4
  <2> QED
    BY <1>1, <1>6, <2>1, TableOf
<1>9. (S \ R) \cup ToSet(f) = (S \ {e}) \cup {g}
  BY <1>4, <1>5
<1>10. t.used = Cardinality((S \ {e}) \cup {g})
  <2>1. IsFiniteSet(S) /\ t.used = Cardinality(S) /\ e \in S
    BY <1>5 DEF TableFine
  <2>2. g \notin S \ {e}
    <3> SUFFICES ASSUME g \in S PROVE g = e
      OBVIOUS
    <3>1. g.key = e.key
      OBVIOUS
    <3> HIDE DEF g
    <3> QED
      BY <2>1, <3>1, KeyUnique
  <2> HIDE DEF S, g
  <2>3. IsFiniteSet(S \ {e}) /\ Cardinality(S \ {e}) = Cardinality(S) - 1
    BY <2>1, FS_RemoveElement
  <2>4. Cardinality((S \ {e}) \cup {g}) = Cardinality(S \ {e}) + 1
    BY <2>2, <2>3, FS_AddElement
  <2>5. Cardinality(S) \in Nat
    BY <2>1, FS_CardinalityType
  <2> QED
    BY <2>1, <2>3, <2>4, <2>5
<1>11. Rechain(t, b, f, p)
  BY <1>7, <1>9, <1>10 DEF Rechain
<1>12. TableFine(p) /\ Chained(p) = (S \ R) \cup ToSet(f)
  BY <1>4, <1>8, <1>11, Rechained
<1>13. \A x \in 0..t.size - 1 : x # b => p.table[x] = t.table[x]
  BY <1>1, <1>7
<1> QED
  BY <1>7, <1>9, <1>12, <1>13 DEF p

LEMMA DroppedFine ==
    ASSUME NEW t, TableFine(t), NEW b \in 0..t.size - 1, NEW i \in 1..Len(t.table[b])
    PROVE  LET p == Dropped(t, b, i)
           IN  /\ TableFine(p) /\ p.size = t.size
               /\ Chained(p) = Chained(t) \ {t.table[b][i]}
               /\ \A x \in 0..t.size - 1 : x # b => p.table[x] = t.table[x]
<1> DEFINE c == t.table[b]
           p == Dropped(t, b, i)
           f == RemoveAt(c, i)
           e == c[i]
           S == Chained(t)
           R == ToSet(c)
           u == t.used - 1
<1>1. t \in Table /\ t.size \in Nat /\ t.used \in Nat /\ t.table \in [0..t.size - 1 -> Seq(Entries)]
      /\ t = [size |-> t.size, used |-> t.used, table |-> t.table]
  BY TableType DEF TableFine
<1>2. c \in Seq(Entries) /\ ChainFine(c, t.size, b)
  BY <1>1 DEF TableFine
<1>3. f \in Seq(Entries) /\ ChainFine(f, t.size, b) /\ ToSet(f) = R \ {e}
  BY <1>2, ChainDropped
<1>4. e \in R /\ R \subseteq S
  BY <1>2, OfBucket, ChainSet
<1>5. p = [size |-> t.size, used |-> u, table |-> [t.table EXCEPT ![b] = f]]
  <2> DEFINE X == [t.table EXCEPT ![b] = f]
             q == [t EXCEPT !.table = X]
  <2>1. q = [size |-> t.size, used |-> t.used, table |-> X]
    <3> HIDE DEF X
    <3> QED
      BY <1>1
  <2>2. p = [q EXCEPT !.used = @ - 1]
    BY DEF Dropped
  <2> HIDE DEF X, q, p
  <2>3. p = [size |-> t.size, used |-> u, table |-> X]
    BY <2>1, <2>2
  <2> QED
    BY <2>3 DEF X
<1> HIDE DEF p
<1>6. p.size = t.size /\ p.used = u /\ p.table = [t.table EXCEPT ![b] = f]
  BY <1>5
<1>7. (S \ R) \cup ToSet(f) = S \ {e}
  BY <1>3, <1>4
<1>8. u = Cardinality(S \ {e}) /\ u \in Nat
  <2>1. IsFiniteSet(S) /\ t.used = Cardinality(S) /\ e \in S
    BY <1>4 DEF TableFine
  <2> HIDE DEF S, e
  <2>2. IsFiniteSet(S \ {e}) /\ Cardinality(S \ {e}) = Cardinality(S) - 1
    BY <2>1, FS_RemoveElement
  <2>3. Cardinality(S \ {e}) \in Nat
    BY <2>2, FS_CardinalityType
  <2> QED
    BY <2>1, <2>2, <2>3
<1>9. p \in Table
  <2>1. [t.table EXCEPT ![b] = f] \in [0..t.size - 1 -> Seq(Entries)]
    BY <1>1, <1>3
  <2> QED
    BY <1>1, <1>5, <1>8, <2>1, TableOf
<1>10. Rechain(t, b, f, p)
  BY <1>6, <1>7, <1>8 DEF Rechain
<1>11. TableFine(p) /\ Chained(p) = (S \ R) \cup ToSet(f)
  BY <1>3, <1>9, <1>10, Rechained
<1>12. \A x \in 0..t.size - 1 : x # b => p.table[x] = t.table[x]
  BY <1>1, <1>6
<1> QED
  BY <1>6, <1>7, <1>11, <1>12 DEF p

-----------------------------------------------------------------------------
(* What a recursive function gives, one step after the other.              *)

LEMMA SetInduction ==
    ASSUME NEW S \in SUBSET Nat, 0 \in S, \A n \in S : n + 1 \in S
    PROVE  S = Nat
<1> DEFINE R == OpToRel(LAMBDA i, j : i < j, Nat)
<1>1. IsWellFoundedOn(R, Nat)
  BY NatLessThanWellFounded
<1> SUFFICES ASSUME Nat \ S # {} PROVE FALSE
  OBVIOUS
<1>2. PICK n \in Nat \ S : \A m \in Nat \ S : ~(<<m, n>> \in R)
  <2>1. Nat \ S \subseteq Nat
    OBVIOUS
  <2> HIDE DEF R
  <2> QED
    BY <1>1, <2>1, WFMin
<1>3. n # 0 /\ n - 1 \in Nat /\ n - 1 < n
  OBVIOUS
<1>4. n - 1 \in S
  <2>1. n - 1 \notin S => <<n - 1, n>> \in R
    BY <1>3 DEF OpToRel
  <2> QED
    BY <1>2, <1>3, <2>1
<1>5. (n - 1) + 1 = n
  OBVIOUS
<1> QED
  BY <1>4, <1>5

\* f takes the steps F from x.
Steps(f, x, F, n) == f[0] = x /\ \A i \in 1..n : f[i] = F[i][f[i - 1]]

LEMMA StepsExist ==
    ASSUME NEW n \in Nat, NEW X, NEW x \in X, NEW F \in [1..n -> [X -> X]]
    PROVE  \E f \in [0..n -> X] : Steps(f, x, F, n)
<1> DEFINE S == {m \in Nat : m <= n => \E f \in [0..m -> X] : Steps(f, x, F, m)}
<1>1. 0 \in S
  <2> DEFINE f == [i \in 0..0 |-> x]
  <2>1. f \in [0..0 -> X] /\ f[0] = x /\ 1..0 = {}
    OBVIOUS
  <2>2. Steps(f, x, F, 0)
    BY <2>1 DEF Steps
  <2> HIDE DEF f
  <2> QED
    BY <2>1, <2>2
<1>2. ASSUME NEW m \in S PROVE m + 1 \in S
  <2> SUFFICES ASSUME m + 1 <= n PROVE \E f \in [0..m + 1 -> X] : Steps(f, x, F, m + 1)
    OBVIOUS
  <2>1. PICK g \in [0..m -> X] : Steps(g, x, F, m)
    OBVIOUS
  <2> DEFINE y == F[m + 1][g[m]]
             f == [i \in 0..m + 1 |-> IF i = m + 1 THEN y ELSE g[i]]
  <2>2. y \in X
    <3>1. m + 1 \in 1..n /\ m \in 0..m
      OBVIOUS
    <3>2. F[m + 1] \in [X -> X] /\ g[m] \in X
      BY <3>1
    <3> QED
      BY <3>2
  <2> HIDE DEF y
  <2>3. f \in [0..m + 1 -> X]
    <3> SUFFICES ASSUME NEW i \in 0..m + 1 PROVE (IF i = m + 1 THEN y ELSE g[i]) \in X
      OBVIOUS
    <3>1. i # m + 1 => i \in 0..m
      OBVIOUS
    <3> QED
      BY <2>2, <3>1
  <2>4. f[m + 1] = y /\ \A i \in 0..m : f[i] = g[i]
    OBVIOUS
  <2> HIDE DEF f
  <2>5. ASSUME NEW i \in 1..m + 1 PROVE f[i] = F[i][f[i - 1]]
    <3>1. i - 1 \in 0..m /\ f[i - 1] = g[i - 1]
      BY <2>4
    <3>2. CASE i = m + 1
      <4>1. i - 1 = m
        BY <3>2
      <4> QED
        BY <2>4, <3>1, <3>2, <4>1 DEF y
    <3>3. CASE i # m + 1
      <4>1. i \in 1..m /\ i \in 0..m
        BY <3>3
      <4>2. g[i] = F[i][g[i - 1]]
        BY <2>1, <4>1 DEF Steps
      <4> QED
        BY <2>4, <3>1, <4>1, <4>2
    <3> QED
      BY <3>2, <3>3
  <2>6. f[0] = x
    BY <2>1, <2>4 DEF Steps
  <2>7. Steps(f, x, F, m + 1)
    BY <2>5, <2>6 DEF Steps
  <2> QED
    BY <2>3, <2>7
<1>3. S = Nat
  <2> HIDE DEF S
  <2>1. S \in SUBSET Nat
    BY DEF S
  <2> QED
    BY <1>1, <1>2, <2>1, SetInduction
<1>4. n \in S
  BY <1>3
<1> QED
  BY <1>4


LEMMA PushType ==
    ASSUME NEW t \in Table, t.size # 0, NEW e \in Entries
    PROVE  Push(t, e) \in Table /\ Push(t, e).size = t.size
<1> DEFINE b == Index(e.key, t)
           X == [t.table EXCEPT ![b] = <<e>> \o @]
           u == t.used + 1
<1>1. t.size \in Nat /\ t.used \in Nat /\ t.table \in [0..t.size - 1 -> Seq(Entries)]
  BY TableType
<1>2. Push(t, e) = [[t EXCEPT !.table = X] EXCEPT !.used = u]
  BY DEF Push
<1>3. X \in [0..t.size - 1 -> Seq(Entries)]
  <2>1. b \in 0..t.size - 1
    BY EntryType, IndexType
  <2>2. t.table[b] \in Seq(Entries)
    BY <1>1, <2>1
  <2>3. <<e>> \o t.table[b] \in Seq(Entries)
    BY <2>2
  <2> QED
    BY <1>1, <2>3
<1>4. u \in Nat
  BY <1>1
<1> HIDE DEF X, u
<1>5. Push(t, e) = [size |-> t.size, used |-> u, table |-> X]
  BY <1>2, TableExcept
<1>6. [size |-> t.size, used |-> u, table |-> X] \in Table
  BY <1>1, <1>3, <1>4, TableOf
<1> QED
  BY <1>5, <1>6

LEMMA PushAllFine ==
    ASSUME NEW t, TableFine(t), t.size # 0, NEW c \in Seq(Entries), NEW m, NEW b, ChainFine(c, m, b),
           \A e \in ToSet(c) : e.key \notin KeysOf(t)
    PROVE  /\ TableFine(PushAll(t, c)) /\ PushAll(t, c).size = t.size
           /\ Chained(PushAll(t, c)) = Chained(t) \cup ToSet(c)
<1> DEFINE n == Len(c)
           X == {p \in Table : p.size = t.size}
           F == [i \in 1..n |-> [p \in X |-> Push(p, c[i])]]
           Follows(f) == f = [i \in 0..n |-> IF i = 0 THEN t ELSE Push(f[i - 1], c[i])]
           st == CHOOSE f : Follows(f)
<1>1. n \in Nat /\ t \in X /\ ToSet(c) = {c[j] : j \in 1..n} /\ \A i \in 1..n : c[i] \in Entries
  <2>1. c \in [1..n -> Entries]
    BY LenProperties
  <2> QED
    BY <2>1, LenProperties, ChainSet DEF TableFine
<1>2. F \in [1..n -> [X -> X]]
  <2> SUFFICES ASSUME NEW i \in 1..n, NEW p \in X PROVE Push(p, c[i]) \in X
    OBVIOUS
  <2> QED
    BY <1>1, PushType
<1>3. \E f : Follows(f)
  <2>1. PICK f \in [0..n -> X] : Steps(f, t, F, n)
    <3> HIDE DEF X, F, n
    <3> QED
      BY <1>1, <1>2, StepsExist
  <2>2. ASSUME NEW i \in 1..n PROVE f[i] = Push(f[i - 1], c[i])
    <3>1. i - 1 \in 0..n
      BY <1>1
    <3>2. f[i - 1] \in X
      BY <3>1
    <3>3. f[i] = F[i][f[i - 1]]
      BY <2>1 DEF Steps
    <3> QED
      BY <3>2, <3>3
  <2>3. f[0] = t
    BY <2>1 DEF Steps
  <2>4. \A i \in 0..n : f[i] = IF i = 0 THEN t ELSE Push(f[i - 1], c[i])
    BY <1>1, <2>2, <2>3
  <2>5. Follows(f)
    BY <2>4
  <2> QED
    BY <2>5
<1>4. st = [i \in 0..n |-> IF i = 0 THEN t ELSE Push(st[i - 1], c[i])]
  <2> HIDE DEF Follows
  <2>1. Follows(st)
    BY <1>3
  <2> QED
    BY <2>1 DEF Follows
<1>5. PushAll(t, c) = st[n]
  BY DEF PushAll
<1> HIDE DEF st, n, X, F
<1>6. st[0] = t /\ \A i \in 1..n : st[i] = Push(st[i - 1], c[i])
  BY <1>1, <1>4
<1> DEFINE S == {i \in Nat : i <= n => /\ TableFine(st[i]) /\ st[i].size = t.size
                                       /\ Chained(st[i]) = Chained(t) \cup {c[j] : j \in 1..i}}
<1>7. 0 \in S
  BY <1>6
<1>8. ASSUME NEW i \in S PROVE i + 1 \in S
  <2> SUFFICES ASSUME i + 1 <= n
               PROVE  /\ TableFine(st[i + 1]) /\ st[i + 1].size = t.size
                      /\ Chained(st[i + 1]) = Chained(t) \cup {c[j] : j \in 1..i + 1}
    OBVIOUS
  <2> DEFINE p == st[i]
             e == c[i + 1]
  <2>1. TableFine(p) /\ p.size # 0 /\ p.size = t.size /\ Chained(p) = Chained(t) \cup {c[j] : j \in 1..i}
    BY <1>1
  <2>2. i + 1 \in 1..n /\ st[i + 1] = Push(p, e)
    <3>1. i + 1 \in 1..n /\ (i + 1) - 1 = i
      BY <1>1
    <3> QED
      BY <1>6, <3>1
  <2>3. e \in Entries /\ e \in ToSet(c)
    BY <1>1, <2>2
  <2>4. e.key \notin KeysOf(p)
    <3> SUFFICES ASSUME NEW f \in Chained(p), f.key = e.key PROVE FALSE
      BY DEF KeysOf
    <3>1. CASE f \in Chained(t)
      BY <2>3, <3>1 DEF KeysOf
    <3>2. ASSUME NEW j \in 1..i, f = c[j] PROVE FALSE
      <4>1. j \in 1..n /\ j # i + 1
        BY <1>1
      <4> QED
        BY <2>2, <3>2, <4>1 DEF ChainFine, n
    <3> QED
      BY <2>1, <3>1, <3>2
  <2>5. {c[j] : j \in 1..i + 1} = {c[j] : j \in 1..i} \cup {e}
    OBVIOUS
  <2> HIDE DEF p, e
  <2>6. TableFine(Push(p, e)) /\ Push(p, e).size = p.size /\ Chained(Push(p, e)) = Chained(p) \cup {e}
    BY <2>1, <2>3, <2>4, PushFine
  <2> QED
    BY <2>1, <2>2, <2>5, <2>6
<1>9. S = Nat
  <2> HIDE DEF S
  <2>1. S \in SUBSET Nat
    BY DEF S
  <2> QED
    BY <1>7, <1>8, <2>1, SetInduction
<1>10. n \in S
  BY <1>1, <1>9
<1> QED
  BY <1>1, <1>5, <1>10

-----------------------------------------------------------------------------
(* Dictionaries.                                                           *)

\* A power of two, as far as the odd numbers can tell.
Power(n) == n \in Nat \ {0} /\ \A q \in 2..n : n % q = 0 => q % 2 = 0

Dicts == [ht : [{0, 1} -> Table], rehashidx : Int, iterators : Int, can_resize : BOOLEAN]

Content(dd) == Chained(dd.ht[0]) \cup Chained(dd.ht[1])

\* A key is in one of the two tables; nothing is left in the buckets that were
\* moved; the second table is there while the first is rehashed.
DictFine(dd) ==
    /\ dd \in Dicts
    /\ \A i \in {0, 1} : TableFine(dd.ht[i]) /\ (dd.ht[i].size = 0 \/ Power(dd.ht[i].size))
    /\ KeysOf(dd.ht[0]) \cap KeysOf(dd.ht[1]) = {}
    /\ dd.rehashidx \in -1..dd.ht[0].size
    /\ \A b \in 0..dd.rehashidx - 1 : dd.ht[0].table[b] = <<>>
    /\ IF dictIsRehashing(dd) THEN dd.ht[0].size # 0 /\ dd.ht[1].size # 0 ELSE dd.ht[1].size = 0

\* x is dd with other tables and another position.
With(dd, h0, h1, r, x) ==
    /\ x \in Dicts /\ x.ht[0] = h0 /\ x.ht[1] = h1 /\ x.rehashidx = r
    /\ x.iterators = dd.iterators /\ x.can_resize = dd.can_resize

\* x holds what dd holds.
Like(dd, x) == DictFine(x) /\ Content(x) = Content(dd) /\ x.iterators = dd.iterators

LEMMA DictType ==
    ASSUME NEW dd \in Dicts
    PROVE  /\ dd.ht \in [{0, 1} -> Table] /\ dd.ht[0] \in Table /\ dd.ht[1] \in Table
           /\ dd.rehashidx \in Int /\ dd.iterators \in Int /\ dd.can_resize \in BOOLEAN
           /\ dd = [ht |-> dd.ht, rehashidx |-> dd.rehashidx, iterators |-> dd.iterators,
                    can_resize |-> dd.can_resize]
BY DEF Dicts

LEMMA DictFirst ==
    ASSUME NEW dd \in Dicts, NEW h \in Table
    PROVE  With(dd, h, dd.ht[1], dd.rehashidx, [dd EXCEPT !.ht[0] = h])
BY DEF Dicts, With

LEMMA DictSecond ==
    ASSUME NEW dd \in Dicts, NEW h \in Table
    PROVE  With(dd, dd.ht[0], h, dd.rehashidx, [dd EXCEPT !.ht[1] = h])
BY DEF Dicts, With

LEMMA DictPlace ==
    ASSUME NEW dd \in Dicts, NEW r \in Int
    PROVE  With(dd, dd.ht[0], dd.ht[1], r, [dd EXCEPT !.rehashidx = r])
BY DEF Dicts, With

LEMMA DictSet ==
    ASSUME NEW dd \in Dicts, NEW g \in Table, NEW h \in Table, NEW r \in Int
    PROVE  With(dd, g, h, r, [dd EXCEPT !.ht[0] = g, !.ht[1] = h, !.rehashidx = r])
<1> DEFINE x == [dd EXCEPT !.ht[0] = g]
           y == [x EXCEPT !.ht[1] = h]
           z == [y EXCEPT !.rehashidx = r]
<1>1. With(dd, g, dd.ht[1], dd.rehashidx, x)
  BY DictFirst
<1> HIDE DEF x
<1>2. With(x, x.ht[0], h, x.rehashidx, y)
  BY <1>1, DictSecond DEF With
<1> HIDE DEF y
<1>3. With(y, y.ht[0], y.ht[1], r, z)
  BY <1>2, DictPlace DEF With
<1>4. z = [dd EXCEPT !.ht[0] = g, !.ht[1] = h, !.rehashidx = r]
  BY DEF x, y
<1> HIDE DEF z
<1>5. With(dd, g, h, r, z)
  BY <1>1, <1>2, <1>3 DEF With
<1> QED
  BY <1>4, <1>5

-----------------------------------------------------------------------------
(* Rehashing.                                                              *)

LEMMA LeastOf ==
    ASSUME NEW S \in SUBSET Nat, S # {}
    PROVE  Min(S) \in S /\ \A x \in S : Min(S) <= x
<1> DEFINE R == OpToRel(LAMBDA i, j : i < j, Nat)
<1>1. IsWellFoundedOn(R, Nat)
  BY NatLessThanWellFounded
<1>2. PICK n \in S : \A m \in S : ~(<<m, n>> \in R)
  <2> HIDE DEF R
  <2> QED
    BY <1>1, WFMin
<1>3. ASSUME NEW m \in S PROVE n <= m
  <2>1. m < n => <<m, n>> \in R
    BY DEF OpToRel
  <2> HIDE DEF R
  <2> QED
    BY <1>2, <2>1
<1> QED
  BY <1>3 DEF Min

LEMMA NothingChained ==
    ASSUME NEW t, TableFine(t)
    PROVE  /\ t.used = 0 => Chained(t) = {}
           /\ t.used # 0 => \E b \in 0..t.size - 1 : t.table[b] # <<>>
           /\ t.size = 0 => Chained(t) = {} /\ t.used = 0
<1>1. t \in Table /\ IsFiniteSet(Chained(t)) /\ t.used = Cardinality(Chained(t)) /\ t.size \in Nat
  BY TableType DEF TableFine
<1>2. t.used = 0 <=> Chained(t) = {}
  BY <1>1, FS_EmptySet
<1>3. ASSUME NEW e \in Chained(t) PROVE \E b \in 0..t.size - 1 : t.table[b] # <<>>
  <2>1. PICK b \in 0..t.size - 1 : \E j \in 1..Len(t.table[b]) : e = t.table[b][j]
    BY <1>1, InChained
  <2>2. Len(t.table[b]) # 0
    BY <2>1
  <2>3. t.table[b] # <<>>
    BY <2>2
  <2> QED
    BY <2>3
<1>4. t.size = 0 => Chained(t) = {}
  BY <1>1, <1>3
<1> QED
  BY <1>2, <1>3, <1>4

\* The two tables of x hold what those of dd held.
LEMMA LikeOf ==
    ASSUME NEW dd, DictFine(dd), NEW g, NEW h, NEW r, NEW x, With(dd, g, h, r, x),
           TableFine(g), TableFine(h), g.size = 0 \/ Power(g.size), h.size = 0 \/ Power(h.size),
           KeysOf(g) \cap KeysOf(h) = {}, r \in -1..g.size,
           \A b \in 0..r - 1 : g.table[b] = <<>>,
           IF r # -1 THEN g.size # 0 /\ h.size # 0 ELSE h.size = 0,
           Chained(g) \cup Chained(h) = Content(dd)
    PROVE  Like(dd, x)
<1>1. x \in Dicts /\ x.ht[0] = g /\ x.ht[1] = h /\ x.rehashidx = r /\ x.iterators = dd.iterators
  BY DEF With
<1> QED
  BY <1>1 DEF Like, DictFine, Content, dictIsRehashing

LEMMA MoveBucketFine ==
    ASSUME NEW dd, DictFine(dd), dictIsRehashing(dd), NEW b \in 0..dd.ht[0].size - 1,
           \A i \in 0..b - 1 : dd.ht[0].table[i] = <<>>
    PROVE  Like(dd, MoveBucket(dd, b)) /\ dictIsRehashing(MoveBucket(dd, b))
<1> DEFINE s == dd.ht[0]
           t == dd.ht[1]
           c == s.table[b]
           g == Emptied(s, b)
           h == PushAll(t, c)
           x == MoveBucket(dd, b)
<1>1. /\ dd \in Dicts /\ TableFine(s) /\ TableFine(t) /\ KeysOf(s) \cap KeysOf(t) = {}
      /\ s.size # 0 /\ t.size # 0 /\ Power(s.size) /\ Power(t.size)
  BY DEF DictFine
<1>2. s \in Table /\ s.size \in Nat /\ s.table \in [0..s.size - 1 -> Seq(Entries)]
  BY <1>1, TableType DEF TableFine
<1>3. c \in Seq(Entries) /\ ChainFine(c, s.size, b) /\ ToSet(c) \subseteq Chained(s)
  BY <1>1, <1>2, OfBucket DEF TableFine
<1>4. TableFine(g) /\ g.size = s.size /\ g.table = [s.table EXCEPT ![b] = <<>>]
      /\ Chained(g) = Chained(s) \ ToSet(c)
  <2>1. TableFine(s) /\ b \in 0..s.size - 1
    BY <1>1
  <2> HIDE DEF s
  <2> QED
    BY <2>1, EmptiedFine
<1>5. TableFine(h) /\ h.size = t.size /\ Chained(h) = Chained(t) \cup ToSet(c)
  <2>1. \A e \in ToSet(c) : e.key \notin KeysOf(t)
    BY <1>1, <1>3 DEF KeysOf
  <2> HIDE DEF s, t, c
  <2> QED
    BY <1>1, <1>3, <2>1, PushAllFine
<1>6. With(dd, g, h, b + 1, x)
  <2>1. x = [dd EXCEPT !.ht[0] = g, !.ht[1] = h, !.rehashidx = b + 1]
    BY <1>1, DictType DEF MoveBucket
  <2>2. g \in Table /\ h \in Table /\ b + 1 \in Int
    BY <1>4, <1>5 DEF TableFine
  <2> HIDE DEF g, h, x
  <2> QED
    BY <1>1, <2>1, <2>2, DictSet
<1>7. KeysOf(g) \cap KeysOf(h) = {}
  <2> SUFFICES ASSUME NEW e \in Chained(g), NEW f \in Chained(h), e.key = f.key PROVE FALSE
    BY DEF KeysOf
  <2>1. e \in Chained(s) /\ e \notin ToSet(c)
    BY <1>4
  <2>2. CASE f \in Chained(t)
    BY <1>1, <2>1, <2>2 DEF KeysOf
  <2>3. CASE f \in ToSet(c)
    <3>1. f \in Chained(s)
      BY <1>3, <2>3
    <3> HIDE DEF s
    <3>2. e = f
      BY <1>1, <2>1, <3>1, KeyUnique
    <3> QED
      BY <2>1, <2>3, <3>2
  <2> QED
    BY <1>5, <2>2, <2>3
<1>8. \A i \in 0..(b + 1) - 1 : g.table[i] = <<>>
  <2> SUFFICES ASSUME NEW i \in 0..b PROVE g.table[i] = <<>>
    OBVIOUS
  <2>1. i \in 0..s.size - 1
    BY <1>2
  <2>2. i # b => i \in 0..b - 1 /\ s.table[i] = <<>>
    OBVIOUS
  <2> QED
    BY <1>2, <1>4, <2>1, <2>2
<1>9. Chained(g) \cup Chained(h) = Content(dd)
  BY <1>3, <1>4, <1>5 DEF Content
<1>10. b + 1 \in -1..g.size /\ b + 1 # -1
  BY <1>2, <1>4
<1> HIDE DEF g, h, x, s, t, c
<1>11. Like(dd, x)
  BY <1>1, <1>4, <1>5, <1>6, <1>7, <1>8, <1>9, <1>10, LikeOf
<1>12. dictIsRehashing(x)
  BY <1>6, <1>10 DEF With, dictIsRehashing
<1> QED
  BY <1>11, <1>12 DEF x

\* A step of dictRehash on what dd holds.
Works == [d : Dicts, visits : Nat \ {0}, stop : BOOLEAN]
Working(dd, st) == st \in Works /\ Like(dd, st.d) /\ dictIsRehashing(st.d)

LEMMA LikeTrans ==
    ASSUME NEW x, NEW y, NEW z, Like(x, y), Like(y, z)
    PROVE  Like(x, z)
BY DEF Like

LEMMA RehashBucketFine ==
    ASSUME NEW dd, NEW st, Working(dd, st)
    PROVE  Working(dd, RehashBucket(st))
<1> DEFINE x == st.d
           t == x.ht[0]
           full == {i \in x.rehashidx..t.size - 1 : t.table[i] # <<>>}
           m == Min(full)
           empty == m - x.rehashidx
<1>1. /\ st \in Works /\ DictFine(x) /\ Like(dd, x) /\ dictIsRehashing(x)
      /\ x \in Dicts /\ st.visits \in Nat \ {0} /\ st.stop \in BOOLEAN
      /\ st = [d |-> x, visits |-> st.visits, stop |-> st.stop]
  BY DEF Working, Works, Like
<1>2. /\ TableFine(t) /\ t \in Table /\ t.size \in Nat /\ x.rehashidx \in 0..t.size
      /\ \A b \in 0..x.rehashidx - 1 : t.table[b] = <<>>
  BY <1>1, TableType DEF DictFine, TableFine, dictIsRehashing
<1>3. CASE st.stop \/ t.used = 0
  <2>1. RehashBucket(st) = st
    BY <1>3 DEF RehashBucket
  <2> QED
    BY <2>1
<1>4. CASE ~(st.stop \/ t.used = 0)
  <2>1. full # {} /\ full \in SUBSET Nat
    <3>1. \E b \in 0..t.size - 1 : t.table[b] # <<>>
      BY <1>2, <1>4, NothingChained
    <3>2. PICK b \in 0..t.size - 1 : t.table[b] # <<>>
      BY <3>1
    <3>3. b \in x.rehashidx..t.size - 1
      BY <1>2, <3>2
    <3>4. b \in full
      BY <3>2, <3>3
    <3> QED
      BY <1>2, <3>4
  <2>2. m \in full /\ \A i \in full : m <= i
    <3> HIDE DEF full
    <3> QED
      BY <2>1, LeastOf
  <2>3. m \in 0..t.size - 1 /\ m >= x.rehashidx /\ \A i \in 0..m - 1 : t.table[i] = <<>>
    <3>1. m \in x.rehashidx..t.size - 1
      BY <2>2
    <3> HIDE DEF m
    <3>2. ASSUME NEW i \in 0..m - 1, t.table[i] # <<>> PROVE FALSE
      <4>1. i \in x.rehashidx..t.size - 1
        BY <1>2, <3>1, <3>2
      <4>2. i \in full
        BY <3>2, <4>1
      <4> QED
        BY <1>2, <2>2, <3>1, <4>2
    <3> QED
      BY <1>2, <3>1, <3>2
  <2> HIDE DEF full
  <2> HIDE DEF m
  <2>4. CASE empty >= st.visits
    <3> DEFINE r == x.rehashidx + st.visits
               y == [x EXCEPT !.rehashidx = r]
               z == [d |-> y, visits |-> st.visits, stop |-> TRUE]
    <3>1. r \in Int /\ r \in 0..m
      BY <1>1, <1>2, <2>3, <2>4
    <3>2. RehashBucket(st) = [st EXCEPT !.d.rehashidx = @ + st.visits, !.stop = TRUE]
      BY <1>4, <2>4 DEF RehashBucket, full, m
    <3>3. RehashBucket(st) = z
      <4>1. [st EXCEPT !.d.rehashidx = @ + st.visits] = [d |-> y, visits |-> st.visits, stop |-> st.stop]
        BY <1>1
      <4> HIDE DEF y
      <4> QED
        BY <3>2, <4>1
    <3>4. With(x, t, x.ht[1], r, y)
      <4> HIDE DEF x, r
      <4> QED
        BY <1>1, <3>1, DictPlace
    <3>5. \A i \in 0..r - 1 : t.table[i] = <<>>
      BY <2>3, <3>1
    <3>6. r \in -1..t.size /\ r # -1
      BY <1>2, <2>3, <3>1
    <3>7. /\ TableFine(x.ht[1]) /\ (t.size = 0 \/ Power(t.size))
          /\ (x.ht[1].size = 0 \/ Power(x.ht[1].size))
          /\ KeysOf(t) \cap KeysOf(x.ht[1]) = {} /\ t.size # 0 /\ x.ht[1].size # 0
      BY <1>1 DEF DictFine
    <3>8. Chained(t) \cup Chained(x.ht[1]) = Content(x)
      BY DEF Content
    <3> HIDE DEF y, r
    <3>9. Like(x, y)
      <4> DEFINE h == x.ht[1]
      <4> HIDE DEF t, h, x
      <4> QED
        BY <1>1, <1>2, <3>4, <3>5, <3>6, <3>7, <3>8, LikeOf DEF h
    <3>10. Like(dd, y) /\ dictIsRehashing(y) /\ y \in Dicts
      BY <1>1, <3>4, <3>6, <3>9, LikeTrans DEF With, dictIsRehashing
    <3>11. z \in Works
      BY <1>1, <3>10 DEF Works
    <3> QED
      BY <3>3, <3>10, <3>11 DEF Working
  <2>5. CASE ~(empty >= st.visits)
    <3> DEFINE y == MoveBucket(x, m)
               v == st.visits - empty
               z == [d |-> y, visits |-> v, stop |-> st.stop]
    <3>1. RehashBucket(st) = [st EXCEPT !.d = MoveBucket(x, m), !.visits = @ - empty]
      BY <1>4, <2>5 DEF RehashBucket, full, m
    <3>2. RehashBucket(st) = z
      <4> HIDE DEF y
      <4>1. RehashBucket(st) = [st EXCEPT !.d = y, !.visits = @ - empty]
        BY <3>1 DEF y
      <4> QED
        BY <1>1, <4>1
    <3>3. Like(x, y) /\ dictIsRehashing(y)
      <4> HIDE DEF x
      <4> QED
        BY <1>1, <2>3, MoveBucketFine
    <3> HIDE DEF y
    <3>4. Like(dd, y) /\ y \in Dicts
      BY <1>1, <3>3, LikeTrans DEF Like, DictFine
    <3>5. v \in Nat \ {0}
      BY <1>1, <1>2, <2>3, <2>5
    <3> HIDE DEF v
    <3>6. z \in Works
      BY <1>1, <3>4, <3>5 DEF Works
    <3> QED
      BY <3>2, <3>3, <3>4, <3>6 DEF Working
  <2> QED
    BY <2>4, <2>5
<1> QED
  BY <1>3, <1>4

LEMMA LikeSelf ==
    ASSUME NEW dd, DictFine(dd)
    PROVE  Like(dd, dd)
BY DEF Like

LEMMA RehashFine ==
    ASSUME NEW dd, DictFine(dd), NEW n \in Nat \ {0}
    PROVE  Like(dd, dictRehash(dd, n))
<1> DEFINE st0 == [d |-> dd, visits |-> n * EmptyVisits, stop |-> FALSE]
           X == {s \in Works : Working(dd, s)}
           F == [i \in 1..n |-> [s \in X |-> RehashBucket(s)]]
           Follows(f) == f = [i \in 0..n |-> IF i = 0 THEN st0 ELSE RehashBucket(f[i - 1])]
           st == CHOOSE f : Follows(f)
           x == st[n].d
           last == [x EXCEPT !.ht[0] = x.ht[1], !.ht[1] = NewTable(0), !.rehashidx = -1]
<1>1. CASE ~dictIsRehashing(dd)
  <2>1. dictRehash(dd, n) = dd
    BY <1>1 DEF dictRehash
  <2> QED
    BY <2>1, LikeSelf
<1>2. CASE dictIsRehashing(dd)
  <2>1. st0 \in X
    <3>1. n * EmptyVisits \in Nat \ {0}
      <4>1. n >= 1 /\ EmptyVisits >= 1 /\ EmptyVisits \in Nat
        BY SizeAssumption
      <4> QED
        BY <4>1
    <3>2. dd \in Dicts
      BY DEF DictFine
    <3>3. st0 \in Works
      BY <3>1, <3>2 DEF Works
    <3> QED
      BY <1>2, <3>3, LikeSelf DEF Working
  <2>2. F \in [1..n -> [X -> X]]
    <3> SUFFICES ASSUME NEW i \in 1..n, NEW s \in X PROVE RehashBucket(s) \in X
      OBVIOUS
    <3>1. Working(dd, RehashBucket(s))
      BY RehashBucketFine
    <3> QED
      BY <3>1 DEF Working
  <2>3. \E f : Follows(f)
    <3>1. PICK f \in [0..n -> X] : Steps(f, st0, F, n)
      <4> HIDE DEF X, F, st0
      <4> QED
        BY <2>1, <2>2, StepsExist
    <3>2. ASSUME NEW i \in 1..n PROVE f[i] = RehashBucket(f[i - 1])
      <4>1. i - 1 \in 0..n
        OBVIOUS
      <4>2. f[i - 1] \in X
        BY <4>1
      <4>3. f[i] = F[i][f[i - 1]]
        BY <3>1 DEF Steps
      <4> QED
        BY <4>2, <4>3
    <3> HIDE DEF st0
    <3>3. f[0] = st0
      BY <3>1 DEF Steps
    <3>4. \A i \in 0..n : f[i] = IF i = 0 THEN st0 ELSE RehashBucket(f[i - 1])
      BY <3>2, <3>3
    <3>5. Follows(f)
      BY <3>4
    <3> QED
      BY <3>5
  <2>4. st = [i \in 0..n |-> IF i = 0 THEN st0 ELSE RehashBucket(st[i - 1])]
    <3> HIDE DEF Follows
    <3>1. Follows(st)
      BY <2>3
    <3> QED
      BY <3>1 DEF Follows
  <2>5. dictRehash(dd, n) = IF st[n].stop \/ x.ht[0].used # 0 THEN x ELSE last
    BY <1>2 DEF dictRehash
  <2> HIDE DEF st, st0
  <2> DEFINE S == {i \in Nat : i <= n => Working(dd, st[i])}
  <2>6. 0 \in S
    BY <2>1, <2>4
  <2>7. ASSUME NEW i \in S PROVE i + 1 \in S
    <3> SUFFICES ASSUME i + 1 <= n PROVE Working(dd, st[i + 1])
      OBVIOUS
    <3>1. Working(dd, st[i]) /\ i + 1 \in 0..n /\ (i + 1) - 1 = i /\ i + 1 # 0
      OBVIOUS
    <3>2. st[i + 1] = RehashBucket(st[i])
      BY <2>4, <3>1
    <3> QED
      BY <3>1, <3>2, RehashBucketFine
  <2>8. S = Nat
    <3> HIDE DEF S
    <3>1. S \in SUBSET Nat
      BY DEF S
    <3> QED
      BY <2>6, <2>7, <3>1, SetInduction
  <2>9. Working(dd, st[n])
    <3>1. n \in S
      BY <2>8
    <3> QED
      BY <3>1
  <2>10. Like(dd, x) /\ DictFine(x) /\ dictIsRehashing(x) /\ x \in Dicts
    BY <2>9 DEF Working, Like, DictFine
  <2> HIDE DEF x
  <2>11. ASSUME x.ht[0].used = 0 PROVE Like(dd, last)
    <3> DEFINE t == x.ht[1]
               e == NewTable(0)
    <3>1. /\ TableFine(x.ht[0]) /\ TableFine(t) /\ Power(t.size) /\ t.size # 0
          /\ t \in Table /\ t.size \in Nat
      BY <2>10, TableType DEF DictFine, TableFine
    <3>2. TableFine(e) /\ e.size = 0 /\ Chained(e) = {} /\ e \in Table
      BY NewTableFine DEF TableFine
    <3>3. Chained(x.ht[0]) = {}
      BY <2>11, <3>1, NothingChained
    <3>4. With(x, t, e, -1, last)
      <4> HIDE DEF e
      <4>1. last = [x EXCEPT !.ht[0] = t, !.ht[1] = e, !.rehashidx = -1]
        BY DEF e
      <4>2. x \in Dicts /\ t \in Table /\ e \in Table /\ -1 \in Int
        BY <2>10, <3>1, <3>2
      <4> HIDE DEF last, t
      <4>3. With(x, t, e, -1, [x EXCEPT !.ht[0] = t, !.ht[1] = e, !.rehashidx = -1])
        BY <4>2, DictSet
      <4> QED
        BY <4>1, <4>3
    <3>5. Chained(t) \cup Chained(e) = Content(x)
      BY <3>2, <3>3 DEF Content
    <3>6. KeysOf(t) \cap KeysOf(e) = {}
      BY <3>2 DEF KeysOf
    <3>7. -1 \in -1..t.size /\ \A b \in 0..-1 - 1 : t.table[b] = <<>>
      BY <3>1
    <3> HIDE DEF t, e, last
    <3>8. Like(x, last)
      BY <2>10, <3>1, <3>2, <3>4, <3>5, <3>6, <3>7, LikeOf
    <3> QED
      BY <2>10, <3>8, LikeTrans
  <2> QED
    BY <2>5, <2>10, <2>11
<1> QED
  BY <1>1, <1>2

LEMMA RehashStepFine ==
    ASSUME NEW dd, DictFine(dd)
    PROVE  Like(dd, RehashStep(dd)) /\ Like(dd, Find(dd))
<1>1. Like(dd, RehashStep(dd))
  BY LikeSelf, RehashFine DEF RehashStep
<1> QED
  BY <1>1, LikeSelf DEF Find

-----------------------------------------------------------------------------
(* Resizing.                                                               *)

\* What is left when q divides a is nothing.
LEMMA NoRemainder ==
    ASSUME NEW a \in Nat, NEW q \in Nat \ {0}, NEW y \in Int, a = q * y
    PROVE  a % q = 0
<1> DEFINE x == a \div q
           r == a % q
<1>1. x \in Int /\ r \in 0..q - 1 /\ a = q * x + r
  OBVIOUS
<1> HIDE DEF x, r
<1>2. q * (y - x) = q * y - q * x
  BY <1>1
<1>3. q * (y - x) = r
  BY <1>1, <1>2
<1>4. CASE y - x >= 1
  <2>1. q * (y - x) >= q
    BY <1>1, <1>4
  <2> QED
    BY <1>1, <1>3, <2>1
<1>5. CASE y - x <= -1
  <2>1. q * (y - x) < 0
    BY <1>1, <1>5
  <2> QED
    BY <1>1, <1>3, <2>1
<1>6. CASE y - x = 0
  BY <1>1, <1>3, <1>6 DEF r
<1> QED
  BY <1>1, <1>4, <1>5, <1>6

LEMMA PowerDoubled ==
    ASSUME NEW n, Power(n)
    PROVE  Power(n * 2)
<1>1. n \in Nat \ {0}
  BY DEF Power
<1> SUFFICES ASSUME NEW q \in 2..n * 2, (n * 2) % q = 0, q % 2 # 0 PROVE FALSE
  BY <1>1 DEF Power
<1> DEFINE c == (n * 2) \div q
           s == q \div 2
<1>2. q \in Nat \ {0} /\ c \in Int /\ n * 2 = q * c
  BY <1>1
<1>3. s \in Int /\ q = 2 * s + 1
  BY <1>2
<1> HIDE DEF c, s
<1>4. (2 * s + 1) * c = 2 * (s * c) + c
  BY <1>2, <1>3
<1>5. n * 2 = 2 * (s * c) + c
  BY <1>2, <1>3, <1>4
<1> DEFINE y == n - s * c
<1>6. y \in Int /\ c = 2 * y
  <2>1. s * c \in Int
    BY <1>2, <1>3
  <2> QED
    BY <1>1, <1>2, <1>5, <2>1
<1> HIDE DEF y
<1>7. q * (2 * y) = 2 * (q * y)
  BY <1>2, <1>6
<1>8. n = q * y
  <2>1. q * y \in Int
    BY <1>2, <1>6
  <2> QED
    BY <1>1, <1>2, <1>6, <1>7, <2>1
<1>9. n % q = 0
  BY <1>1, <1>2, <1>6, <1>8, NoRemainder
<1>10. q <= n
  BY <1>1, <1>2, <1>9
<1>11. q \in 2..n
  BY <1>10
<1> QED
  BY <1>9, <1>11 DEF Power

\* f follows the definition of NextPower(n).
Doubling(f, n) == f = [i \in Nat |-> IF i >= n THEN i ELSE f[i * 2]]

LEMMA DoublingExists ==
    ASSUME NEW n \in Nat
    PROVE  \E f : Doubling(f, n)
<1> DEFINE Right(f, i) == f[i] = IF i >= n THEN i ELSE f[i * 2]
           S == {k \in Nat : \E f \in [Nat -> Nat] : \A i \in Nat : i + k >= n => Right(f, i)}
<1>1. 0 \in S
  <2> DEFINE f == [i \in Nat |-> i]
  <2>1. f \in [Nat -> Nat] /\ \A i \in Nat : i + 0 >= n => Right(f, i)
    OBVIOUS
  <2> HIDE DEF f
  <2> QED
    BY <2>1
<1>2. ASSUME NEW k \in S PROVE k + 1 \in S
  <2>1. PICK f \in [Nat -> Nat] : \A i \in Nat : i + k >= n => Right(f, i)
    OBVIOUS
  <2> DEFINE j == n - (k + 1)
             v == f[j * 2]
             g == [i \in Nat |-> IF i = j THEN v ELSE f[i]]
  <2>2. CASE j < 0
    <3>1. \A i \in Nat : i + (k + 1) >= n => i + k >= n
      BY <2>2
    <3>2. \A i \in Nat : i + (k + 1) >= n => Right(f, i)
      BY <2>1, <3>1
    <3> QED
      BY <3>2
  <2>3. CASE j >= 0
    <3>1. j \in Nat /\ v \in Nat /\ j < n
      BY <2>3
    <3> HIDE DEF v
    <3>2. g \in [Nat -> Nat] /\ \A i \in Nat : g[i] = IF i = j THEN v ELSE f[i]
      BY <3>1
    <3> HIDE DEF g
    <3>3. ASSUME NEW i \in Nat, i + (k + 1) >= n PROVE Right(g, i)
      <4>1. CASE i # j
        <5>1. i + k >= n /\ i * 2 \in Nat /\ i * 2 # j
          BY <2>3, <3>3, <4>1
        <5>2. Right(f, i)
          BY <2>1, <5>1
        <5>3. g[i] = f[i] /\ g[i * 2] = f[i * 2]
          BY <3>2, <4>1, <5>1
        <5> QED
          BY <5>2, <5>3
      <4>2. CASE i = j
        <5>1. g[i] = v /\ ~(i >= n)
          BY <3>1, <3>2, <4>2
        <5>2. g[i * 2] = v
          <6>1. i * 2 \in Nat
            OBVIOUS
          <6>2. CASE i * 2 = j
            BY <3>2, <6>1, <6>2
          <6>3. CASE i * 2 # j
            BY <3>2, <4>2, <6>1, <6>3 DEF v
          <6> QED
            BY <6>2, <6>3
        <5> QED
          BY <5>1, <5>2
      <4> QED
        BY <4>1, <4>2
    <3> HIDE DEF Right
    <3> QED
      BY <3>2, <3>3
  <2> QED
    BY <2>2, <2>3
<1>3. S = Nat
  <2> HIDE DEF S
  <2>1. S \in SUBSET Nat
    BY DEF S
  <2> QED
    BY <1>1, <1>2, <2>1, SetInduction
<1>4. PICK f \in [Nat -> Nat] : \A i \in Nat : i + n >= n => Right(f, i)
  BY <1>3
<1>5. \A i \in Nat : Right(f, i)
  BY <1>4
<1>6. Doubling(f, n)
  BY <1>5 DEF Doubling
<1> QED
  BY <1>6

LEMMA InitialPower == Power(InitialSize)
BY SizeAssumption DEF Power

LEMMA NextPowerFine ==
    ASSUME NEW n \in Nat
    PROVE  Power(NextPower(n)) /\ (n = InitialSize => NextPower(n) = n)
<1> DEFINE p == CHOOSE f : Doubling(f, n)
<1>1. Doubling(p, n)
  BY DoublingExists
<1>2. NextPower(n) = p[InitialSize]
  BY DEF NextPower, Doubling
<1> HIDE DEF p
<1>3. \A i \in Nat : p[i] = IF i >= n THEN i ELSE p[i * 2]
  BY <1>1 DEF Doubling
<1> DEFINE S == {k \in Nat : \A i \in Nat : i + k >= n /\ Power(i) => Power(p[i])}
<1>4. 0 \in S
  BY <1>3
<1>5. ASSUME NEW k \in S PROVE k + 1 \in S
  <2> SUFFICES ASSUME NEW i \in Nat, i + (k + 1) >= n, Power(i) PROVE Power(p[i])
    OBVIOUS
  <2>1. CASE i >= n
    BY <1>3, <2>1
  <2>2. CASE ~(i >= n)
    <3>1. i # 0 /\ i * 2 \in Nat
      BY DEF Power
    <3>2. i * 2 + k >= n /\ Power(i * 2)
      BY <3>1, PowerDoubled
    <3>3. Power(p[i * 2])
      BY <3>1, <3>2
    <3> QED
      BY <1>3, <2>2, <3>3
  <2> QED
    BY <2>1, <2>2
<1>6. S = Nat
  <2> HIDE DEF S
  <2>1. S \in SUBSET Nat
    BY DEF S
  <2> QED
    BY <1>4, <1>5, <2>1, SetInduction
<1>7. InitialSize \in Nat
  BY SizeAssumption
<1>8. Power(p[InitialSize])
  <2>1. n \in S /\ InitialSize + n >= n
    BY <1>6, <1>7
  <2> QED
    BY <1>7, <2>1, InitialPower
<1>9. n = InitialSize => p[InitialSize] = n
  BY <1>3, <1>7
<1> QED
  BY <1>2, <1>8, <1>9

LEMMA ExpandFine ==
    ASSUME NEW dd, DictFine(dd), NEW n \in Nat
    PROVE  /\ Like(dd, dictExpand(dd, n))
           /\ CanExpand(dd, n) => dictExpand(dd, n).ht[0].size # 0
<1> DEFINE m == NextPower(n)
           e == NewTable(m)
           s == dd.ht[0]
           t == dd.ht[1]
<1>1. /\ dd \in Dicts /\ TableFine(s) /\ TableFine(t) /\ (s.size = 0 \/ Power(s.size))
      /\ s \in Table /\ t \in Table /\ s.size \in Nat /\ KeysOf(s) \cap KeysOf(t) = {}
  BY TableType DEF DictFine, TableFine
<1>2. Power(m) /\ m \in Nat \ {0}
  BY NextPowerFine DEF Power
<1> HIDE DEF m
<1>3. TableFine(e) /\ e.size = m /\ Chained(e) = {} /\ e \in Table
  BY <1>2, NewTableFine DEF TableFine
<1>k. KeysOf(e) = {}
  BY <1>3 DEF KeysOf
<1>4. CASE ~CanExpand(dd, n)
  <2>1. dictExpand(dd, n) = dd
    BY <1>4 DEF dictExpand
  <2> QED
    BY <1>4, <2>1, LikeSelf
<1>5. CASE CanExpand(dd, n) /\ s.size = 0
  <2> DEFINE x == [dd EXCEPT !.ht[0] = e]
  <2>1. dictExpand(dd, n) = x
    BY <1>5 DEF dictExpand, m
  <2>2. With(dd, e, t, dd.rehashidx, x)
    <3> HIDE DEF e
    <3> QED
      BY <1>1, <1>3, DictFirst
  <2>3. dd.rehashidx = -1 /\ t.size = 0
    BY <1>5 DEF CanExpand, DictFine, dictIsRehashing
  <2>4. Chained(e) \cup Chained(t) = Content(dd)
    BY <1>1, <1>3, <1>5, NothingChained DEF Content
  <2>5. -1 \in -1..e.size /\ \A b \in 0..-1 - 1 : e.table[b] = <<>>
    BY <1>2, <1>3
  <2>6. KeysOf(e) \cap KeysOf(t) = {}
    BY <1>k
  <2>7. x.ht[0].size # 0
    BY <1>2, <1>3, <2>2 DEF With
  <2> HIDE DEF e, x, t
  <2>8. Like(dd, x)
    BY <1>1, <1>2, <1>3, <2>2, <2>3, <2>4, <2>5, <2>6, LikeOf
  <2> QED
    BY <2>1, <2>7, <2>8
<1>6. CASE CanExpand(dd, n) /\ s.size # 0
  <2> DEFINE x == [dd EXCEPT !.ht[1] = e, !.rehashidx = 0]
  <2>1. dictExpand(dd, n) = x
    BY <1>6 DEF dictExpand, m
  <2>2. With(dd, s, e, 0, x)
    <3> DEFINE y == [dd EXCEPT !.ht[1] = e]
    <3> HIDE DEF e
    <3>1. With(dd, s, e, dd.rehashidx, y)
      BY <1>1, <1>3, DictSecond
    <3> HIDE DEF y
    <3>2. With(y, y.ht[0], y.ht[1], 0, [y EXCEPT !.rehashidx = 0])
      BY <3>1, DictPlace DEF With
    <3>3. x = [y EXCEPT !.rehashidx = 0]
      BY DEF y
    <3> HIDE DEF x
    <3> QED
      BY <3>1, <3>2, <3>3 DEF With
  <2>3. t.size = 0
    BY <1>6 DEF CanExpand, DictFine
  <2>4. Chained(s) \cup Chained(e) = Content(dd)
    BY <1>1, <1>3, <2>3, NothingChained DEF Content
  <2>5. 0 \in -1..s.size /\ \A b \in 0..0 - 1 : s.table[b] = <<>>
    BY <1>1
  <2>6. KeysOf(s) \cap KeysOf(e) = {}
    BY <1>k
  <2>7. x.ht[0].size # 0
    BY <1>6, <2>2 DEF With
  <2> HIDE DEF e, x, s
  <2>8. Like(dd, x)
    BY <1>1, <1>2, <1>3, <1>6, <2>2, <2>4, <2>5, <2>6, LikeOf
  <2> QED
    BY <2>1, <2>7, <2>8
<1> QED
  BY <1>4, <1>5, <1>6

\* A table is there for a new entry.
LEMMA ExpandIfNeededFine ==
    ASSUME NEW dd, DictFine(dd)
    PROVE  Like(dd, ExpandIfNeeded(dd)) /\ ExpandIfNeeded(dd).ht[0].size # 0
<1> DEFINE t == dd.ht[0]
<1>1. TableFine(t) /\ t \in Table /\ t.size \in Nat /\ t.used \in Nat
  BY TableType DEF DictFine, TableFine
<1>2. CASE dictIsRehashing(dd)
  <2>1. ExpandIfNeeded(dd) = dd
    BY <1>2 DEF ExpandIfNeeded
  <2> QED
    BY <1>2, <2>1, LikeSelf DEF DictFine
<1>3. CASE ~dictIsRehashing(dd) /\ t.size = 0
  <2>1. ExpandIfNeeded(dd) = dictExpand(dd, InitialSize)
    BY <1>3 DEF ExpandIfNeeded
  <2>2. InitialSize \in Nat \ {0}
    BY SizeAssumption
  <2>3. CanExpand(dd, InitialSize)
    <3>1. NextPower(InitialSize) = InitialSize
      BY <2>2, NextPowerFine
    <3>2. t.used = 0
      BY <1>1, <1>3, NothingChained
    <3> QED
      BY <1>3, <2>2, <3>1, <3>2 DEF CanExpand
  <2> QED
    BY <2>1, <2>2, <2>3, ExpandFine
<1>4. CASE ~dictIsRehashing(dd) /\ t.size # 0
  <2>1. ExpandIfNeeded(dd) = dd \/ ExpandIfNeeded(dd) = dictExpand(dd, t.used * 2)
    BY <1>4 DEF ExpandIfNeeded
  <2>2. t.used * 2 \in Nat
    BY <1>1
  <2>3. Like(dd, dictExpand(dd, t.used * 2))
    BY <2>2, ExpandFine
  <2>4. dictExpand(dd, t.used * 2).ht[0].size # 0
    <3>1. CASE CanExpand(dd, t.used * 2)
      BY <2>2, <3>1, ExpandFine
    <3>2. CASE ~CanExpand(dd, t.used * 2)
      BY <1>4, <3>2 DEF dictExpand
    <3> QED
      BY <3>1, <3>2
  <2> QED
    BY <1>4, <2>1, <2>3, <2>4, LikeSelf
<1> QED
  BY <1>2, <1>3, <1>4

-----------------------------------------------------------------------------
(* Finding.                                                                *)

LEMMA TablesFine ==
    ASSUME NEW dd, DictFine(dd), NEW i \in {0, 1}
    PROVE  /\ TableFine(dd.ht[i]) /\ dd.ht[i] \in Table /\ dd.ht[i].size \in Nat
           /\ Chained(dd.ht[i]) \subseteq Content(dd) /\ Content(dd) \subseteq Entries
<1>1. \A j \in {0, 1} : TableFine(dd.ht[j]) /\ dd.ht[j] \in Table
  BY DEF DictFine, TableFine
<1>2. dd.ht[i].size \in Nat
  BY <1>1, TableType
<1>3. \A j \in {0, 1} : Chained(dd.ht[j]) \subseteq Entries
  BY <1>1, ChainedType
<1> QED
  BY <1>1, <1>2, <1>3 DEF Content

\* The chain that is walked holds the entry, if there is one.
LEMMA ChainHolds ==
    ASSUME NEW dd, DictFine(dd), NEW i \in {0, 1}, NEW k \in Keys
    PROVE  /\ ToSet(Chain(dd, i, k)) \subseteq Chained(dd.ht[i])
           /\ \A e \in Chained(dd.ht[i]) : e.key = k => e \in ToSet(Chain(dd, i, k))
<1> DEFINE t == dd.ht[i]
           b == Index(k, t)
<1>1. TableFine(t) /\ t \in Table /\ t.size \in Nat
  BY TablesFine
<1>2. CASE t.size = 0
  <2>1. Chain(dd, i, k) = <<>>
    BY <1>2 DEF Chain
  <2>2. ToSet(<<>>) = {}
    <3>1. <<>> \in Seq(Entries) /\ Len(<<>>) = 0
      OBVIOUS
    <3> DEFINE c == <<>>
    <3> HIDE DEF c
    <3>2. c \in Seq(Entries) => ToSet(c) = {c[j] : j \in 1..Len(c)}
      BY ChainSet
    <3> QED
      BY <3>1, <3>2 DEF c
  <2>3. Chained(t) = {}
    BY <1>1, <1>2, NothingChained
  <2> QED
    BY <2>1, <2>2, <2>3
<1>3. CASE t.size # 0
  <2>1. Chain(dd, i, k) = t.table[b] /\ b \in 0..t.size - 1
    BY <1>1, <1>3, IndexType DEF Chain
  <2>2. \A e : Index(e.key, t) = Hash[e.key] % t.size
    BY DEF Index
  <2> HIDE DEF t
  <2>3. ToSet(t.table[b]) \subseteq Chained(t)
    <3> HIDE DEF b
    <3> QED
      BY <1>1, <2>1, OfBucket
  <2>4. ASSUME NEW e \in Chained(t), e.key = k PROVE e \in ToSet(t.table[b])
    BY <1>1, <2>1, <2>4, InBucket
  <2> QED
    BY <2>1, <2>3, <2>4 DEF t
<1> QED
  BY <1>2, <1>3

LEMMA HoldsRight ==
    ASSUME NEW dd, DictFine(dd), NEW i \in {0, 1}, NEW k \in Keys
    PROVE  Holds(dd, i, k) <=> \E e \in Chained(dd.ht[i]) : e.key = k
BY ChainHolds DEF Holds

LEMMA HasRight ==
    ASSUME NEW dd, DictFine(dd), NEW k \in Keys
    PROVE  Has(dd, k) <=> \E e \in Content(dd) : e.key = k
<1>1. \A i \in {0, 1} : Holds(dd, i, k) <=> \E e \in Chained(dd.ht[i]) : e.key = k
  BY HoldsRight
<1>2. CASE dictIsRehashing(dd)
  <2>1. Tables(dd) = {0, 1}
    BY <1>2 DEF Tables
  <2> QED
    BY <1>1, <2>1 DEF Has, Content
<1>3. CASE ~dictIsRehashing(dd)
  <2>1. Tables(dd) = {0}
    BY <1>3 DEF Tables
  <2>2. Chained(dd.ht[1]) = {}
    <3>1. dd.ht[1].size = 0 /\ TableFine(dd.ht[1])
      BY <1>3 DEF DictFine
    <3> QED
      BY <3>1, NothingChained
  <2> QED
    BY <1>1, <2>1, <2>2 DEF Has, Content
<1> QED
  BY <1>2, <1>3

LEMMA ContentUnique ==
    ASSUME NEW dd, DictFine(dd), NEW e \in Content(dd), NEW f \in Content(dd), e.key = f.key
    PROVE  e = f
<1>1. TableFine(dd.ht[0]) /\ TableFine(dd.ht[1]) /\ KeysOf(dd.ht[0]) \cap KeysOf(dd.ht[1]) = {}
  BY DEF DictFine
<1>2. ASSUME NEW x \in Chained(dd.ht[0]), NEW y \in Chained(dd.ht[1]) PROVE x.key # y.key
  BY <1>1 DEF KeysOf
<1>3. CASE e \in Chained(dd.ht[0]) /\ f \in Chained(dd.ht[0])
  BY <1>1, <1>3, KeyUnique
<1>4. CASE e \in Chained(dd.ht[1]) /\ f \in Chained(dd.ht[1])
  BY <1>1, <1>4, KeyUnique
<1> QED
  BY <1>2, <1>3, <1>4 DEF Content

\* Where a key is found, and the entry.
LEMMA HeldIn ==
    ASSUME NEW dd, DictFine(dd), NEW k \in Keys, Has(dd, k),
           NEW i, i = CHOOSE j \in Tables(dd) : Holds(dd, j, k)
    PROVE  /\ i \in {0, 1} /\ dd.ht[i].size # 0
           /\ \E e \in Content(dd) : /\ e.key = k /\ e \in Chained(dd.ht[i])
                                     /\ e \in ToSet(Chain(dd, i, k))
<1>1. i \in Tables(dd) /\ Holds(dd, i, k)
  BY DEF Has
<1>2. i \in {0, 1}
  BY <1>1 DEF Tables
<1>3. PICK e \in ToSet(Chain(dd, i, k)) : e.key = k
  BY <1>1 DEF Holds
<1>4. e \in Chained(dd.ht[i]) /\ e \in Content(dd)
  BY <1>2, <1>3, ChainHolds, TablesFine
<1>5. dd.ht[i].size # 0
  BY <1>2, <1>4, TablesFine, NothingChained
<1> QED
  BY <1>2, <1>3, <1>4, <1>5

LEMMA LookupRight ==
    ASSUME NEW dd, DictFine(dd), NEW k \in Keys
    PROVE  /\ \A e \in Content(dd) : e.key = k => Lookup(dd, k) = e.val
           /\ (\A e \in Content(dd) : e.key # k) => Lookup(dd, k) = Missing
<1>1. CASE Has(dd, k)
  <2> DEFINE i == CHOOSE j \in Tables(dd) : Holds(dd, j, k)
             g == CHOOSE e \in ToSet(Chain(dd, i, k)) : e.key = k
  <2>1. Lookup(dd, k) = g.val
    BY <1>1 DEF Lookup
  <2> HIDE DEF i
  <2>2. i \in {0, 1} /\ \E e \in ToSet(Chain(dd, i, k)) : e.key = k
    <3>1. i = CHOOSE j \in Tables(dd) : Holds(dd, j, k)
      BY DEF i
    <3>2. i \in {0, 1}
      BY <1>1, <3>1, HeldIn
    <3>3. PICK e \in Content(dd) : e.key = k /\ e \in ToSet(Chain(dd, i, k))
      BY <1>1, <3>1, HeldIn
    <3> QED
      BY <3>2, <3>3
  <2>3. g \in ToSet(Chain(dd, i, k)) /\ g.key = k
    BY <2>2
  <2> HIDE DEF g
  <2>4. g \in Content(dd)
    BY <2>2, <2>3, ChainHolds, TablesFine
  <2> QED
    BY <2>1, <2>3, <2>4, ContentUnique
<1>2. CASE ~Has(dd, k)
  BY <1>2, HasRight DEF Lookup
<1> QED
  BY <1>1, <1>2

-----------------------------------------------------------------------------
(* Adding, changing and removing an entry.                                 *)

\* One table is replaced.
Replaced(dd, i, h) == [dd EXCEPT !.ht[i] = h]

\* x is dd with another table h, in which the buckets that were moved are empty.
LEMMA OneChanged ==
    ASSUME NEW dd, DictFine(dd), NEW i \in {0, 1}, NEW h, TableFine(h), h.size = dd.ht[i].size,
           KeysOf(h) \cap KeysOf(dd.ht[1 - i]) = {},
           i = 0 => \A b \in 0..dd.rehashidx - 1 : h.table[b] = <<>>,
           NEW x, x = Replaced(dd, i, h)
    PROVE  /\ DictFine(x) /\ x.iterators = dd.iterators
           /\ Content(x) = Chained(h) \cup Chained(dd.ht[1 - i])
<1> DEFINE s == dd.ht[0]
           t == dd.ht[1]
<1>0. x = [dd EXCEPT !.ht[i] = h]
  BY DEF Replaced
<1>1. /\ dd \in Dicts /\ TableFine(s) /\ TableFine(t) /\ KeysOf(s) \cap KeysOf(t) = {}
      /\ s.size = 0 \/ Power(s.size)
      /\ t.size = 0 \/ Power(t.size)
      /\ dd.rehashidx \in -1..s.size
      /\ \A b \in 0..dd.rehashidx - 1 : s.table[b] = <<>>
      /\ IF dd.rehashidx # -1 THEN s.size # 0 /\ t.size # 0 ELSE t.size = 0
  BY DEF DictFine, dictIsRehashing
<1>2. h \in Table
  BY DEF TableFine
<1> HIDE DEF s, t
<1>3. CASE i = 0
  <2>1. With(dd, h, dd.ht[1], dd.rehashidx, [dd EXCEPT !.ht[0] = h])
    BY <1>1, <1>2, DictFirst
  <2>2. x = [dd EXCEPT !.ht[0] = h] /\ h.size = s.size /\ KeysOf(h) \cap KeysOf(t) = {}
    BY <1>0, <1>3 DEF s, t
  <2>3. /\ x \in Dicts /\ x.ht[0] = h /\ x.ht[1] = t /\ x.rehashidx = dd.rehashidx
        /\ x.iterators = dd.iterators
    BY <2>1, <2>2 DEF With, t
  <2>4. DictFine(x)
    BY <1>1, <1>3, <2>2, <2>3 DEF DictFine, dictIsRehashing
  <2>5. Content(x) = Chained(h) \cup Chained(dd.ht[1 - i])
    BY <1>3, <2>3 DEF Content, t
  <2> QED
    BY <2>3, <2>4, <2>5
<1>4. CASE i = 1
  <2>1. With(dd, dd.ht[0], h, dd.rehashidx, [dd EXCEPT !.ht[1] = h])
    BY <1>1, <1>2, DictSecond
  <2>2. x = [dd EXCEPT !.ht[1] = h] /\ h.size = t.size /\ KeysOf(h) \cap KeysOf(s) = {}
    BY <1>0, <1>4 DEF s, t
  <2>3. /\ x \in Dicts /\ x.ht[0] = s /\ x.ht[1] = h /\ x.rehashidx = dd.rehashidx
        /\ x.iterators = dd.iterators
    BY <2>1, <2>2 DEF With, s
  <2>4. DictFine(x)
    BY <1>1, <2>2, <2>3 DEF DictFine, dictIsRehashing
  <2>5. Content(x) = Chained(h) \cup Chained(dd.ht[1 - i])
    BY <1>4, <2>3 DEF Content, s
  <2> QED
    BY <2>3, <2>4, <2>5
<1> QED
  BY <1>3, <1>4

LEMMA BothTables ==
    ASSUME NEW dd, NEW i \in {0, 1}, DictFine(dd)
    PROVE  /\ 1 - i \in {0, 1} /\ Content(dd) = Chained(dd.ht[i]) \cup Chained(dd.ht[1 - i])
           /\ KeysOf(dd.ht[i]) \cap KeysOf(dd.ht[1 - i]) = {}
<1>1. KeysOf(dd.ht[0]) \cap KeysOf(dd.ht[1]) = {}
  BY DEF DictFine
<1>2. CASE i = 0
  BY <1>1, <1>2 DEF Content
<1>3. CASE i = 1
  BY <1>1, <1>3 DEF Content
<1> QED
  BY <1>2, <1>3

LEMMA AddEntryFine ==
    ASSUME NEW dd, DictFine(dd), NEW k \in Keys, NEW v \in Vals
    PROVE  LET x == ExpandIfNeeded(RehashStep(dd))
               y == AddEntry(dd, k, v)
           IN  /\ Like(dd, x) /\ DictFine(y) /\ y.iterators = dd.iterators
               /\ Has(x, k) => y = x
               /\ ~Has(x, k) => Content(y) = Content(dd) \cup {[key |-> k, val |-> v]}
<1> DEFINE x == ExpandIfNeeded(RehashStep(dd))
           y == AddEntry(dd, k, v)
           i == IF dictIsRehashing(x) THEN 1 ELSE 0
           e == [key |-> k, val |-> v]
           h == Push(x.ht[i], e)
<1>1. Like(dd, x) /\ DictFine(x) /\ x.ht[0].size # 0 /\ x.iterators = dd.iterators /\ Content(x) = Content(dd)
  <2>1. Like(dd, RehashStep(dd)) /\ DictFine(RehashStep(dd))
    BY RehashStepFine DEF Like
  <2>2. Like(RehashStep(dd), x) /\ x.ht[0].size # 0
    BY <2>1, ExpandIfNeededFine
  <2> HIDE DEF x
  <2>3. Like(dd, x)
    BY <2>1, <2>2, LikeTrans
  <2> QED
    BY <2>2, <2>3 DEF Like
<1>2. y = IF Has(x, k) THEN x ELSE [x EXCEPT !.ht[i] = h]
  BY DEF AddEntry
<1> HIDE DEF x
<1>3. ASSUME ~Has(x, k)
      PROVE  /\ DictFine([x EXCEPT !.ht[i] = h]) /\ [x EXCEPT !.ht[i] = h].iterators = dd.iterators
             /\ Content([x EXCEPT !.ht[i] = h]) = Content(dd) \cup {e}
  <2>1. i \in {0, 1} /\ x.ht[i].size # 0
    BY <1>1 DEF DictFine
  <2>2. i = 0 => x.rehashidx = -1
    BY DEF dictIsRehashing
  <2> HIDE DEF i
  <2>3. e \in Entries /\ e.key = k
    BY DEF Entries
  <2>4. \A f \in Content(x) : f.key # k
    BY <1>1, <1>3, HasRight
  <2> HIDE DEF e
  <2>5. e.key \notin KeysOf(x.ht[i]) /\ e.key \notin KeysOf(x.ht[1 - i]) /\ TableFine(x.ht[i])
    BY <1>1, <2>1, <2>3, <2>4, BothTables, TablesFine DEF KeysOf
  <2>6. TableFine(h) /\ h.size = x.ht[i].size /\ Chained(h) = Chained(x.ht[i]) \cup {e}
    BY <2>1, <2>3, <2>5, PushFine
  <2> HIDE DEF h
  <2>7. KeysOf(h) \cap KeysOf(x.ht[1 - i]) = {}
    <3>1. KeysOf(h) = KeysOf(x.ht[i]) \cup {e.key}
      BY <2>6 DEF KeysOf
    <3> QED
      BY <1>1, <2>1, <2>5, <3>1, BothTables
  <2>8. i = 0 => \A b \in 0..x.rehashidx - 1 : h.table[b] = <<>>
    BY <2>2
  <2> DEFINE z == [x EXCEPT !.ht[i] = h]
  <2>0. z = Replaced(x, i, h)
    BY DEF Replaced
  <2> HIDE DEF z
  <2>9. DictFine(z) /\ z.iterators = x.iterators /\ Content(z) = Chained(h) \cup Chained(x.ht[1 - i])
    BY <1>1, <2>1, <2>6, <2>7, <2>8, <2>0, OneChanged
  <2>10. Content(z) = Content(x) \cup {e}
    BY <1>1, <2>1, <2>6, <2>9, BothTables
  <2> QED
    BY <1>1, <2>9, <2>10 DEF z
<1>4. CASE Has(x, k)
  BY <1>1, <1>2, <1>4 DEF x
<1>5. CASE ~Has(x, k)
  BY <1>1, <1>2, <1>3, <1>5 DEF x
<1> QED
  BY <1>4, <1>5

\* The bucket a found key is in has not been moved.
LEMMA NotMoved ==
    ASSUME NEW dd, DictFine(dd), NEW i \in {0, 1}, NEW k \in Keys, NEW e \in ToSet(Chain(dd, i, k)),
           dd.ht[i].size # 0
    PROVE  /\ Chain(dd, i, k) = dd.ht[i].table[Index(k, dd.ht[i])]
           /\ Index(k, dd.ht[i]) \in 0..dd.ht[i].size - 1
           /\ i = 0 => Index(k, dd.ht[i]) \notin 0..dd.rehashidx - 1
<1> DEFINE t == dd.ht[i]
           b == Index(k, t)
           c == t.table[b]
<1>1. t \in Table /\ Chain(dd, i, k) = c /\ b \in 0..t.size - 1
  BY TablesFine, IndexType DEF Chain
<1>2. c \in Seq(Entries)
  BY <1>1, TableType
<1>3. c # <<>>
  <2>1. e \in ToSet(c)
    BY <1>1
  <2> HIDE DEF c
  <2>2. PICK j \in 1..Len(c) : e = c[j]
    BY <1>2, <2>1, ChainSet
  <2> QED
    BY <2>2
<1>4. ASSUME i = 0, b \in 0..dd.rehashidx - 1 PROVE FALSE
  BY <1>3, <1>4 DEF DictFine
<1> QED
  BY <1>1, <1>4

LEMMA SetValFine ==
    ASSUME NEW dd, DictFine(dd), NEW k \in Keys, NEW v \in Vals, Has(dd, k)
    PROVE  LET x == SetVal(dd, k, v)
           IN  /\ DictFine(x) /\ x.iterators = dd.iterators
               /\ \E e \in Content(dd) :
                    /\ e.key = k
                    /\ Content(x) = (Content(dd) \ {e}) \cup {[key |-> k, val |-> v]}
<1> DEFINE i == CHOOSE j \in Tables(dd) : Holds(dd, j, k)
           t == dd.ht[i]
           b == Index(k, t)
           h == Valued(t, b, k, v)
           x == SetVal(dd, k, v)
           g == [key |-> k, val |-> v]
<1>1. x = Replaced(dd, i, h)
  BY DEF SetVal, ChangeChain, Valued, ValuedChain, Replaced
<1>2. i = CHOOSE j \in Tables(dd) : Holds(dd, j, k)
  OBVIOUS
<1> HIDE DEF i, x
<1>3. i \in {0, 1} /\ t.size # 0
  BY <1>2, HeldIn
<1>4. PICK e \in Content(dd) : e.key = k /\ e \in Chained(t) /\ e \in ToSet(Chain(dd, i, k))
  BY <1>2, HeldIn
<1>5. /\ Chain(dd, i, k) = t.table[b] /\ b \in 0..t.size - 1
      /\ i = 0 => b \notin 0..dd.rehashidx - 1
  BY <1>3, <1>4, NotMoved
<1>6. TableFine(t) /\ t.size \in Nat
  BY <1>3, TablesFine
<1>7. e \in ToSet(t.table[b])
  BY <1>4, <1>5
<1> HIDE DEF t, b
<1>8. /\ TableFine(h) /\ h.size = t.size /\ Chained(h) = (Chained(t) \ {e}) \cup {g}
      /\ \A y \in 0..t.size - 1 : y # b => h.table[y] = t.table[y]
  <2>1. h = Valued(t, b, e.key, v) /\ g = [key |-> e.key, val |-> v]
    BY <1>4
  <2> HIDE DEF h, g
  <2> QED
    BY <1>5, <1>6, <1>7, <2>1, ValuedFine
<1>9. g.key = k
  OBVIOUS
<1> HIDE DEF h, g
<1>10. KeysOf(h) \cap KeysOf(dd.ht[1 - i]) = {}
  <2>1. KeysOf(h) \subseteq KeysOf(t)
    BY <1>4, <1>8, <1>9 DEF KeysOf
  <2> QED
    BY <1>3, <2>1, BothTables DEF t
<1>11. i = 0 => \A y \in 0..dd.rehashidx - 1 : h.table[y] = <<>>
  <2> SUFFICES ASSUME i = 0, NEW y \in 0..dd.rehashidx - 1 PROVE h.table[y] = <<>>
    OBVIOUS
  <2>1. t.table[y] = <<>> /\ dd.rehashidx \in -1..t.size
    BY DEF DictFine, t
  <2>2. y # b /\ y \in 0..t.size - 1
    BY <1>5, <1>6, <2>1
  <2> QED
    BY <1>8, <2>1, <2>2
<1>12. /\ DictFine(x) /\ x.iterators = dd.iterators
       /\ Content(x) = Chained(h) \cup Chained(dd.ht[1 - i])
  <2>1. h.size = dd.ht[i].size
    BY <1>8 DEF t
  <2> QED
    BY <1>1, <1>3, <1>8, <1>10, <1>11, <2>1, OneChanged
<1>13. Content(x) = (Content(dd) \ {e}) \cup {g}
  <2>1. Content(dd) = Chained(t) \cup Chained(dd.ht[1 - i]) /\ KeysOf(t) \cap KeysOf(dd.ht[1 - i]) = {}
    BY <1>3, BothTables DEF t
  <2>2. e \notin Chained(dd.ht[1 - i])
    BY <1>4, <2>1 DEF KeysOf
  <2> QED
    BY <1>8, <1>12, <2>1, <2>2
<1> QED
  BY <1>4, <1>12, <1>13 DEF x, g

LEMMA UnlinkFine ==
    ASSUME NEW dd, DictFine(dd), NEW k \in Keys, Has(dd, k)
    PROVE  LET x == Unlink(dd, k)
           IN  /\ DictFine(x) /\ x.iterators = dd.iterators
               /\ \E e \in Content(dd) : e.key = k /\ Content(x) = Content(dd) \ {e}
<1> DEFINE i == CHOOSE j \in Tables(dd) : Holds(dd, j, k)
           t == dd.ht[i]
           b == Index(k, t)
           c == t.table[b]
           j == CHOOSE l \in DOMAIN c : c[l].key = k
           h == Dropped(t, b, j)
           x == Unlink(dd, k)
<1>1. x = Replaced(dd, i, h)
  BY DEF Unlink, ChangeChain, Dropped, Replaced
<1>2. i = CHOOSE l \in Tables(dd) : Holds(dd, l, k)
  OBVIOUS
<1> HIDE DEF i, x
<1>3. i \in {0, 1} /\ t.size # 0
  BY <1>2, HeldIn
<1>4. PICK e \in Content(dd) : e.key = k /\ e \in Chained(t) /\ e \in ToSet(Chain(dd, i, k))
  BY <1>2, HeldIn
<1>5. /\ Chain(dd, i, k) = c /\ b \in 0..t.size - 1
      /\ i = 0 => b \notin 0..dd.rehashidx - 1
  BY <1>3, <1>4, NotMoved
<1>6. TableFine(t) /\ t \in Table /\ t.size \in Nat /\ c \in Seq(Entries)
  BY <1>3, <1>5, TablesFine, TableType
<1>7. e \in ToSet(c)
  BY <1>4, <1>5
<1>8. j \in 1..Len(c) /\ c[j] = e
  <2>1. DOMAIN c = 1..Len(c) /\ ToSet(c) = {c[l] : l \in 1..Len(c)} /\ ToSet(c) \subseteq Chained(t)
    <3>1. ToSet(c) \subseteq Chained(t)
      <4> HIDE DEF t, b
      <4> QED
        BY <1>5, <1>6, OfBucket
    <3> HIDE DEF c
    <3> QED
      BY <1>6, <3>1, ChainSet
  <2> HIDE DEF c, t
  <2>2. \E l \in DOMAIN c : c[l].key = k
    BY <1>4, <1>7, <2>1
  <2>3. j \in 1..Len(c) /\ c[j].key = k
    BY <2>1, <2>2
  <2> HIDE DEF j
  <2>4. c[j] \in Chained(t)
    BY <2>1, <2>3
  <2> QED
    BY <1>4, <1>6, <2>3, <2>4, KeyUnique
<1> HIDE DEF j
<1>9. /\ TableFine(h) /\ h.size = t.size /\ Chained(h) = Chained(t) \ {e}
      /\ \A y \in 0..t.size - 1 : y # b => h.table[y] = t.table[y]
  <2>1. j \in 1..Len(t.table[b]) /\ t.table[b][j] = e
    BY <1>8
  <2>2. TableFine(t) /\ t \in Table /\ b \in 0..t.size - 1
    BY <1>5, <1>6
  <2> HIDE DEF t, b, c
  <2>3. TableFine(t)
    BY <2>2
  <2>4. b \in 0..t.size - 1
    BY <2>2
  <2>5. j \in 1..Len(t.table[b])
    BY <2>1
  <2>6. /\ TableFine(h) /\ h.size = t.size
        /\ Chained(h) = Chained(t) \ {t.table[b][j]}
        /\ \A y \in 0..t.size - 1 : y # b => h.table[y] = t.table[y]
    BY <2>3, <2>4, <2>5, DroppedFine
  <2> HIDE DEF h
  <2> QED
    BY <2>1, <2>6
<1> HIDE DEF h, t, b
<1>10. KeysOf(h) \cap KeysOf(dd.ht[1 - i]) = {}
  <2>1. KeysOf(h) \subseteq KeysOf(t)
    BY <1>9 DEF KeysOf
  <2> QED
    BY <1>3, <2>1, BothTables DEF t
<1>11. i = 0 => \A y \in 0..dd.rehashidx - 1 : h.table[y] = <<>>
  <2> SUFFICES ASSUME i = 0, NEW y \in 0..dd.rehashidx - 1 PROVE h.table[y] = <<>>
    OBVIOUS
  <2>1. t.table[y] = <<>> /\ dd.rehashidx \in -1..t.size
    BY DEF DictFine, t
  <2>2. y # b /\ y \in 0..t.size - 1
    BY <1>5, <1>6, <2>1
  <2> QED
    BY <1>9, <2>1, <2>2
<1>12. /\ DictFine(x) /\ x.iterators = dd.iterators
       /\ Content(x) = Chained(h) \cup Chained(dd.ht[1 - i])
  <2>1. h.size = dd.ht[i].size
    BY <1>9 DEF t
  <2> QED
    BY <1>1, <1>3, <1>9, <1>10, <1>11, <2>1, OneChanged
<1>13. Content(x) = Content(dd) \ {e}
  <2>1. Content(dd) = Chained(t) \cup Chained(dd.ht[1 - i]) /\ KeysOf(t) \cap KeysOf(dd.ht[1 - i]) = {}
    BY <1>3, BothTables DEF t
  <2>2. e \notin Chained(dd.ht[1 - i])
    BY <1>4, <2>1 DEF KeysOf
  <2> QED
    BY <1>9, <1>12, <2>1, <2>2
<1> QED
  BY <1>4, <1>12, <1>13 DEF x

-----------------------------------------------------------------------------
(* Reversed bits.                                                          *)

\* What the definition of rev says of f at n.
RevBody(f, n) ==
    [v \in 0..n - 1 |-> IF n = 1 THEN 0 ELSE (v % 2) * (n \div 2) + f[n \div 2][v \div 2]]
RevTo(f, k) == \A n \in 1..k : f[n] = RevBody(f, n)
RevAll(f) ==
    f = [n \in Nat \ {0} |->
            [v \in 0..n - 1 |-> IF n = 1 THEN 0 ELSE (v % 2) * (n \div 2) + f[n \div 2][v \div 2]]]

LEMMA RevBodySame ==
    ASSUME NEW f, NEW g, NEW n \in Nat \ {0}, n # 1 => f[n \div 2] = g[n \div 2]
    PROVE  RevBody(f, n) = RevBody(g, n)
<1>1. CASE n = 1
  BY <1>1 DEF RevBody
<1>2. CASE n # 1
  <2> DEFINE p == f[n \div 2]
  <2>1. p = g[n \div 2]
    BY <1>2
  <2>2. RevBody(f, n) = [v \in 0..n - 1 |-> IF n = 1 THEN 0 ELSE (v % 2) * (n \div 2) + p[v \div 2]]
    BY DEF RevBody
  <2> HIDE DEF p
  <2> QED
    BY <2>1, <2>2 DEF RevBody
<1> QED
  BY <1>1, <1>2

LEMMA RevUnique ==
    ASSUME NEW f, NEW g, NEW k \in Nat, NEW l \in Nat, RevTo(f, k), RevTo(g, l), k <= l
    PROVE  \A n \in 1..k : f[n] = g[n]
<1> DEFINE S == {n \in 1..k : f[n] # g[n]}
<1> SUFFICES ASSUME S # {} PROVE FALSE
  OBVIOUS
<1> DEFINE n == Min(S)
<1>1. n \in S /\ \A m \in S : n <= m
  <2>1. S \in SUBSET Nat
    OBVIOUS
  <2> HIDE DEF S
  <2> QED
    BY <2>1, LeastOf
<1> HIDE DEF n
<1>2. n \in 1..k /\ n \in 1..l /\ f[n] # g[n]
  BY <1>1
<1>3. f[n] = RevBody(f, n) /\ g[n] = RevBody(g, n)
  BY <1>2 DEF RevTo
<1>4. n # 1 => f[n \div 2] = g[n \div 2]
  <2> SUFFICES ASSUME n # 1, f[n \div 2] # g[n \div 2] PROVE FALSE
    OBVIOUS
  <2>1. n \div 2 \in 1..k /\ n \div 2 < n
    BY <1>2
  <2>2. n \div 2 \in S
    BY <2>1
  <2> QED
    BY <1>1, <1>2, <2>1, <2>2
<1>5. RevBody(f, n) = RevBody(g, n)
  BY <1>2, <1>4, RevBodySame
<1> QED
  BY <1>2, <1>3, <1>5

LEMMA RevExists == \E f : RevAll(f)
<1> DEFINE S == {k \in Nat : \E f : RevTo(f, k)}
<1>1. 0 \in S
  BY DEF RevTo
<1>2. ASSUME NEW k \in S PROVE k + 1 \in S
  <2>1. PICK f : RevTo(f, k)
    OBVIOUS
  <2> DEFINE r == RevBody(f, k + 1)
             g == [n \in Nat |-> IF n = k + 1 THEN r ELSE f[n]]
  <2> HIDE DEF r
  <2>2. \A n \in Nat : g[n] = IF n = k + 1 THEN r ELSE f[n]
    OBVIOUS
  <2> HIDE DEF g
  <2>3. ASSUME NEW n \in 1..k + 1 PROVE g[n] = RevBody(g, n)
    <3>1. n \in Nat \ {0} /\ (n # 1 => n \div 2 \in Nat /\ n \div 2 # k + 1)
      BY <2>3
    <3>2. n # 1 => f[n \div 2] = g[n \div 2]
      BY <2>2, <3>1
    <3>3. RevBody(f, n) = RevBody(g, n)
      BY <3>1, <3>2, RevBodySame
    <3>4. CASE n = k + 1
      BY <2>2, <3>1, <3>3, <3>4 DEF r
    <3>5. CASE n # k + 1
      <4>1. n \in 1..k
        BY <3>5
      <4>2. f[n] = RevBody(f, n)
        BY <2>1, <4>1 DEF RevTo
      <4> QED
        BY <2>2, <3>1, <3>3, <3>5, <4>2
    <3> QED
      BY <3>4, <3>5
  <2>4. RevTo(g, k + 1)
    BY <2>3 DEF RevTo
  <2> QED
    BY <2>4
<1>3. S = Nat
  <2> HIDE DEF S
  <2>1. S \in SUBSET Nat
    BY DEF S
  <2> QED
    BY <1>1, <1>2, <2>1, SetInduction
<1> DEFINE F(k) == CHOOSE f : RevTo(f, k)
           g == [n \in Nat \ {0} |-> F(n)[n]]
<1>4. ASSUME NEW k \in Nat PROVE RevTo(F(k), k)
  BY <1>3
<1>5. \A n \in Nat \ {0} : g[n] = F(n)[n]
  OBVIOUS
<1>5a. DOMAIN g = Nat \ {0} /\ g = [n \in Nat \ {0} |-> g[n]]
  OBVIOUS
<1> HIDE DEF g, F
<1>6. ASSUME NEW n \in Nat \ {0} PROVE g[n] = RevBody(g, n)
  <2>1. RevTo(F(n), n) /\ n \in 1..n
    BY <1>4
  <2>2. F(n)[n] = RevBody(F(n), n)
    BY <2>1 DEF RevTo
  <2>3. n # 1 => F(n)[n \div 2] = g[n \div 2]
    <3> SUFFICES ASSUME n # 1 PROVE F(n)[n \div 2] = g[n \div 2]
      OBVIOUS
    <3> DEFINE m == n \div 2
    <3>1. m \in Nat \ {0} /\ m <= n /\ m \in 1..m
      OBVIOUS
    <3> HIDE DEF m
    <3>2. RevTo(F(m), m)
      BY <1>4, <3>1
    <3>3. F(m)[m] = F(n)[m]
      BY <2>1, <3>1, <3>2, RevUnique
    <3> QED
      BY <1>5, <3>1, <3>3 DEF m
  <2>4. RevBody(F(n), n) = RevBody(g, n)
    BY <2>3, RevBodySame
  <2> QED
    BY <1>5, <2>2, <2>4
<1>7. g = [n \in Nat \ {0} |-> RevBody(g, n)]
  BY <1>5a, <1>6
<1>8. RevAll(g)
  BY <1>7 DEF RevAll, RevBody
<1> QED
  BY <1>8

LEMMA RevStep ==
    ASSUME NEW n \in Nat \ {0}
    PROVE  rev[n] = [v \in 0..n - 1 |-> IF n = 1 THEN 0 ELSE (v % 2) * (n \div 2) + rev[n \div 2][v \div 2]]
<1> DEFINE r == CHOOSE f : RevAll(f)
<1>1. rev = r
  BY DEF rev, RevAll
<1>2. RevAll(r)
  BY RevExists
<1> HIDE DEF r
<1>3. r[n] = [v \in 0..n - 1 |-> IF n = 1 THEN 0 ELSE (v % 2) * (n \div 2) + r[n \div 2][v \div 2]]
  BY <1>2 DEF RevAll
<1> QED
  BY <1>1, <1>3

LEMMA PowerHalved ==
    ASSUME NEW n, Power(n), n # 1
    PROVE  Power(n \div 2) /\ n = (n \div 2) * 2
<1>1. n \in 2..n /\ n \in Nat /\ n % n = 0
  BY DEF Power
<1>2. n % 2 = 0
  BY <1>1 DEF Power
<1> DEFINE m == n \div 2
<1>3. m \in Nat \ {0} /\ n = m * 2
  BY <1>1, <1>2
<1> HIDE DEF m
<1>4. ASSUME NEW q \in 2..m, m % q = 0 PROVE q % 2 = 0
  <2> DEFINE x == m \div q
  <2>1. x \in Int /\ q \in Nat \ {0} /\ m = q * x
    BY <1>3, <1>4
  <2> HIDE DEF x
  <2>2. q * (x * 2) = (q * x) * 2 /\ x * 2 \in Int
    BY <2>1
  <2>3. n = q * (x * 2)
    BY <1>3, <2>1, <2>2
  <2>4. n % q = 0
    BY <1>1, <2>1, <2>2, <2>3, NoRemainder
  <2>5. q \in 2..n
    BY <1>3
  <2> QED
    BY <2>4, <2>5 DEF Power
<1> QED
  BY <1>3, <1>4 DEF Power, m

\* The reversed bits of a bucket are a bucket.
LEMMA RevType ==
    ASSUME NEW n, Power(n)
    PROVE  rev[n] \in [0..n - 1 -> 0..n - 1]
<1> DEFINE Right(m) == rev[m] \in [0..m - 1 -> 0..m - 1]
           S == {m \in Nat : Power(m) /\ ~Right(m)}
<1> SUFFICES ASSUME S # {} PROVE FALSE
  BY DEF Power
<1> DEFINE m == Min(S)
<1>1. m \in S /\ \A i \in S : m <= i
  <2>1. S \in SUBSET Nat
    OBVIOUS
  <2> HIDE DEF S
  <2> QED
    BY <2>1, LeastOf
<1> HIDE DEF m
<1>2. Power(m) /\ m \in Nat \ {0}
  BY <1>1 DEF Power
<1>3. rev[m] = [v \in 0..m - 1 |-> IF m = 1 THEN 0 ELSE (v % 2) * (m \div 2) + rev[m \div 2][v \div 2]]
  BY <1>2, RevStep
<1>4. CASE m = 1
  <2>1. rev[m] \in [0..m - 1 -> 0..m - 1]
    BY <1>3, <1>4
  <2> QED
    BY <1>1, <2>1
<1>5. CASE m # 1
  <2> DEFINE h == m \div 2
             r == rev[h]
  <2>1. Power(h) /\ m = h * 2 /\ h \in Nat /\ h < m /\ h # 0
    <3>1. Power(h) /\ m = h * 2
      BY <1>2, <1>5, PowerHalved
    <3> HIDE DEF h
    <3>2. h \in Nat \ {0}
      BY <3>1 DEF Power
    <3> QED
      BY <3>1, <3>2
  <2>2. Right(h)
    BY <1>1, <1>2, <2>1
  <2>3. rev[m] = [v \in 0..m - 1 |-> (v % 2) * h + r[v \div 2]]
    BY <1>3, <1>5
  <2>4. r \in [0..h - 1 -> 0..h - 1]
    BY <2>2
  <2> HIDE DEF h, r
  <2>5. ASSUME NEW v \in 0..m - 1 PROVE (v % 2) * h + r[v \div 2] \in 0..m - 1
    <3>1. v \div 2 \in 0..h - 1
      BY <1>2, <2>1
    <3>2. r[v \div 2] \in 0..h - 1
      BY <2>4, <3>1
    <3> DEFINE y == r[v \div 2]
    <3>3. v % 2 = 0 \/ v % 2 = 1
      BY <1>2
    <3> HIDE DEF y
    <3>4. (v % 2) * h = 0 \/ (v % 2) * h = h
      BY <2>1, <3>3
    <3>5. y \in 0..h - 1
      BY <3>2 DEF y
    <3> QED
      BY <1>2, <2>1, <3>4, <3>5 DEF y
  <2>6. Right(m)
    BY <2>3, <2>5
  <2> QED
    BY <1>1, <2>6
<1> QED
  BY <1>4, <1>5

LEMMA CursorType ==
    ASSUME NEW v \in Nat, NEW n, Power(n)
    PROVE  NextCursor(v, n) \in Nat
<1>1. n \in Nat \ {0} /\ rev[n] \in [0..n - 1 -> 0..n - 1]
  BY RevType DEF Power
<1>2. v % n \in 0..n - 1
  BY <1>1
<1> DEFINE x == rev[n][v % n]
<1>3. x \in 0..n - 1
  BY <1>1, <1>2
<1> HIDE DEF x
<1>4. (x + 1) % n \in 0..n - 1
  BY <1>1, <1>3
<1>5. rev[n][(x + 1) % n] \in 0..n - 1
  BY <1>1, <1>4
<1> QED
  BY <1>1, <1>5 DEF NextCursor, x

-----------------------------------------------------------------------------
(* What the dictionary holds is the map.                                   *)

MapType == [Keys -> Vals \cup {Missing}]
KeysIn(m) == {k \in Keys : m[k] # Missing}
MapOf(m) == {[key |-> k, val |-> m[k]] : k \in KeysIn(m)}
Represents(dd, m) == DictFine(dd) /\ m \in MapType /\ Content(dd) = MapOf(m)

LEMMA MapEntry ==
    ASSUME NEW m, NEW k
    PROVE  /\ (\E e \in MapOf(m) : e.key = k) <=> k \in KeysIn(m)
           /\ \A e \in MapOf(m) : e.key = k => e = [key |-> k, val |-> m[k]] /\ e.val = m[k]
           /\ k \in KeysIn(m) => [key |-> k, val |-> m[k]] \in MapOf(m)
BY DEF MapOf

LEMMA MapSet ==
    ASSUME NEW m \in MapType, NEW k \in Keys, NEW v \in Vals
    PROVE  /\ [m EXCEPT ![k] = v] \in MapType
           /\ MapOf([m EXCEPT ![k] = v]) = {e \in MapOf(m) : e.key # k} \cup {[key |-> k, val |-> v]}
           /\ KeysIn([m EXCEPT ![k] = v]) = KeysIn(m) \cup {k}
<1> DEFINE n == [m EXCEPT ![k] = v]
<1>1. /\ n \in MapType /\ n[k] = v /\ v # Missing
      /\ \A l \in Keys : l # k => n[l] = m[l]
  BY HashAssumption DEF MapType
<1> HIDE DEF n
<1>2. KeysIn(n) = KeysIn(m) \cup {k}
  BY <1>1 DEF KeysIn
<1> DEFINE g == [key |-> k, val |-> v]
<1>3. ASSUME NEW e \in MapOf(n) PROVE e \in {f \in MapOf(m) : f.key # k} \cup {g}
  <2>1. PICK l \in KeysIn(n) : e = [key |-> l, val |-> n[l]]
    BY DEF MapOf
  <2>2. CASE l = k
    BY <1>1, <2>1, <2>2
  <2>3. CASE l # k
    <3>1. l \in KeysIn(m) /\ n[l] = m[l]
      BY <1>1, <1>2, <2>3 DEF KeysIn
    <3>2. e = [key |-> l, val |-> m[l]] /\ e.key = l
      BY <2>1, <3>1
    <3> QED
      BY <2>3, <3>1, <3>2 DEF MapOf
  <2> QED
    BY <2>2, <2>3
<1>4. ASSUME NEW e \in MapOf(m), e.key # k PROVE e \in MapOf(n)
  <2>1. PICK l \in KeysIn(m) : e = [key |-> l, val |-> m[l]]
    BY DEF MapOf
  <2>2. l # k
    BY <1>4, <2>1
  <2>3. l \in KeysIn(n) /\ n[l] = m[l]
    BY <1>1, <1>2, <2>2 DEF KeysIn
  <2> QED
    BY <2>1, <2>3 DEF MapOf
<1>5. g \in MapOf(n)
  <2>1. k \in KeysIn(n) /\ g = [key |-> k, val |-> n[k]]
    BY <1>1, <1>2
  <2> QED
    BY <2>1 DEF MapOf
<1>6. MapOf(n) = {e \in MapOf(m) : e.key # k} \cup {g}
  <2> HIDE DEF g
  <2> QED
    BY <1>3, <1>4, <1>5
<1> QED
  BY <1>1, <1>2, <1>6 DEF n

LEMMA MapDropped ==
    ASSUME NEW m \in MapType, NEW ks
    PROVE  LET n == [k \in Keys |-> IF k \in ks THEN Missing ELSE m[k]]
           IN  /\ n \in MapType /\ KeysIn(n) = KeysIn(m) \ ks
               /\ MapOf(n) = {e \in MapOf(m) : e.key \notin ks}
<1> DEFINE n == [k \in Keys |-> IF k \in ks THEN Missing ELSE m[k]]
<1>1. /\ n \in MapType
      /\ \A k \in Keys : n[k] = IF k \in ks THEN Missing ELSE m[k]
  BY DEF MapType
<1> HIDE DEF n
<1>2. KeysIn(n) = KeysIn(m) \ ks
  BY <1>1 DEF KeysIn
<1>3. ASSUME NEW e \in MapOf(n) PROVE e \in MapOf(m) /\ e.key \notin ks
  <2>1. PICK l \in KeysIn(n) : e = [key |-> l, val |-> n[l]]
    BY DEF MapOf
  <2>2. l \in KeysIn(m) /\ l \notin ks /\ n[l] = m[l]
    BY <1>1, <1>2 DEF KeysIn
  <2> QED
    BY <2>1, <2>2 DEF MapOf
<1>4. ASSUME NEW e \in MapOf(m), e.key \notin ks PROVE e \in MapOf(n)
  <2>1. PICK l \in KeysIn(m) : e = [key |-> l, val |-> m[l]]
    BY DEF MapOf
  <2>2. l \notin ks
    BY <1>4, <2>1
  <2>3. l \in KeysIn(n) /\ n[l] = m[l]
    BY <1>1, <1>2, <2>2 DEF KeysIn
  <2> QED
    BY <2>1, <2>3 DEF MapOf
<1>5. MapOf(n) = {e \in MapOf(m) : e.key \notin ks}
  BY <1>3, <1>4
<1> QED
  BY <1>1, <1>2, <1>5 DEF n

LEMMA LikeRepresents ==
    ASSUME NEW dd, NEW x, NEW m, Represents(dd, m), Like(dd, x)
    PROVE  Represents(x, m)
BY DEF Represents, Like

LEMMA HasKey ==
    ASSUME NEW dd, NEW m, Represents(dd, m), NEW k \in Keys
    PROVE  Has(dd, k) <=> k \in KeysIn(m)
<1>1. DictFine(dd) /\ Content(dd) = MapOf(m)
  BY DEF Represents
<1>2. Has(dd, k) <=> \E e \in MapOf(m) : e.key = k
  BY <1>1, HasRight
<1>3. (\E e \in MapOf(m) : e.key = k) <=> k \in KeysIn(m)
  BY MapEntry
<1> QED
  BY <1>2, <1>3

LEMMA LookupKey ==
    ASSUME NEW dd, NEW m, Represents(dd, m), NEW k \in Keys
    PROVE  Lookup(dd, k) = m[k]
<1>1. DictFine(dd) /\ Content(dd) = MapOf(m)
  BY DEF Represents
<1>2. CASE k \in KeysIn(m)
  <2>1. [key |-> k, val |-> m[k]] \in Content(dd)
    BY <1>1, <1>2, MapEntry
  <2> DEFINE e == [key |-> k, val |-> m[k]]
  <2>2. e.key = k /\ e.val = m[k] /\ e \in Content(dd)
    BY <2>1
  <2> HIDE DEF e
  <2> QED
    BY <1>1, <2>2, LookupRight
<1>3. CASE k \notin KeysIn(m)
  <2>1. \A e \in Content(dd) : e.key # k
    BY <1>1, <1>3, MapEntry
  <2>2. m[k] = Missing
    BY <1>3 DEF KeysIn
  <2> QED
    BY <1>1, <2>1, <2>2, LookupRight
<1> QED
  BY <1>2, <1>3

\* The entry of a key that the map does not have, and that of one it has.
LEMMA WithoutKey ==
    ASSUME NEW dd, NEW m, Represents(dd, m), NEW k \in Keys
    PROVE  /\ k \notin KeysIn(m) => Content(dd) = {e \in MapOf(m) : e.key # k}
           /\ \A e \in Content(dd) : e.key = k => Content(dd) \ {e} = {f \in MapOf(m) : f.key # k}
<1>1. Content(dd) = MapOf(m)
  BY DEF Represents
<1>2. k \notin KeysIn(m) => \A e \in MapOf(m) : e.key # k
  BY MapEntry
<1>3. ASSUME NEW e \in MapOf(m), e.key = k PROVE MapOf(m) \ {e} = {f \in MapOf(m) : f.key # k}
  <2>1. ASSUME NEW f \in MapOf(m), f.key = k PROVE f = e
    <3>1. PICK a \in KeysIn(m) : e = [key |-> a, val |-> m[a]]
      BY DEF MapOf
    <3>2. PICK b \in KeysIn(m) : f = [key |-> b, val |-> m[b]]
      BY DEF MapOf
    <3>3. a = k /\ b = k
      BY <1>3, <2>1, <3>1, <3>2
    <3> QED
      BY <3>1, <3>2, <3>3
  <2> QED
    BY <1>3, <2>1
<1> QED
  BY <1>1, <1>2, <1>3

LEMMA AddRight ==
    ASSUME NEW dd, NEW m, Represents(dd, m), NEW k \in Keys, NEW v \in Vals
    PROVE  LET there == Has(ExpandIfNeeded(RehashStep(dd)), k)
           IN  /\ there <=> k \in KeysIn(m)
               /\ there => Represents(AddEntry(dd, k, v), m)
               /\ ~there => Represents(AddEntry(dd, k, v), [m EXCEPT ![k] = v])
<1> DEFINE x == ExpandIfNeeded(RehashStep(dd))
           y == AddEntry(dd, k, v)
           n == [m EXCEPT ![k] = v]
           g == [key |-> k, val |-> v]
<1>1. /\ Like(dd, x) /\ DictFine(y)
      /\ Has(x, k) => y = x
      /\ ~Has(x, k) => Content(y) = Content(dd) \cup {g}
  BY AddEntryFine DEF Represents
<1> HIDE DEF x, y
<1>2. Represents(x, m)
  BY <1>1, LikeRepresents
<1>3. Has(x, k) <=> k \in KeysIn(m)
  BY <1>2, HasKey
<1>4. CASE Has(x, k)
  BY <1>1, <1>2, <1>3, <1>4 DEF x, y
<1>5. CASE ~Has(x, k)
  <2>1. n \in MapType /\ MapOf(n) = {e \in MapOf(m) : e.key # k} \cup {g}
    <3>1. m \in MapType
      BY DEF Represents
    <3>2. n \in MapType
      BY <3>1, MapSet
    <3>3. MapOf(n) = {e \in MapOf(m) : e.key # k} \cup {g}
      BY <3>1, MapSet
    <3> QED
      BY <3>2, <3>3
  <2>2. Content(dd) = {e \in MapOf(m) : e.key # k}
    BY <1>3, <1>5, WithoutKey
  <2> HIDE DEF n, g
  <2>3. Represents(y, n)
    BY <1>1, <1>5, <2>1, <2>2 DEF Represents
  <2> QED
    BY <1>3, <1>5, <2>3 DEF x, y, n
<1> QED
  BY <1>4, <1>5

LEMMA SetRight ==
    ASSUME NEW dd, NEW m, Represents(dd, m), NEW k \in KeysIn(m), NEW v \in Vals
    PROVE  Represents(SetVal(dd, k, v), [m EXCEPT ![k] = v])
<1> DEFINE x == SetVal(dd, k, v)
           n == [m EXCEPT ![k] = v]
           g == [key |-> k, val |-> v]
<1>1. k \in Keys /\ m \in MapType /\ DictFine(dd)
  BY DEF KeysIn, Represents
<1>2. Has(dd, k)
  BY <1>1, HasKey
<1>3. DictFine(x) /\ \E e \in Content(dd) : e.key = k /\ Content(x) = (Content(dd) \ {e}) \cup {g}
  BY <1>1, <1>2, SetValFine
<1> HIDE DEF x
<1>4. PICK e \in Content(dd) : e.key = k /\ Content(x) = (Content(dd) \ {e}) \cup {g}
  BY <1>3
<1>5. n \in MapType /\ MapOf(n) = {f \in MapOf(m) : f.key # k} \cup {g}
  <2>1. n \in MapType
    BY <1>1, MapSet
  <2>2. MapOf(n) = {f \in MapOf(m) : f.key # k} \cup {g}
    BY <1>1, MapSet
  <2> QED
    BY <2>1, <2>2
<1>6. Content(dd) \ {e} = {f \in MapOf(m) : f.key # k}
  BY <1>1, <1>4, WithoutKey
<1> HIDE DEF n, g
<1> QED
  BY <1>3, <1>4, <1>5, <1>6 DEF Represents, x, n

LEMMA DropRight ==
    ASSUME NEW dd, NEW m, Represents(dd, m), NEW k \in KeysIn(m)
    PROVE  Represents(Unlink(dd, k), [l \in Keys |-> IF l \in {k} THEN Missing ELSE m[l]])
<1> DEFINE x == Unlink(dd, k)
           n == [l \in Keys |-> IF l \in {k} THEN Missing ELSE m[l]]
<1>1. k \in Keys /\ m \in MapType /\ DictFine(dd)
  BY DEF KeysIn, Represents
<1>2. Has(dd, k)
  BY <1>1, HasKey
<1>3. DictFine(x) /\ \E e \in Content(dd) : e.key = k /\ Content(x) = Content(dd) \ {e}
  BY <1>1, <1>2, UnlinkFine
<1> HIDE DEF x
<1>4. PICK e \in Content(dd) : e.key = k /\ Content(x) = Content(dd) \ {e}
  BY <1>3
<1>5. n \in MapType /\ MapOf(n) = {f \in MapOf(m) : f.key \notin {k}}
  BY <1>1, MapDropped
<1>6. Content(dd) \ {e} = {f \in MapOf(m) : f.key # k}
  BY <1>1, <1>4, WithoutKey
<1> HIDE DEF n
<1> QED
  BY <1>3, <1>4, <1>5, <1>6 DEF Represents, x, n

-----------------------------------------------------------------------------
(* The invariant.                                                          *)

\* An iterator's fields.
IterShape(it) ==
    it = [open |-> it.open, safe |-> it.safe, table |-> it.table, index |-> it.index,
          next |-> it.next, fingerprint |-> it.fingerprint, owed |-> it.owed, given |-> it.given,
          twice |-> it.twice, done |-> it.done, lost |-> it.lost]
Placed(it) == it.table \in {0, 1} /\ it.index \in Int /\ it.index >= -1

\* The entry saved as the next one is in the dictionary, and one that was
\* never asked has saved none.
IterFine(it, ks) ==
    /\ IterShape(it) /\ Placed(it) /\ it.next \in ks \cup {Missing}
    /\ ~Started(it) => it.next = Missing

ScanFine(sc) ==
    /\ sc = [running |-> sc.running, v |-> sc.v, owed |-> sc.owed, midway |-> sc.midway]
    /\ sc.v \in Nat

DictInv ==
    /\ Represents(d, map) /\ IterFine(iter, KeysIn(map)) /\ ScanFine(scan) /\ agree = TRUE

LEMMA NoIterFine ==
    ASSUME NEW ks
    PROVE  IterFine(NoIter, ks)
BY DEF NoIter, IterFine, IterShape, Placed

LEMMA LoseFine ==
    ASSUME NEW it, NEW ks, NEW qs, IterFine(it, ks)
    PROVE  IterFine(Lose(it), qs)
<1>1. CASE Started(it)
  <2>1. Lose(it) = [open |-> TRUE, safe |-> it.safe, table |-> 0, index |-> 0, next |-> Missing,
                    fingerprint |-> <<>>, owed |-> FALSE, given |-> FALSE, twice |-> FALSE,
                    done |-> FALSE, lost |-> TRUE]
    BY <1>1 DEF Lose, NoIter
  <2> QED
    BY <2>1 DEF IterFine, IterShape, Placed, Started
<1>2. CASE ~Started(it)
  <2>1. Lose(it) = it
    BY <1>2 DEF Lose
  <2> QED
    BY <1>2, <2>1 DEF IterFine
<1> QED
  BY <1>1, <1>2

Recorded(it, o, g) == [it EXCEPT !.owed = o, !.given = g]
SamePlace(it, y) == IterShape(y) /\ y.table = it.table /\ y.index = it.index /\ y.next = it.next

LEMMA IterRecorded ==
    ASSUME NEW it, IterShape(it), NEW o, NEW g
    PROVE  SamePlace(it, Recorded(it, o, g))
<1> DEFINE y == Recorded(it, o, g)
<1>1. y = [open |-> it.open, safe |-> it.safe, table |-> it.table, index |-> it.index,
           next |-> it.next, fingerprint |-> it.fingerprint, owed |-> o, given |-> g,
           twice |-> it.twice, done |-> it.done, lost |-> it.lost]
  <2> DEFINE z == [it EXCEPT !.owed = o]
  <2>1. z = [open |-> it.open, safe |-> it.safe, table |-> it.table, index |-> it.index,
             next |-> it.next, fingerprint |-> it.fingerprint, owed |-> o, given |-> it.given,
             twice |-> it.twice, done |-> it.done, lost |-> it.lost]
    BY DEF IterShape
  <2>2. y = [z EXCEPT !.given = g]
    BY DEF Recorded
  <2> HIDE DEF z, y
  <2> QED
    BY <2>1, <2>2
<1> HIDE DEF y
<1>2. SamePlace(it, y)
  BY <1>1 DEF IterShape, SamePlace
<1> QED
  BY <1>2 DEF y

LEMMA ScanRecorded ==
    ASSUME NEW sc, ScanFine(sc), NEW o
    PROVE  ScanFine([sc EXCEPT !.owed = o])
<1> DEFINE y == [sc EXCEPT !.owed = o]
<1>1. y = [running |-> sc.running, v |-> sc.v, owed |-> o, midway |-> sc.midway]
  BY DEF ScanFine
<1> HIDE DEF y
<1>2. ScanFine(y)
  BY <1>1 DEF ScanFine
<1> QED
  BY <1>2 DEF y

LEMMA ForgetFine ==
    ASSUME IterFine(iter, KeysIn(map)), ScanFine(scan), map \in MapType, NEW ks, Forget(ks)
    PROVE  /\ IterFine(iter', KeysIn(map')) /\ ScanFine(scan')
           /\ map' = [k \in Keys |-> IF k \in ks THEN Missing ELSE map[k]]
<1>1. map' = [k \in Keys |-> IF k \in ks THEN Missing ELSE map[k]]
  BY DEF Forget
<1>2. KeysIn(map') = KeysIn(map) \ ks
  BY <1>1, MapDropped
<1>3. ScanFine(scan')
  <2> DEFINE o == scan.owed /\ watched \notin ks
  <2>1. scan' = [scan EXCEPT !.owed = o]
    BY DEF Forget
  <2> HIDE DEF o
  <2> QED
    BY <2>1, ScanRecorded
<1>4. IterFine(iter', KeysIn(map'))
  <2> DEFINE o == iter.owed /\ watched \notin ks
             g == iter.given /\ watched \notin ks
             y == Recorded(iter, o, g)
  <2>1. iter' = IF iter.next \in ks \/ (~iter.safe /\ ks # {}) THEN Lose(iter) ELSE y
    BY DEF Forget, Recorded
  <2>2. CASE iter' = Lose(iter)
    BY <2>2, LoseFine
  <2>3. CASE iter.next \notin ks /\ iter' = y
    <3> HIDE DEF o, g
    <3>1. IterShape(y) /\ y.table = iter.table /\ y.index = iter.index /\ y.next = iter.next
      BY IterRecorded DEF IterFine, SamePlace
    <3> HIDE DEF y
    <3>2. y.next \in KeysIn(map') \cup {Missing}
      BY <1>2, <2>3, <3>1 DEF IterFine
    <3> QED
      BY <2>3, <3>1, <3>2 DEF IterFine, Placed, Started
  <2> HIDE DEF y
  <2> QED
    BY <2>1, <2>2, <2>3
<1> QED
  BY <1>1, <1>3, <1>4

\* The other fields of the dictionary.
LEMMA CountFine ==
    ASSUME NEW dd, NEW m, Represents(dd, m), NEW n \in Int
    PROVE  Represents([dd EXCEPT !.iterators = n], m)
<1> DEFINE x == [dd EXCEPT !.iterators = n]
<1>1. dd \in Dicts
  BY DEF Represents, DictFine
<1>2. x \in Dicts /\ x.ht = dd.ht /\ x.rehashidx = dd.rehashidx
  BY <1>1 DEF Dicts
<1> HIDE DEF x
<1>3. DictFine(x) /\ Content(x) = Content(dd)
  BY <1>2 DEF Represents, DictFine, Content, dictIsRehashing
<1> QED
  BY <1>3 DEF Represents, x

LEMMA ResizeFine ==
    ASSUME NEW dd, NEW m, Represents(dd, m), NEW b \in BOOLEAN
    PROVE  Represents([dd EXCEPT !.can_resize = b], m)
<1> DEFINE x == [dd EXCEPT !.can_resize = b]
<1>1. dd \in Dicts
  BY DEF Represents, DictFine
<1>2. x \in Dicts /\ x.ht = dd.ht /\ x.rehashidx = dd.rehashidx
  BY <1>1 DEF Dicts
<1> HIDE DEF x
<1>3. DictFine(x) /\ Content(x) = Content(dd)
  BY <1>2 DEF Represents, DictFine, Content, dictIsRehashing
<1> QED
  BY <1>3 DEF Represents, x

\* A dictionary without tables.
LEMMA BareFine ==
    ASSUME NEW dd \in Dicts, dd.ht = [i \in {0, 1} |-> NewTable(0)], dd.rehashidx = -1
    PROVE  DictFine(dd) /\ Content(dd) = {}
<1> DEFINE e == NewTable(0)
<1>1. TableFine(e) /\ e.size = 0 /\ Chained(e) = {}
  BY NewTableFine
<1>2. KeysOf(e) = {}
  BY <1>1 DEF KeysOf
<1>3. dd.ht[0] = e /\ dd.ht[1] = e
  OBVIOUS
<1> HIDE DEF e
<1>4. Content(dd) = {}
  BY <1>1, <1>3 DEF Content
<1> QED
  BY <1>1, <1>2, <1>3, <1>4 DEF DictFine, dictIsRehashing

LEMMA InitRight == DictInit => DictInv
<1> SUFFICES ASSUME DictInit PROVE DictInv
  OBVIOUS
<1> DEFINE h == [i \in {0, 1} |-> NewTable(0)]
<1>1. d \in Dicts /\ d.ht = h /\ d.rehashidx = -1
  <2>1. NewTable(0) \in Table
    BY NewTableFine DEF TableFine
  <2>2. h \in [{0, 1} -> Table]
    BY <2>1
  <2> HIDE DEF h
  <2> QED
    BY <2>2 DEF DictInit, Dicts, h
<1>2. DictFine(d) /\ Content(d) = {}
  BY <1>1, BareFine
<1>3. map = [k \in Keys |-> Missing] /\ KeysIn(map) = {}
  BY DEF DictInit, KeysIn
<1>4. map \in MapType /\ MapOf(map) = {}
  BY <1>3 DEF MapOf, MapType
<1>5. ScanFine(scan)
  BY DEF DictInit, NoScan, ScanFine
<1>6. IterFine(iter, KeysIn(map))
  BY NoIterFine DEF DictInit
<1>7. agree = TRUE
  BY DEF DictInit
<1> QED
  BY <1>2, <1>4, <1>5, <1>6, <1>7 DEF DictInv, Represents

-----------------------------------------------------------------------------
(* The calls keep it.                                                      *)

LEMMA PresentKeys == Present = KeysIn(map)
BY DEF Present, KeysIn

\* The iterator and the scan are left alone.
LEMMA AsideFine ==
    ASSUME IterFine(iter, KeysIn(map)), ScanFine(scan), Aside, KeysIn(map) \subseteq KeysIn(map')
    PROVE  IterFine(iter', KeysIn(map')) /\ ScanFine(scan')
<1>1. iter' = iter /\ scan' = scan
  BY DEF Aside
<1>2. iter.next \in KeysIn(map') \cup {Missing}
  BY DEF IterFine
<1> QED
  BY <1>1, <1>2 DEF IterFine

LEMMA AddKeeps ==
    ASSUME DictInv, NEW k \in Keys, NEW v \in Vals, Add(k, v)
    PROVE  DictInv'
<1> DEFINE there == Has(ExpandIfNeeded(RehashStep(d)), k)
           n == [map EXCEPT ![k] = v]
<1>1. Represents(d, map) /\ IterFine(iter, KeysIn(map)) /\ ScanFine(scan) /\ map \in MapType
  BY DEF DictInv, Represents
<1>2. /\ d' = AddEntry(d, k, v) /\ map' = (IF there THEN map ELSE n)
      /\ agree' = (there = (k \in Present)) /\ Aside
  BY DEF Add, Answer
<1>3. /\ there <=> k \in KeysIn(map)
      /\ there => Represents(AddEntry(d, k, v), map)
      /\ ~there => Represents(AddEntry(d, k, v), n)
  BY <1>1, AddRight
<1> HIDE DEF there
<1>4. KeysIn(n) = KeysIn(map) \cup {k}
  BY <1>1, MapSet
<1> HIDE DEF n
<1>5. Represents(d', map') /\ KeysIn(map) \subseteq KeysIn(map')
  BY <1>2, <1>3, <1>4
<1>6. agree' = TRUE
  <2>1. there <=> k \in Present
    BY <1>3, PresentKeys
  <2>2. there \in BOOLEAN
    BY DEF there, Has
  <2>3. there = (k \in Present)
    BY <2>1, <2>2
  <2> QED
    BY <1>2, <2>3, Zenon
<1>7. IterFine(iter', KeysIn(map')) /\ ScanFine(scan')
  BY <1>1, <1>2, <1>5, AsideFine
<1> QED
  BY <1>5, <1>6, <1>7 DEF DictInv

LEMMA ReplaceKeeps ==
    ASSUME DictInv, NEW k \in Keys, NEW v \in Vals, Replace(k, v)
    PROVE  DictInv'
<1> DEFINE there == Has(ExpandIfNeeded(RehashStep(d)), k)
           n == [map EXCEPT ![k] = v]
           added == AddEntry(d, k, v)
           found == Find(added)
<1>1. Represents(d, map) /\ IterFine(iter, KeysIn(map)) /\ ScanFine(scan) /\ map \in MapType
  BY DEF DictInv, Represents
<1>2. /\ d' = (IF there THEN SetVal(found, k, v) ELSE added) /\ map' = n
      /\ agree' = (there = (k \in Present)) /\ Aside
  BY DEF Replace, Answer
<1>3. /\ there <=> k \in KeysIn(map)
      /\ there => Represents(added, map)
      /\ ~there => Represents(added, n)
  BY <1>1, AddRight
<1> HIDE DEF there, added
<1>4. n \in MapType /\ KeysIn(n) = KeysIn(map) \cup {k}
  BY <1>1, MapSet
<1>5. ASSUME there PROVE Represents(SetVal(found, k, v), n)
  <2>1. Represents(found, map)
    <3>1. Represents(added, map)
      BY <1>3, <1>5
    <3>2. Like(added, found)
      BY <3>1, RehashStepFine DEF Represents
    <3> HIDE DEF found
    <3> QED
      BY <3>1, <3>2, LikeRepresents
  <2> HIDE DEF found
  <2> QED
    BY <1>3, <1>5, <2>1, SetRight
<1> HIDE DEF n, found
<1>6. Represents(d', map') /\ KeysIn(map) \subseteq KeysIn(map')
  BY <1>2, <1>3, <1>4, <1>5
<1>7. agree' = TRUE
  <2>1. there <=> k \in Present
    BY <1>3, PresentKeys
  <2>2. there \in BOOLEAN
    BY DEF there, Has
  <2>3. there = (k \in Present)
    BY <2>1, <2>2
  <2> QED
    BY <1>2, <2>3, Zenon
<1>8. IterFine(iter', KeysIn(map')) /\ ScanFine(scan')
  BY <1>1, <1>2, <1>6, AsideFine
<1> QED
  BY <1>6, <1>7, <1>8 DEF DictInv

LEMMA DeleteKeeps ==
    ASSUME DictInv, NEW k \in Keys, Delete(k)
    PROVE  DictInv'
<1> DEFINE found == Find(d)
           there == Has(found, k)
           ks == IF there THEN {k} ELSE {}
           n == [l \in Keys |-> IF l \in ks THEN Missing ELSE map[l]]
<1>1. Represents(d, map) /\ IterFine(iter, KeysIn(map)) /\ ScanFine(scan) /\ map \in MapType
  BY DEF DictInv, Represents
<1>2. /\ d' = (IF there THEN Unlink(found, k) ELSE found) /\ Forget(ks)
      /\ agree' = (there = (k \in Present))
  BY DEF Delete, Answer
<1>3. Represents(found, map)
  <2>1. Like(d, found)
    BY <1>1, RehashStepFine DEF Represents
  <2> HIDE DEF found
  <2> QED
    BY <1>1, <2>1, LikeRepresents
<1> HIDE DEF found
<1>4. there <=> k \in KeysIn(map)
  BY <1>3, HasKey
<1> HIDE DEF there
<1>5. map' = n /\ IterFine(iter', KeysIn(map')) /\ ScanFine(scan')
  <2> HIDE DEF ks
  <2> QED
    BY <1>1, <1>2, ForgetFine
<1>6. CASE there
  <2>1. Represents(Unlink(found, k), [l \in Keys |-> IF l \in {k} THEN Missing ELSE map[l]])
    BY <1>3, <1>4, <1>6, DropRight
  <2>2. n = [l \in Keys |-> IF l \in {k} THEN Missing ELSE map[l]]
    BY <1>6
  <2> QED
    <3>1. Represents(d', map')
      BY <1>2, <1>5, <1>6, <2>1, <2>2
    <3>2. agree' = TRUE
      <4>1. there <=> k \in Present
        BY <1>4, PresentKeys
      <4>2. there \in BOOLEAN
        BY DEF there, Has
      <4>3. there = (k \in Present)
        BY <4>1, <4>2
      <4> QED
        BY <1>2, <4>3, Zenon
    <3> QED
      BY <1>5, <3>1, <3>2 DEF DictInv
<1>7. CASE ~there
  <2>1. n = map
    BY <1>1, <1>7 DEF MapType
  <2>2. Represents(d', map')
    BY <1>2, <1>3, <1>5, <1>7, <2>1
  <2>3. agree' = TRUE
    <3>1. there <=> k \in Present
      BY <1>4, PresentKeys
    <3>2. there \in BOOLEAN
      BY DEF there, Has
    <3>3. there = (k \in Present)
      BY <3>1, <3>2
    <3> QED
      BY <1>2, <3>3, Zenon
  <2> QED
    BY <1>5, <2>2, <2>3 DEF DictInv
<1> QED
  BY <1>6, <1>7

LEMMA FetchKeeps ==
    ASSUME DictInv, NEW k \in Keys, Fetch(k)
    PROVE  DictInv'
<1>1. Represents(d, map) /\ IterFine(iter, KeysIn(map)) /\ ScanFine(scan)
  BY DEF DictInv
<1>2. d' = Find(d) /\ agree' = (Lookup(d', k) = map[k]) /\ map' = map /\ Aside
  BY DEF Fetch, Answer
<1>3. Represents(d', map)
  <2>1. Like(d, d')
    BY <1>1, <1>2, RehashStepFine DEF Represents
  <2> QED
    BY <1>1, <2>1, LikeRepresents
<1>4. agree' = TRUE
  <2>1. Lookup(d', k) = map[k]
    BY <1>3, LookupKey
  <2> QED
    BY <1>2, <2>1
<1>5. IterFine(iter', KeysIn(map')) /\ ScanFine(scan')
  <2>1. KeysIn(map) \subseteq KeysIn(map')
    BY <1>2
  <2> QED
    BY <1>1, <1>2, <2>1, AsideFine
<1> QED
  BY <1>2, <1>3, <1>4, <1>5 DEF DictInv

\* Where dictGetRandomKey looks, there is everything.
From(dd, i) == IF i = 0 /\ dictIsRehashing(dd) THEN dd.rehashidx ELSE 0
Sampled(dd) ==
    UNION {UNION {ToSet(dd.ht[i].table[b]) : b \in From(dd, i)..dd.ht[i].size - 1} : i \in Tables(dd)}

LEMMA SampledAll ==
    ASSUME NEW dd, DictFine(dd)
    PROVE  Sampled(dd) = Content(dd)
<1>1. ASSUME NEW i \in {0, 1}, NEW b \in 0..dd.ht[i].size - 1
      PROVE  /\ dd.ht[i].table[b] \in Seq(Entries)
             /\ ToSet(dd.ht[i].table[b]) = {dd.ht[i].table[b][j] : j \in 1..Len(dd.ht[i].table[b])}
  <2> DEFINE t == dd.ht[i]
             c == t.table[b]
  <2>1. t \in Table /\ b \in 0..t.size - 1
    BY TablesFine
  <2> HIDE DEF t
  <2>2. c \in Seq(Entries)
    BY <2>1, TableType
  <2> HIDE DEF c
  <2>3. ToSet(c) = {c[j] : j \in 1..Len(c)}
    BY <2>2, ChainSet
  <2> QED
    BY <2>2, <2>3 DEF c, t
<1>2. \A i \in {0, 1} : From(dd, i) >= 0 /\ From(dd, i) \in Int
  BY DEF From, DictFine, dictIsRehashing
<1>3. Tables(dd) \subseteq {0, 1}
  BY DEF Tables
<1>4. ASSUME NEW e \in Sampled(dd) PROVE e \in Content(dd)
  <2>1. PICK i \in Tables(dd) : e \in UNION {ToSet(dd.ht[i].table[b]) : b \in From(dd, i)..dd.ht[i].size - 1}
    BY DEF Sampled
  <2>2. PICK b \in From(dd, i)..dd.ht[i].size - 1 : e \in ToSet(dd.ht[i].table[b])
    BY <2>1
  <2>3. i \in {0, 1}
    BY <1>3
  <2> DEFINE t == dd.ht[i]
  <2>4. TableFine(t) /\ t.size \in Nat /\ Chained(t) \subseteq Content(dd)
    BY <2>3, TablesFine
  <2>5. b \in 0..t.size - 1 /\ e \in ToSet(t.table[b])
    BY <1>2, <2>2, <2>3, <2>4
  <2> HIDE DEF t
  <2> QED
    BY <2>4, <2>5, OfBucket
<1>5. ASSUME NEW i \in {0, 1}, NEW e \in Chained(dd.ht[i]) PROVE e \in Sampled(dd)
  <2> DEFINE t == dd.ht[i]
  <2>1. TableFine(t) /\ t \in Table /\ t.size \in Nat
    BY TablesFine
  <2>2. i \in Tables(dd)
    <3>1. CASE dictIsRehashing(dd)
      BY <3>1 DEF Tables
    <3>2. CASE ~dictIsRehashing(dd)
      <4>1. i = 0
        <5> SUFFICES ASSUME i = 1 PROVE FALSE
          OBVIOUS
        <5>1. t.size = 0
          BY <3>2 DEF DictFine
        <5> QED
          BY <2>1, <5>1, NothingChained
      <4> QED
        BY <3>2, <4>1 DEF Tables
    <3> QED
      BY <3>1, <3>2
  <2>3. PICK b \in 0..t.size - 1 : \E j \in 1..Len(t.table[b]) : e = t.table[b][j]
    BY <2>1, InChained
  <2>4. e \in ToSet(t.table[b])
    <3> DEFINE c == t.table[b]
    <3>1. ToSet(c) = {c[j] : j \in 1..Len(c)}
      BY <1>1
    <3>2. \E j \in 1..Len(c) : e = c[j]
      BY <2>3
    <3> HIDE DEF c
    <3>3. e \in ToSet(c)
      BY <3>1, <3>2
    <3> QED
      BY <3>3 DEF c
  <2>5. b \in From(dd, i)..t.size - 1
    <3> SUFFICES ASSUME ~(b >= From(dd, i)) PROVE FALSE
      BY <1>2, <2>1
    <3>1. i = 0 /\ b \in 0..dd.rehashidx - 1
      BY <2>1 DEF From, DictFine
    <3>2. t.table[b] = <<>>
      BY <3>1 DEF DictFine
    <3> QED
      BY <2>3, <3>2
  <2> QED
    BY <2>2, <2>4, <2>5 DEF Sampled
<1> QED
  BY <1>4, <1>5 DEF Content

LEMMA RandomKeyKeeps ==
    ASSUME DictInv, RandomKey
    PROVE  DictInv'
<1> DEFINE R == {e.key : e \in Sampled(d')}
<1>1. Represents(d, map) /\ IterFine(iter, KeysIn(map)) /\ ScanFine(scan)
  BY DEF DictInv
<1>2. d' = RehashStep(d) /\ agree' = (Present = R) /\ map' = map /\ Aside
  BY DEF RandomKey, Answer, Sampled, From
<1>3. Represents(d', map)
  <2>1. Like(d, d')
    BY <1>1, <1>2, RehashStepFine DEF Represents
  <2> QED
    BY <1>1, <2>1, LikeRepresents
<1>4. agree' = TRUE
  <2>1. Sampled(d') = MapOf(map)
    BY <1>3, SampledAll DEF Represents
  <2>2. R = KeysIn(map)
    <3>1. \A k : (\E e \in MapOf(map) : e.key = k) <=> k \in KeysIn(map)
      BY MapEntry
    <3> QED
      BY <2>1, <3>1
  <2> HIDE DEF R
  <2>3. Present = R
    BY <2>2, PresentKeys
  <2> QED
    BY <1>2, <2>3
<1>5. IterFine(iter', KeysIn(map')) /\ ScanFine(scan')
  <2>1. KeysIn(map) \subseteq KeysIn(map')
    BY <1>2
  <2> QED
    BY <1>1, <1>2, <2>1, AsideFine
<1> QED
  BY <1>2, <1>3, <1>4, <1>5 DEF DictInv

\* What SomeKeys' steps are.
LEMMA SomeStepsAre ==
    ASSUME NEW dd, DictFine(dd), NEW n \in Nat
    PROVE  LET step[i \in 0..n] == IF i = 0 THEN dd ELSE RehashStep(step[i - 1])
           IN  step = [i \in 0..n |-> IF i = 0 THEN dd ELSE RehashStep(step[i - 1])]
<1> DEFINE X == {x \in Dicts : Like(dd, x)}
           F == [i \in 1..n |-> [x \in X |-> RehashStep(x)]]
           Runs(f) == f = [i \in 0..n |-> IF i = 0 THEN dd ELSE RehashStep(f[i - 1])]
           st == CHOOSE f : Runs(f)
<1>1. dd \in X
  BY LikeSelf DEF DictFine
<1>2. F \in [1..n -> [X -> X]]
  <2> SUFFICES ASSUME NEW i \in 1..n, NEW x \in X PROVE RehashStep(x) \in X
    OBVIOUS
  <2>1. Like(dd, x) /\ DictFine(x)
    BY DEF Like
  <2>2. Like(x, RehashStep(x)) /\ RehashStep(x) \in Dicts
    BY <2>1, RehashStepFine DEF Like, DictFine
  <2>3. Like(dd, RehashStep(x))
    BY <2>1, <2>2, LikeTrans
  <2> QED
    BY <2>2, <2>3
<1>3. \E f : Runs(f)
  <2>1. PICK f \in [0..n -> X] : Steps(f, dd, F, n)
    <3> HIDE DEF X, F
    <3> QED
      BY <1>1, <1>2, StepsExist
  <2>2. ASSUME NEW i \in 1..n PROVE f[i] = RehashStep(f[i - 1])
    <3>1. i - 1 \in 0..n
      OBVIOUS
    <3>2. f[i - 1] \in X
      BY <3>1
    <3>3. f[i] = F[i][f[i - 1]]
      BY <2>1 DEF Steps
    <3> QED
      BY <3>2, <3>3
  <2>3. f[0] = dd
    BY <2>1 DEF Steps
  <2>4. \A i \in 0..n : f[i] = IF i = 0 THEN dd ELSE RehashStep(f[i - 1])
    BY <2>2, <2>3
  <2>5. Runs(f)
    BY <2>4
  <2> QED
    BY <2>5
<1>4. st = [i \in 0..n |-> IF i = 0 THEN dd ELSE RehashStep(st[i - 1])]
  <2> HIDE DEF Runs
  <2>1. Runs(st)
    BY <1>3
  <2> QED
    BY <2>1 DEF Runs
<1> QED
  BY <1>4

LEMMA SomeStepsFine ==
    ASSUME NEW dd, DictFine(dd), NEW n \in Nat
    PROVE  LET step[i \in 0..n] == IF i = 0 THEN dd ELSE RehashStep(step[i - 1])
           IN  \A i \in 0..n : Like(dd, step[i])
<1> DEFINE st == CHOOSE st : st = [i \in 0..n |-> IF i = 0 THEN dd ELSE RehashStep(st[i - 1])]
           S == {i \in Nat : i <= n => Like(dd, st[i])}
<1>1. st = [i \in 0..n |-> IF i = 0 THEN dd ELSE RehashStep(st[i - 1])]
  BY SomeStepsAre
<1> HIDE DEF st
<1>2. 0 \in S
  BY <1>1, LikeSelf
<1>3. ASSUME NEW i \in S PROVE i + 1 \in S
  <2> SUFFICES ASSUME i + 1 <= n PROVE Like(dd, st[i + 1])
    OBVIOUS
  <2>1. Like(dd, st[i]) /\ i + 1 \in 0..n /\ (i + 1) - 1 = i /\ i + 1 # 0
    OBVIOUS
  <2>2. st[i + 1] = RehashStep(st[i])
    BY <1>1, <2>1
  <2>3. Like(st[i], RehashStep(st[i]))
    BY <2>1, RehashStepFine DEF Like
  <2> QED
    BY <2>1, <2>2, <2>3, LikeTrans
<1>4. S = Nat
  <2> HIDE DEF S
  <2>1. S \in SUBSET Nat
    BY DEF S
  <2> QED
    BY <1>2, <1>3, <2>1, SetInduction
<1>5. \A i \in 0..n : Like(dd, st[i])
  BY <1>4
<1> QED
  BY <1>5 DEF st

LEMMA SampleSize ==
    ASSUME NEW dd, DictFine(dd), NEW count \in Nat
    PROVE  Min({count, dictSize(dd)}) \in 0..count
<1> DEFINE S == {count, dictSize(dd)}
<1>1. dictSize(dd) \in Nat
  <2>1. dd.ht[0] \in Table /\ dd.ht[1] \in Table
    BY TablesFine
  <2> QED
    BY <2>1, TableType DEF dictSize
<1>2. S \in SUBSET Nat /\ S # {} /\ count \in S
  BY <1>1
<1> HIDE DEF S
<1> DEFINE m == Min(S)
<1>3. m \in S /\ \A i \in S : m <= i
  BY <1>2, LeastOf
<1> HIDE DEF m
<1>4. m \in Nat /\ m <= count
  BY <1>2, <1>3
<1>5. m \in 0..count
  BY <1>4
<1> QED
  BY <1>5 DEF S, m

\* The map is as it was, the dictionary like it was, and the iterator may be given up.
LEMMA QuietKeeps ==
    ASSUME DictInv, Like(d, d'), map' = map, agree' = agree, scan' = scan,
           iter' = iter \/ iter' = Lose(iter)
    PROVE  DictInv'
<1>1. Represents(d, map) /\ IterFine(iter, KeysIn(map)) /\ ScanFine(scan) /\ agree = TRUE
  BY DEF DictInv
<1>2. Represents(d', map')
  <2>1. Represents(d', map)
    BY <1>1, LikeRepresents
  <2> QED
    BY <2>1
<1>3. IterFine(iter', KeysIn(map'))
  <2>1. CASE iter' = iter
    BY <1>1, <2>1
  <2>2. CASE iter' = Lose(iter)
    BY <1>1, <2>2, LoseFine
  <2> QED
    BY <2>1, <2>2
<1> QED
  BY <1>1, <1>2, <1>3 DEF DictInv

LEMMA SomeKeysKeeps ==
    ASSUME DictInv, NEW count \in 1..2, SomeKeys(count)
    PROVE  DictInv'
<1> DEFINE step == CHOOSE step : step = [i \in 0..count |-> IF i = 0 THEN d ELSE RehashStep(step[i - 1])]
           m == Min({count, dictSize(d)})
<1>1. d' = step[m] /\ UNCHANGED <<map, agree>> /\ Aside
  BY DEF SomeKeys
<1>2. DictFine(d)
  BY DEF DictInv, Represents
<1>3. \A i \in 0..count : Like(d, step[i])
  BY <1>2, SomeStepsFine
<1> HIDE DEF step
<1>4. m \in 0..count
  BY <1>2, SampleSize
<1> HIDE DEF m
<1>5. Like(d, d')
  BY <1>1, <1>3, <1>4
<1> QED
  BY <1>1, <1>5, QuietKeeps DEF Aside

LEMMA ResizedKeeps ==
    ASSUME DictInv, NEW n \in Nat, Resized(dictExpand(d, n))
    PROVE  DictInv'
<1>1. Like(d, d')
  <2>1. d' = dictExpand(d, n)
    BY DEF Resized
  <2> QED
    BY <2>1, ExpandFine DEF DictInv, Represents
<1>2. map' = map /\ agree' = agree /\ scan' = scan /\ (iter' = iter \/ iter' = Lose(iter))
  BY DEF Resized
<1> QED
  BY <1>1, <1>2, QuietKeeps

LEMMA ExpandKeeps ==
    ASSUME DictInv, NEW n \in Sizes, Expand(n)
    PROVE  DictInv'
<1>1. n \in Nat
  BY SizeAssumption
<1> QED
  BY <1>1, ResizedKeeps DEF Expand

\* The size that dictResize asks for.
LEMMA ResizeTo ==
    ASSUME DictInv
    PROVE  Max({d.ht[0].used, InitialSize}) \in Nat
<1> DEFINE n == Max({d.ht[0].used, InitialSize})
<1>1. d.ht[0].used \in Nat /\ InitialSize \in Nat
  <2>1. d.ht[0] \in Table
    BY TablesFine DEF DictInv, Represents
  <2> QED
    BY <2>1, TableType, SizeAssumption
<1>2. \E x \in {d.ht[0].used, InitialSize} : \A y \in {d.ht[0].used, InitialSize} : x >= y
  BY <1>1
<1>3. n \in {d.ht[0].used, InitialSize}
  BY <1>2 DEF Max
<1> QED
  BY <1>1, <1>3

LEMMA ResizeKeeps ==
    ASSUME DictInv, Resize
    PROVE  DictInv'
<1> DEFINE n == Max({d.ht[0].used, InitialSize})
<1>1. n \in Nat /\ Resized(dictExpand(d, n))
  BY ResizeTo DEF Resize
<1> HIDE DEF n
<1> QED
  BY <1>1, ResizedKeeps

LEMMA RehashKeeps ==
    ASSUME DictInv, NEW n \in 1..2, Rehash(n)
    PROVE  DictInv'
<1>1. Like(d, d')
  <2>1. d' = dictRehash(d, n) /\ n \in Nat \ {0}
    BY DEF Rehash
  <2> QED
    BY <2>1, RehashFine DEF DictInv, Represents
<1>2. map' = map /\ agree' = agree /\ scan' = scan /\ iter' = Lose(iter)
  BY DEF Rehash
<1> QED
  BY <1>1, <1>2, QuietKeeps

LEMMA SetResizeKeeps ==
    ASSUME DictInv, NEW b \in BOOLEAN, SetResize(b)
    PROVE  DictInv'
<1>1. d' = [d EXCEPT !.can_resize = b] /\ map' = map /\ agree' = agree /\ iter' = iter /\ scan' = scan
  BY DEF SetResize, Aside
<1>2. Represents(d', map)
  BY <1>1, ResizeFine DEF DictInv
<1> QED
  BY <1>1, <1>2 DEF DictInv

LEMMA DictEmptyKeeps ==
    ASSUME DictInv, DictEmpty
    PROVE  DictInv'
<1> DEFINE h == [i \in {0, 1} |-> NewTable(0)]
<1>1. /\ d' = [d EXCEPT !.ht = h, !.rehashidx = -1, !.iterators = 0]
      /\ Forget(Keys) /\ agree' = agree
  BY DEF DictEmpty
<1>2. d \in Dicts /\ map \in MapType
  BY DEF DictInv, Represents, DictFine
<1>3. d' \in Dicts /\ d'.ht = h /\ d'.rehashidx = -1
  <2>1. NewTable(0) \in Table
    BY NewTableFine DEF TableFine
  <2>2. h \in [{0, 1} -> Table]
    BY <2>1
  <2> HIDE DEF h
  <2> DEFINE x == [d EXCEPT !.ht = h]
             y == [x EXCEPT !.rehashidx = -1]
  <2>3. x \in Dicts /\ x.ht = h
    BY <1>2, <2>2 DEF Dicts
  <2>4. d' = [y EXCEPT !.iterators = 0]
    BY <1>1
  <2> HIDE DEF x
  <2>5. y \in Dicts /\ y.ht = h /\ y.rehashidx = -1
    BY <2>3 DEF Dicts
  <2> HIDE DEF y
  <2> QED
    BY <2>4, <2>5 DEF Dicts
<1>4. DictFine(d') /\ Content(d') = {}
  BY <1>3, BareFine
<1>5. /\ IterFine(iter', KeysIn(map')) /\ ScanFine(scan')
      /\ map' = [k \in Keys |-> IF k \in Keys THEN Missing ELSE map[k]]
  BY <1>1, <1>2, ForgetFine DEF DictInv
<1>6. map' \in MapType /\ MapOf(map') = {}
  <2>1. map' \in MapType /\ KeysIn(map') = {}
    BY <1>5 DEF MapType, KeysIn
  <2> QED
    BY <2>1 DEF MapOf
<1> QED
  BY <1>1, <1>4, <1>5, <1>6 DEF DictInv, Represents

LEMMA GetIteratorKeeps ==
    ASSUME DictInv, NEW safe \in BOOLEAN, GetIterator(safe)
    PROVE  DictInv'
<1>1. /\ iter' = [NoIter EXCEPT !.open = TRUE, !.safe = safe]
      /\ d' = d /\ map' = map /\ agree' = agree /\ scan' = scan
  BY DEF GetIterator
<1>2. iter' = [open |-> TRUE, safe |-> safe, table |-> 0, index |-> -1, next |-> Missing,
               fingerprint |-> <<>>, owed |-> FALSE, given |-> FALSE, twice |-> FALSE,
               done |-> FALSE, lost |-> FALSE]
  BY <1>1 DEF NoIter
<1>3. IterFine(iter', KeysIn(map'))
  BY <1>2 DEF IterFine, IterShape, Placed
<1> QED
  BY <1>1, <1>3 DEF DictInv

LEMMA ReleaseKeeps ==
    ASSUME DictInv, Release
    PROVE  DictInv'
<1>1. /\ d' = d \/ d' = [d EXCEPT !.iterators = d.iterators - 1]
      /\ iter' = NoIter /\ map' = map /\ agree' = agree /\ scan' = scan
  BY DEF Release
<1>2. Represents(d', map')
  <2>1. d.iterators - 1 \in Int
    BY DictType DEF DictInv, Represents, DictFine
  <2>2. Represents([d EXCEPT !.iterators = d.iterators - 1], map)
    BY <2>1, CountFine DEF DictInv
  <2> QED
    BY <1>1, <2>2 DEF DictInv
<1> QED
  BY <1>1, <1>2, NoIterFine DEF DictInv

LEMMA DictScanKeeps ==
    ASSUME DictInv, DictScan
    PROVE  DictInv'
<1> DEFINE n == Small(d).size
           v == IF dictSize(d) = 0 THEN 0 ELSE NextCursor(scan.v, n)
<1>1. scan'.v = v /\ scan' = [running |-> scan'.running, v |-> scan'.v, owed |-> scan'.owed, midway |-> scan'.midway]
  BY DEF DictScan
<1>2. d' = d /\ map' = map /\ agree' = agree /\ iter' = iter
  BY DEF DictScan
<1>3. DictFine(d) /\ scan.v \in Nat
  BY DEF DictInv, Represents, ScanFine
<1>4. ASSUME dictSize(d) # 0 PROVE Power(n)
  <2>1. \A i \in {0, 1} : d.ht[i].size = 0 \/ Power(d.ht[i].size)
    BY <1>3 DEF DictFine
  <2>2. CASE dictIsRehashing(d)
    BY <1>3, <2>1, <2>2 DEF Small, DictFine
  <2>3. CASE ~dictIsRehashing(d)
    <3>1. d.ht[1].size = 0 /\ d.ht[1].used = 0
      BY <1>3, <2>3, TablesFine, NothingChained DEF DictFine
    <3>2. d.ht[0].used # 0
      <4>1. d.ht[0] \in Table
        BY <1>3, TablesFine
      <4>2. d.ht[0].used \in Nat
        BY <4>1, TableType
      <4> QED
        BY <1>4, <3>1, <4>2 DEF dictSize
    <3>3. d.ht[0].size # 0
      BY <1>3, <3>2, TablesFine, NothingChained
    <3> QED
      BY <2>1, <2>3, <3>3 DEF Small
  <2> QED
    BY <2>2, <2>3
<1>5. v \in Nat
  <2> HIDE DEF n
  <2> QED
    BY <1>3, <1>4, CursorType
<1> HIDE DEF v
<1>6. ScanFine(scan')
  BY <1>1, <1>5 DEF ScanFine
<1> QED
  BY <1>2, <1>6 DEF DictInv

-----------------------------------------------------------------------------
(* The iterator.                                                           *)

LEMMA ChainType ==
    ASSUME NEW dd, DictFine(dd), NEW i \in {0, 1}, NEW k \in Keys
    PROVE  /\ Chain(dd, i, k) \in Seq(Entries) /\ ToSet(Chain(dd, i, k)) \subseteq Content(dd)
           /\ \A e \in Chained(dd.ht[i]) : e.key = k => e \in ToSet(Chain(dd, i, k))
<1>1. Chain(dd, i, k) \in Seq(Entries)
  <2>1. CASE dd.ht[i].size = 0
    BY <2>1 DEF Chain
  <2>2. CASE dd.ht[i].size # 0
    <3>1. dd.ht[i] \in Table /\ Index(k, dd.ht[i]) \in 0..dd.ht[i].size - 1
      BY <2>2, TablesFine, IndexType
    <3> QED
      BY <2>2, <3>1, TableType DEF Chain
  <2> QED
    BY <2>1, <2>2
<1>2. ToSet(Chain(dd, i, k)) \subseteq Content(dd)
  BY ChainHolds, TablesFine
<1> QED
  BY <1>1, <1>2, ChainHolds

LEMMA KeysOfChain ==
    ASSUME NEW c \in Seq(Entries)
    PROVE  LET s == [j \in DOMAIN c |-> c[j].key]
           IN  /\ s \in Seq(Keys) /\ Len(s) = Len(c) /\ DOMAIN s = 1..Len(c)
               /\ \A j \in 1..Len(c) : s[j] = c[j].key
<1> DEFINE n == Len(c)
           s == [j \in 1..n |-> c[j].key]
<1>1. n \in Nat /\ DOMAIN c = 1..n /\ \A j \in 1..n : c[j] \in Entries
  <2>1. c \in [1..Len(c) -> Entries] /\ Len(c) \in Nat
    BY LenProperties
  <2> QED
    BY <2>1
<1> HIDE DEF n
<1>2. \A j \in 1..n : c[j].key \in Keys
  BY <1>1, EntryType
<1>3. s \in Seq(Keys) /\ DOMAIN s = 1..n /\ \A j \in 1..n : s[j] = c[j].key
  BY <1>1, <1>2
<1>4. s = [j \in DOMAIN c |-> c[j].key]
  BY <1>1
<1> HIDE DEF s
<1>5. Len(s) = n
  <2> DEFINE m == Len(s)
  <2>1. m \in Nat /\ 1..m = 1..n
    BY <1>3, LenProperties
  <2> HIDE DEF m
  <2>2. (m # 0 => m \in 1..m) /\ (n # 0 => n \in 1..n)
    BY <1>1, <2>1
  <2>3. m = n
    BY <1>1, <2>1, <2>2
  <2> QED
    BY <2>3 DEF m
<1> QED
  BY <1>3, <1>4, <1>5 DEF n

LEMMA SuccessorFine ==
    ASSUME NEW dd, NEW m, Represents(dd, m), NEW k \in KeysIn(m)
    PROVE  Successor(dd, k) \in KeysIn(m) \cup {Missing}
<1> DEFINE keys(i) == [j \in DOMAIN Chain(dd, i, k) |-> Chain(dd, i, k)[j].key]
           i == CHOOSE l \in {0, 1} : Contains(keys(l), k)
           s == keys(i)
           at == CHOOSE j \in DOMAIN s : s[j] = k
           c == Chain(dd, i, k)
<1>1. DictFine(dd) /\ k \in Keys /\ Content(dd) = MapOf(m)
  BY DEF Represents, KeysIn
<1>2. ASSUME NEW l \in {0, 1}
      PROVE  /\ Chain(dd, l, k) \in Seq(Entries) /\ Len(keys(l)) = Len(Chain(dd, l, k))
             /\ DOMAIN keys(l) = 1..Len(Chain(dd, l, k))
             /\ \A j \in 1..Len(Chain(dd, l, k)) : keys(l)[j] = Chain(dd, l, k)[j].key
  <2>1. Chain(dd, l, k) \in Seq(Entries)
    BY <1>1, ChainType
  <2> DEFINE x == Chain(dd, l, k)
             y == [j \in DOMAIN x |-> x[j].key]
  <2> HIDE DEF x
  <2>2. x \in Seq(Entries)
    BY <2>1 DEF x
  <2>3. Len(y) = Len(x) /\ DOMAIN y = 1..Len(x) /\ \A j \in 1..Len(x) : y[j] = x[j].key
    BY <2>2, KeysOfChain
  <2> QED
    BY <2>2, <2>3 DEF x
<1>3. \E l \in {0, 1} : Contains(keys(l), k)
  <2>1. [key |-> k, val |-> m[k]] \in Content(dd)
    BY <1>1, MapEntry
  <2> DEFINE e == [key |-> k, val |-> m[k]]
  <2>2. e \in Content(dd) /\ e.key = k
    BY <2>1
  <2> HIDE DEF e
  <2>3. PICK l \in {0, 1} : e \in Chained(dd.ht[l])
    BY <2>2 DEF Content
  <2>4. e \in ToSet(Chain(dd, l, k))
    BY <1>1, <2>2, <2>3, ChainType
  <2>5. PICK j \in 1..Len(Chain(dd, l, k)) : e = Chain(dd, l, k)[j]
    BY <1>2, <2>4, ChainSet
  <2>6. j \in 1..Len(keys(l)) /\ keys(l)[j] = k
    BY <1>2, <2>2, <2>5
  <2> HIDE DEF keys
  <2> QED
    BY <2>6 DEF Contains
<1>4. Successor(dd, k) = IF at < Len(s) THEN s[at + 1] ELSE Missing
  BY DEF Successor
<1> HIDE DEF keys
<1>5. i \in {0, 1} /\ Contains(keys(i), k)
  BY <1>3
<1> HIDE DEF i
<1>6. /\ c \in Seq(Entries) /\ Len(s) = Len(c) /\ DOMAIN s = 1..Len(c) /\ Len(c) \in Nat
      /\ \A j \in 1..Len(c) : s[j] = c[j].key
  BY <1>2, <1>5, LenProperties
<1>7. \E j \in 1..Len(s) : s[j] = k
  BY <1>5 DEF Contains
<1>8. ToSet(c) \subseteq Content(dd)
  BY <1>1, <1>5, ChainType
<1> HIDE DEF s, c
<1>9. at \in 1..Len(c)
  BY <1>6, <1>7
<1> HIDE DEF at
<1>10. ASSUME at < Len(s) PROVE s[at + 1] \in KeysIn(m)
  <2>1. at + 1 \in 1..Len(c) /\ s[at + 1] = c[at + 1].key
    BY <1>6, <1>9, <1>10
  <2>2. c[at + 1] \in Content(dd)
    BY <1>6, <1>8, <2>1, ChainSet
  <2> DEFINE e == c[at + 1]
  <2>3. e \in MapOf(m)
    BY <1>1, <2>2
  <2> HIDE DEF e
  <2>4. e.key \in KeysIn(m)
    BY <2>3, MapEntry
  <2> QED
    BY <2>1, <2>4 DEF e
<1> QED
  BY <1>4, <1>10

\* The iterator after it has handed out the entry of k.
LEMMA HandedIs ==
    ASSUME NEW it, IterShape(it), NEW k
    PROVE  HandOut(it, k) =
             [open |-> it.open, safe |-> it.safe, table |-> it.table, index |-> it.index,
              next |-> Successor(d, k), fingerprint |-> it.fingerprint,
              owed |-> (it.owed /\ k # watched), given |-> (it.given \/ k = watched),
              twice |-> (it.twice \/ (k = watched /\ it.given)), done |-> it.done, lost |-> it.lost]
<1> DEFINE n == Successor(d, k)
           o == it.owed /\ k # watched
           g == it.given \/ k = watched
           w == it.twice \/ (k = watched /\ it.given)
           x == Recorded(it, o, g)
           y == [[x EXCEPT !.next = n] EXCEPT !.twice = w]
<1>1. HandOut(it, k) = [it EXCEPT !.next = n, !.owed = o, !.given = g, !.twice = w]
  BY DEF HandOut
<1> HIDE DEF n, o, g, w
<1>2. HandOut(it, k) = y
  <2>1. it = [open |-> it.open, safe |-> it.safe, table |-> it.table, index |-> it.index,
              next |-> it.next, fingerprint |-> it.fingerprint, owed |-> it.owed, given |-> it.given,
              twice |-> it.twice, done |-> it.done, lost |-> it.lost]
    BY DEF IterShape
  <2> QED
    BY <1>1, <2>1 DEF Recorded
<1>3. x = [open |-> it.open, safe |-> it.safe, table |-> it.table, index |-> it.index,
           next |-> it.next, fingerprint |-> it.fingerprint, owed |-> o, given |-> g,
           twice |-> it.twice, done |-> it.done, lost |-> it.lost]
  <2> DEFINE u == [it EXCEPT !.owed = o]
  <2>1. u = [open |-> it.open, safe |-> it.safe, table |-> it.table, index |-> it.index,
             next |-> it.next, fingerprint |-> it.fingerprint, owed |-> o, given |-> it.given,
             twice |-> it.twice, done |-> it.done, lost |-> it.lost]
    BY DEF IterShape
  <2>2. x = [u EXCEPT !.given = g]
    BY DEF Recorded
  <2> HIDE DEF u, x
  <2> QED
    BY <2>1, <2>2
<1> HIDE DEF x
<1> DEFINE z == [x EXCEPT !.next = n]
<1>4. z = [open |-> it.open, safe |-> it.safe, table |-> it.table, index |-> it.index,
           next |-> n, fingerprint |-> it.fingerprint, owed |-> o, given |-> g,
           twice |-> it.twice, done |-> it.done, lost |-> it.lost]
  BY <1>3
<1>5. y = [z EXCEPT !.twice = w]
  BY DEF z
<1> HIDE DEF z, y
<1>6. y = [open |-> it.open, safe |-> it.safe, table |-> it.table, index |-> it.index,
           next |-> n, fingerprint |-> it.fingerprint, owed |-> o, given |-> g,
           twice |-> w, done |-> it.done, lost |-> it.lost]
  BY <1>4, <1>5
<1> QED
  BY <1>2, <1>6 DEF n, o, g, w

LEMMA HandOutFine ==
    ASSUME Represents(d, map), NEW it, IterShape(it), Placed(it), Started(it), NEW k \in KeysIn(map)
    PROVE  IterFine(HandOut(it, k), KeysIn(map))
<1> DEFINE n == Successor(d, k)
           o == it.owed /\ k # watched
           g == it.given \/ k = watched
           w == it.twice \/ (k = watched /\ it.given)
           y == HandOut(it, k)
<1>1. n \in KeysIn(map) \cup {Missing}
  BY SuccessorFine
<1>2. y = [open |-> it.open, safe |-> it.safe, table |-> it.table, index |-> it.index,
           next |-> n, fingerprint |-> it.fingerprint, owed |-> o, given |-> g,
           twice |-> w, done |-> it.done, lost |-> it.lost]
  BY HandedIs
<1> HIDE DEF n, o, g, w, y
<1>3. IterShape(y) /\ y.table = it.table /\ y.index = it.index /\ y.next = n
  BY <1>2 DEF IterShape
<1>4. IterFine(y, KeysIn(map))
  BY <1>1, <1>3 DEF IterFine, Placed, Started
<1> QED
  BY <1>4 DEF y

LEMMA NextBucketFine ==
    ASSUME NEW dd, DictFine(dd), NEW it, Placed(it), NEW to \in NextBucket(dd, it)
    PROVE  \E i \in {0, 1} : \E b \in 0..dd.ht[i].size - 1 : to = <<i, b>> /\ dd.ht[i].table[b] # <<>>
<1> DEFINE full(i, from) == {b \in from..dd.ht[i].size - 1 : dd.ht[i].table[b] # <<>>}
           here == full(it.table, it.index + 1)
           there == IF it.table = 0 /\ dictIsRehashing(dd) THEN full(1, 0) ELSE {}
<1>1. it.table \in {0, 1} /\ it.index + 1 \in Nat
  BY DEF Placed
<1>2. ASSUME NEW i \in {0, 1}, NEW from \in Nat, full(i, from) # {}
      PROVE  /\ Min(full(i, from)) \in 0..dd.ht[i].size - 1
             /\ dd.ht[i].table[Min(full(i, from))] # <<>>
  <2> DEFINE S == full(i, from)
  <2>1. dd.ht[i].size \in Nat
    BY TablesFine
  <2>2. S \in SUBSET Nat /\ S # {}
    BY <1>2
  <2>3. \A b \in S : b \in 0..dd.ht[i].size - 1 /\ dd.ht[i].table[b] # <<>>
    BY <2>1
  <2> HIDE DEF S
  <2>4. Min(S) \in S
    BY <2>2, LeastOf
  <2>5. Min(S) \in 0..dd.ht[i].size - 1 /\ dd.ht[i].table[Min(S)] # <<>>
    BY <2>3, <2>4
  <2> QED
    BY <2>5 DEF S
<1>3. NextBucket(dd, it) = IF here # {} THEN {<<it.table, Min(here)>>}
                           ELSE IF there # {} THEN {<<1, Min(there)>>} ELSE {}
  BY DEF NextBucket
<1> HIDE DEF full
<1>4. CASE here # {}
  <2> DEFINE b == Min(here)
             i == it.table
  <2>1. to = <<i, b>>
    BY <1>3, <1>4
  <2>2. b \in 0..dd.ht[i].size - 1 /\ dd.ht[i].table[b] # <<>> /\ i \in {0, 1}
    BY <1>1, <1>2, <1>4
  <2> HIDE DEF b, i
  <2> QED
    BY <2>1, <2>2
<1>5. CASE here = {}
  <2>1. there # {} /\ to = <<1, Min(there)>>
    BY <1>3, <1>5
  <2>2. there = full(1, 0)
    BY <2>1
  <2> HIDE DEF there
  <2> DEFINE b == Min(there)
  <2>3. b \in 0..dd.ht[1].size - 1 /\ dd.ht[1].table[b] # <<>>
    <3>1. full(1, 0) # {}
      BY <2>1, <2>2
    <3>2. Min(full(1, 0)) \in 0..dd.ht[1].size - 1 /\ dd.ht[1].table[Min(full(1, 0))] # <<>>
      BY <1>2, <3>1
    <3> QED
      BY <2>2, <3>2
  <2>4. to = <<1, b>>
    BY <2>1
  <2> HIDE DEF b
  <2> QED
    BY <2>3, <2>4
<1> QED
  BY <1>4, <1>5

\* The iterator moves to another bucket.
Moved(it, i, b) == [it EXCEPT !.table = i, !.index = b]
Ended(it, p, i, b, g) == [it EXCEPT !.done = p, !.table = i, !.index = b, !.given = g]
Begun(it, o, f) == [it EXCEPT !.owed = o, !.fingerprint = f]

LEMMA MovedIs ==
    ASSUME NEW it, IterShape(it), NEW i, NEW b
    PROVE  Moved(it, i, b) =
             [open |-> it.open, safe |-> it.safe, table |-> i, index |-> b,
              next |-> it.next, fingerprint |-> it.fingerprint, owed |-> it.owed, given |-> it.given,
              twice |-> it.twice, done |-> it.done, lost |-> it.lost]
<1> DEFINE y == Moved(it, i, b)
           z == [it EXCEPT !.table = i]
<1>1. y = [z EXCEPT !.index = b]
  BY DEF Moved
<1> HIDE DEF y
<1>2. z = [open |-> it.open, safe |-> it.safe, table |-> i, index |-> it.index,
            next |-> it.next, fingerprint |-> it.fingerprint, owed |-> it.owed, given |-> it.given,
            twice |-> it.twice, done |-> it.done, lost |-> it.lost]
  BY DEF IterShape
<1> HIDE DEF z
<1>3. y = [open |-> it.open, safe |-> it.safe, table |-> i, index |-> b,
            next |-> it.next, fingerprint |-> it.fingerprint, owed |-> it.owed, given |-> it.given,
            twice |-> it.twice, done |-> it.done, lost |-> it.lost]
  BY <1>1, <1>2
<1> QED
  BY <1>3 DEF y

LEMMA IterMoved ==
    ASSUME NEW it, IterShape(it), NEW i, NEW b
    PROVE  IterShape(Moved(it, i, b)) /\ Moved(it, i, b).table = i /\ Moved(it, i, b).index = b
<1> DEFINE y == Moved(it, i, b)
<1>1. y = [open |-> it.open, safe |-> it.safe, table |-> i, index |-> b,
           next |-> it.next, fingerprint |-> it.fingerprint, owed |-> it.owed, given |-> it.given,
           twice |-> it.twice, done |-> it.done, lost |-> it.lost]
  BY MovedIs
<1> HIDE DEF y
<1>2. IterShape(y) /\ y.table = i /\ y.index = b
  BY <1>1 DEF IterShape
<1> QED
  BY <1>2 DEF y

LEMMA EndedIs ==
    ASSUME NEW it, IterShape(it), NEW p, NEW i, NEW b, NEW g
    PROVE  Ended(it, p, i, b, g) =
             [open |-> it.open, safe |-> it.safe, table |-> i, index |-> b,
              next |-> it.next, fingerprint |-> it.fingerprint, owed |-> it.owed, given |-> g,
              twice |-> it.twice, done |-> p, lost |-> it.lost]
<1> DEFINE y == Ended(it, p, i, b, g)
           z == [it EXCEPT !.done = p]
           x == [z EXCEPT !.table = i]
           w == [x EXCEPT !.index = b]
<1>1. y = [w EXCEPT !.given = g]
  BY DEF Ended
<1> HIDE DEF y
<1>2. z = [open |-> it.open, safe |-> it.safe, table |-> it.table, index |-> it.index,
            next |-> it.next, fingerprint |-> it.fingerprint, owed |-> it.owed, given |-> it.given,
            twice |-> it.twice, done |-> p, lost |-> it.lost]
  BY DEF IterShape
<1> HIDE DEF z
<1>3. x = [open |-> it.open, safe |-> it.safe, table |-> i, index |-> it.index,
            next |-> it.next, fingerprint |-> it.fingerprint, owed |-> it.owed, given |-> it.given,
            twice |-> it.twice, done |-> p, lost |-> it.lost]
  BY <1>2
<1> HIDE DEF x
<1>4. w = [open |-> it.open, safe |-> it.safe, table |-> i, index |-> b,
            next |-> it.next, fingerprint |-> it.fingerprint, owed |-> it.owed, given |-> it.given,
            twice |-> it.twice, done |-> p, lost |-> it.lost]
  BY <1>3
<1> HIDE DEF w
<1>5. y = [open |-> it.open, safe |-> it.safe, table |-> i, index |-> b,
            next |-> it.next, fingerprint |-> it.fingerprint, owed |-> it.owed, given |-> g,
            twice |-> it.twice, done |-> p, lost |-> it.lost]
  BY <1>1, <1>4
<1> QED
  BY <1>5 DEF y

LEMMA IterEnded ==
    ASSUME NEW it, IterShape(it), NEW p, NEW i, NEW b, NEW g
    PROVE  LET y == Ended(it, p, i, b, g)
           IN  IterShape(y) /\ y.table = i /\ y.index = b /\ y.next = it.next
<1> DEFINE y == Ended(it, p, i, b, g)
<1>1. y = [open |-> it.open, safe |-> it.safe, table |-> i, index |-> b,
           next |-> it.next, fingerprint |-> it.fingerprint, owed |-> it.owed, given |-> g,
           twice |-> it.twice, done |-> p, lost |-> it.lost]
  BY EndedIs
<1> HIDE DEF y
<1>2. IterShape(y) /\ y.table = i /\ y.index = b /\ y.next = it.next
  BY <1>1 DEF IterShape
<1> QED
  BY <1>2 DEF y

LEMMA BegunIs ==
    ASSUME NEW it, IterShape(it), NEW o, NEW f
    PROVE  Begun(it, o, f) =
             [open |-> it.open, safe |-> it.safe, table |-> it.table, index |-> it.index,
              next |-> it.next, fingerprint |-> f, owed |-> o, given |-> it.given,
              twice |-> it.twice, done |-> it.done, lost |-> it.lost]
<1> DEFINE y == Begun(it, o, f)
           z == [it EXCEPT !.owed = o]
<1>1. y = [z EXCEPT !.fingerprint = f]
  BY DEF Begun
<1> HIDE DEF y
<1>2. z = [open |-> it.open, safe |-> it.safe, table |-> it.table, index |-> it.index,
            next |-> it.next, fingerprint |-> it.fingerprint, owed |-> o, given |-> it.given,
            twice |-> it.twice, done |-> it.done, lost |-> it.lost]
  BY DEF IterShape
<1> HIDE DEF z
<1>3. y = [open |-> it.open, safe |-> it.safe, table |-> it.table, index |-> it.index,
            next |-> it.next, fingerprint |-> f, owed |-> o, given |-> it.given,
            twice |-> it.twice, done |-> it.done, lost |-> it.lost]
  BY <1>1, <1>2
<1> QED
  BY <1>3 DEF y

LEMMA IterBegun ==
    ASSUME NEW it, IterShape(it), NEW o, NEW f
    PROVE  SamePlace(it, Begun(it, o, f))
<1> DEFINE y == Begun(it, o, f)
<1>1. y = [open |-> it.open, safe |-> it.safe, table |-> it.table, index |-> it.index,
           next |-> it.next, fingerprint |-> f, owed |-> o, given |-> it.given,
           twice |-> it.twice, done |-> it.done, lost |-> it.lost]
  BY BegunIs
<1> HIDE DEF y
<1>2. SamePlace(it, y)
  BY <1>1 DEF IterShape, SamePlace
<1> QED
  BY <1>2 DEF y

LEMMA IterNextKeeps ==
    ASSUME DictInv, IterNext
    PROVE  DictInv'
<1> DEFINE o == watched \in Present
           f == IF iter.safe THEN <<>> ELSE Fingerprint(d)
           first == ~Started(iter)
           it == IF ~first THEN iter ELSE Begun(iter, o, f)
           after == NextBucket(d, it)
           to == CHOOSE to \in after : TRUE
           k == Head(d.ht[to[1]].table[to[2]]).key
<1>1. /\ Represents(d, map) /\ DictFine(d) /\ IterFine(iter, KeysIn(map)) /\ IterShape(iter)
      /\ Placed(iter) /\ iter.next \in KeysIn(map) \cup {Missing}
  BY DEF DictInv, Represents, IterFine
<1>2. map' = map /\ agree' = agree /\ scan' = scan
  BY DEF IterNext
<1>3. d' = d \/ d' = [d EXCEPT !.iterators = d.iterators + 1]
  BY DEF IterNext
<1>4. iter' = IF it.next # Missing THEN HandOut(it, it.next)
              ELSE IF after = {} THEN Ended(it, TRUE, 1, 0, FALSE)
              ELSE HandOut(Moved(it, to[1], to[2]), k)
  BY DEF IterNext, Begun, Moved, Ended
<1> HIDE DEF o, f
<1>5. SamePlace(iter, it)
  <2>1. SamePlace(iter, Begun(iter, o, f))
    BY <1>1, IterBegun
  <2>2. SamePlace(iter, iter)
    BY <1>1 DEF SamePlace
  <2> QED
    BY <2>1, <2>2
<1> HIDE DEF it
<1>6. IterShape(it) /\ Placed(it) /\ it.next = iter.next /\ (Started(it) <=> Started(iter))
  BY <1>1, <1>5 DEF SamePlace, Placed, Started
<1>7. IterFine(iter', KeysIn(map))
  <2>1. CASE it.next # Missing
    <3>1. Started(it) /\ it.next \in KeysIn(map)
      BY <1>1, <1>6, <2>1 DEF IterFine
    <3>2. IterFine(HandOut(it, it.next), KeysIn(map))
      BY <1>1, <1>6, <3>1, HandOutFine
    <3> QED
      BY <1>4, <2>1, <3>2
  <2>2. CASE it.next = Missing /\ after = {}
    <3> DEFINE p == TRUE
               g == FALSE
    <3>1. iter' = Ended(it, p, 1, 0, g)
      BY <1>4, <2>2
    <3> HIDE DEF p, g
    <3>2. /\ IterShape(iter') /\ iter'.table = 1 /\ iter'.index = 0
          /\ iter'.next = Missing
      BY <1>6, <2>2, <3>1, IterEnded
    <3> QED
      BY <3>2 DEF IterFine, Placed, Started
  <2>3. CASE it.next = Missing /\ after # {}
    <3>1. to \in after
      BY <2>3
    <3> HIDE DEF to
    <3>2. PICK i \in {0, 1} : \E b \in 0..d.ht[i].size - 1 : to = <<i, b>> /\ d.ht[i].table[b] # <<>>
      BY <1>1, <1>6, <3>1, NextBucketFine
    <3>3. PICK b \in 0..d.ht[i].size - 1 : to = <<i, b>> /\ d.ht[i].table[b] # <<>>
      BY <3>2
    <3>4. to[1] = i /\ to[2] = b
      BY <3>3
    <3> DEFINE c == d.ht[i].table[b]
    <3>5. k \in KeysIn(map)
      <4> DEFINE t == d.ht[i]
      <4>1. TableFine(t) /\ t \in Table /\ b \in 0..t.size - 1 /\ Chained(t) \subseteq Content(d)
        BY <1>1, TablesFine
      <4> HIDE DEF t
      <4>2. t.table[b] \in Seq(Entries) /\ ToSet(t.table[b]) \subseteq Chained(t)
        BY <4>1, TableType, OfBucket
      <4>3. c = t.table[b]
        BY DEF t
      <4> HIDE DEF c
      <4>4. c \in Seq(Entries) /\ c # <<>> /\ ToSet(c) \subseteq Content(d)
        BY <3>3, <4>1, <4>2, <4>3 DEF c
      <4>5. Head(c) = c[1] /\ 1 \in 1..Len(c)
        BY <4>4
      <4>6. Head(c) \in Content(d)
        BY <4>4, <4>5, ChainSet
      <4>7. Head(c).key \in KeysIn(map)
        BY <1>1, <4>6, MapEntry DEF Represents
      <4>8. k = Head(c).key
        BY <3>4 DEF c
      <4> QED
        BY <4>7, <4>8
    <3> DEFINE y == Moved(it, i, b)
    <3>6. IterShape(y) /\ y.table = i /\ y.index = b
      BY <1>6, IterMoved
    <3>7. iter' = HandOut(y, k)
      BY <1>4, <2>3, <3>4
    <3> HIDE DEF k, y
    <3>8. Placed(y) /\ Started(y)
      <4>1. d.ht[i].size \in Nat
        BY <1>1, TablesFine
      <4> QED
        BY <3>6, <4>1 DEF Placed, Started
    <3>9. IterFine(HandOut(y, k), KeysIn(map))
      BY <1>1, <3>5, <3>6, <3>8, HandOutFine
    <3> QED
      BY <3>7, <3>9
  <2> QED
    BY <2>1, <2>2, <2>3
<1>8. Represents(d', map)
  <2>1. d.iterators + 1 \in Int
    BY <1>1, DictType DEF DictFine
  <2>2. Represents([d EXCEPT !.iterators = d.iterators + 1], map)
    BY <1>1, <2>1, CountFine
  <2> QED
    BY <1>1, <1>3, <2>2
<1> QED
  BY <1>2, <1>7, <1>8 DEF DictInv

LEMMA NextKeeps == DictInv /\ [DictNext]_dictVars => DictInv'
<1> SUFFICES ASSUME DictInv, [DictNext]_dictVars PROVE DictInv'
  OBVIOUS
<1>1. ASSUME NEW k \in Keys, NEW v \in Vals, Add(k, v) PROVE DictInv'
  BY <1>1, AddKeeps
<1>2. ASSUME NEW k \in Keys, NEW v \in Vals, Replace(k, v) PROVE DictInv'
  BY <1>2, ReplaceKeeps
<1>3. ASSUME NEW k \in Keys, Delete(k) PROVE DictInv'
  BY <1>3, DeleteKeeps
<1>4. ASSUME NEW k \in Keys, Fetch(k) PROVE DictInv'
  BY <1>4, FetchKeeps
<1>5. CASE RandomKey
  BY <1>5, RandomKeyKeeps
<1>6. ASSUME NEW count \in 1..2, SomeKeys(count) PROVE DictInv'
  BY <1>6, SomeKeysKeeps
<1>7. ASSUME NEW n \in Sizes, Expand(n) PROVE DictInv'
  BY <1>7, ExpandKeeps
<1>8. CASE Resize
  BY <1>8, ResizeKeeps
<1>9. ASSUME NEW n \in 1..2, Rehash(n) PROVE DictInv'
  BY <1>9, RehashKeeps
<1>10. ASSUME NEW b \in BOOLEAN, SetResize(b) PROVE DictInv'
  BY <1>10, SetResizeKeeps
<1>11. CASE DictEmpty
  BY <1>11, DictEmptyKeeps
<1>12. ASSUME NEW safe \in BOOLEAN, GetIterator(safe) PROVE DictInv'
  BY <1>12, GetIteratorKeeps
<1>13. CASE IterNext
  BY <1>13, IterNextKeeps
<1>14. CASE Release
  BY <1>14, ReleaseKeeps
<1>15. CASE DictScan
  BY <1>15, DictScanKeeps
<1>16. CASE UNCHANGED dictVars
  <2>1. d' = d /\ iter' = iter /\ scan' = scan /\ map' = map /\ agree' = agree
    BY <1>16 DEF dictVars
  <2> QED
    BY <2>1 DEF DictInv
<1> QED
  BY <1>1, <1>2, <1>3, <1>4, <1>5, <1>6, <1>7, <1>8, <1>9, <1>10, <1>11, <1>12, <1>13, <1>14, <1>15,
     <1>16 DEF DictNext

\* There is one place for a key, in the bucket that a lookup walks.
LEMMA PlaceOf ==
    ASSUME NEW k, NEW p \in Places(k)
    PROVE  \E i \in {0, 1} : \E b \in DOMAIN d.ht[i].table : \E j \in DOMAIN d.ht[i].table[b] :
             p = <<i, b, j>> /\ d.ht[i].table[b][j].key = k
<1>1. p \in AllPlaces /\ d.ht[p[1]].table[p[2]][p[3]].key = k
  BY DEF Places
<1>2. PICK i \in {0, 1} :
        p \in UNION {{<<i, b, j>> : j \in DOMAIN d.ht[i].table[b]} : b \in DOMAIN d.ht[i].table}
  BY <1>1 DEF AllPlaces
<1>3. PICK b \in DOMAIN d.ht[i].table : p \in {<<i, b, j>> : j \in DOMAIN d.ht[i].table[b]}
  BY <1>2
<1>4. PICK j \in DOMAIN d.ht[i].table[b] : p = <<i, b, j>>
  BY <1>3
<1>5. p[1] = i /\ p[2] = b /\ p[3] = j
  BY <1>4
<1> QED
  BY <1>1, <1>4, <1>5

LEMMA PlaceFine ==
    ASSUME DictFine(d), NEW k \in Keys, NEW p \in Places(k)
    PROVE  \E i \in {0, 1} : \E b \in 0..d.ht[i].size - 1 : \E j \in 1..Len(d.ht[i].table[b]) :
             /\ p = <<i, b, j>> /\ d.ht[i].table[b][j].key = k
             /\ d.ht[i].table[b][j] \in Chained(d.ht[i])
             /\ b = Index(k, d.ht[i]) /\ (i = 0 => b >= d.rehashidx)
<1>a. PICK i \in {0, 1} : \E b \in DOMAIN d.ht[i].table : \E j \in DOMAIN d.ht[i].table[b] :
        p = <<i, b, j>> /\ d.ht[i].table[b][j].key = k
  BY PlaceOf
<1>b. PICK b \in DOMAIN d.ht[i].table : \E j \in DOMAIN d.ht[i].table[b] :
        p = <<i, b, j>> /\ d.ht[i].table[b][j].key = k
  BY <1>a
<1>1. PICK j \in DOMAIN d.ht[i].table[b] : p = <<i, b, j>> /\ d.ht[i].table[b][j].key = k
  BY <1>b
<1> DEFINE t == d.ht[i]
           c == t.table[b]
<1>2. TableFine(t) /\ t \in Table /\ t.size \in Nat
  BY TablesFine
<1>3. DOMAIN t.table = 0..t.size - 1
  BY <1>2, TableType
<1>4. b \in 0..t.size - 1 /\ j \in DOMAIN c
  BY <1>3
<1>5. c \in Seq(Entries)
  <2> HIDE DEF t
  <2> QED
    BY <1>2, <1>4, TableType
<1>6. DOMAIN c = 1..Len(c) /\ ToSet(c) = {c[l] : l \in 1..Len(c)}
  <2> HIDE DEF c
  <2> QED
    BY <1>5, ChainSet, LenProperties
<1>7. c[j] \in ToSet(c) /\ j \in 1..Len(c)
  <2> HIDE DEF c
  <2> QED
    BY <1>4, <1>6
<1>8. c[j] \in Chained(t) /\ Index(c[j].key, t) = b
  <2> DEFINE e == c[j]
  <2>1. e \in ToSet(t.table[b])
    BY <1>7
  <2> HIDE DEF t, e
  <2>2. e \in Chained(t) /\ Index(e.key, t) = b
    BY <1>2, <1>4, <2>1, OfBucket
  <2> QED
    BY <2>2 DEF e
<1>9. i = 0 => b >= d.rehashidx
  <2> SUFFICES ASSUME i = 0, ~(b >= d.rehashidx) PROVE FALSE
    OBVIOUS
  <2>1. b \in 0..d.rehashidx - 1
    BY <1>4 DEF DictFine
  <2>2. c = <<>>
    BY <2>1 DEF DictFine
  <2> HIDE DEF c
  <2> QED
    BY <1>7, <2>2
<1> QED
  BY <1>1, <1>4, <1>7, <1>8, <1>9

LEMMA OnePlace ==
    ASSUME DictFine(d), NEW k \in Keys
    PROVE  Cardinality(Places(k)) <= 1
<1>1. ASSUME NEW p \in Places(k), NEW q \in Places(k) PROVE p = q
  <2>1a. PICK i \in {0, 1} : \E b \in 0..d.ht[i].size - 1 : \E j \in 1..Len(d.ht[i].table[b]) :
           /\ p = <<i, b, j>> /\ d.ht[i].table[b][j].key = k
           /\ d.ht[i].table[b][j] \in Chained(d.ht[i])
           /\ b = Index(k, d.ht[i])
    BY PlaceFine
  <2>1b. PICK b \in 0..d.ht[i].size - 1 : \E j \in 1..Len(d.ht[i].table[b]) :
           /\ p = <<i, b, j>> /\ d.ht[i].table[b][j].key = k
           /\ d.ht[i].table[b][j] \in Chained(d.ht[i])
           /\ b = Index(k, d.ht[i])
    BY <2>1a
  <2>1. PICK j \in 1..Len(d.ht[i].table[b]) :
           /\ p = <<i, b, j>> /\ d.ht[i].table[b][j].key = k
           /\ d.ht[i].table[b][j] \in Chained(d.ht[i])
           /\ b = Index(k, d.ht[i])
    BY <2>1b
  <2>2a. PICK l \in {0, 1} : \E c \in 0..d.ht[l].size - 1 : \E m \in 1..Len(d.ht[l].table[c]) :
           /\ q = <<l, c, m>> /\ d.ht[l].table[c][m].key = k
           /\ d.ht[l].table[c][m] \in Chained(d.ht[l])
           /\ c = Index(k, d.ht[l])
    BY PlaceFine
  <2>2b. PICK c \in 0..d.ht[l].size - 1 : \E m \in 1..Len(d.ht[l].table[c]) :
           /\ q = <<l, c, m>> /\ d.ht[l].table[c][m].key = k
           /\ d.ht[l].table[c][m] \in Chained(d.ht[l])
           /\ c = Index(k, d.ht[l])
    BY <2>2a
  <2>2. PICK m \in 1..Len(d.ht[l].table[c]) :
           /\ q = <<l, c, m>> /\ d.ht[l].table[c][m].key = k
           /\ d.ht[l].table[c][m] \in Chained(d.ht[l])
           /\ c = Index(k, d.ht[l])
    BY <2>2b
  <2>3. i = l
    <3>1. k \in KeysOf(d.ht[i]) /\ k \in KeysOf(d.ht[l])
      BY <2>1, <2>2 DEF KeysOf
    <3>2. KeysOf(d.ht[0]) \cap KeysOf(d.ht[1]) = {}
      BY DEF DictFine
    <3> QED
      BY <3>1, <3>2
  <2>4. b = c
    BY <2>1, <2>2, <2>3
  <2>5. ChainFine(d.ht[i].table[b], d.ht[i].size, b)
    BY TablesFine DEF TableFine
  <2>6. j = m
    BY <2>1, <2>2, <2>3, <2>4, <2>5 DEF ChainFine
  <2> QED
    BY <2>1, <2>2, <2>3, <2>4, <2>6
<1>2. CASE Places(k) = {}
  BY <1>2, FS_EmptySet
<1>3. CASE Places(k) # {}
  <2>1. PICK p : p \in Places(k)
    BY <1>3
  <2>2. Places(k) = {p}
    BY <1>1, <2>1
  <2>3. Cardinality({p}) = 1
    BY FS_Singleton
  <2> QED
    BY <2>2, <2>3
<1> QED
  BY <1>2, <1>3

LEMMA InvFound == DictInv => EntriesFound
<1> SUFFICES ASSUME DictInv PROVE EntriesFound
  OBVIOUS
<1>1. DictFine(d) /\ IterFine(iter, KeysIn(map)) /\ ScanFine(scan)
  BY DEF DictInv, Represents
<1>2. ASSUME NEW i \in {0, 1}
      PROVE  /\ d.ht[i].size \in Nat /\ d.ht[i].used = Cardinality(Chained(d.ht[i]))
             /\ d.ht[i].table \in [0..d.ht[i].size - 1 -> Seq(Entries)]
  BY <1>1, TablesFine, TableType DEF TableFine
<1>3. d.rehashidx \in -1..d.ht[0].size /\ d.iterators \in Int /\ d.can_resize \in BOOLEAN
  BY <1>1, DictType DEF DictFine
<1>4. iter.next \in Keys \cup {Missing} /\ iter.table \in {0, 1} /\ scan.v \in Nat
  BY <1>1 DEF IterFine, Placed, ScanFine, KeysIn
<1>5. DictTypeOK
  BY <1>2, <1>3, <1>4 DEF DictTypeOK
<1>6. ASSUME NEW k \in Keys, NEW p \in Places(k)
      PROVE  p[2] = Index(k, d.ht[p[1]]) /\ (p[1] = 0 => p[2] >= d.rehashidx)
  <2>1a. PICK i \in {0, 1} : \E b \in 0..d.ht[i].size - 1 : \E j \in 1..Len(d.ht[i].table[b]) :
           p = <<i, b, j>> /\ b = Index(k, d.ht[i]) /\ (i = 0 => b >= d.rehashidx)
    BY <1>1, <1>6, PlaceFine
  <2>1b. PICK b \in 0..d.ht[i].size - 1 : \E j \in 1..Len(d.ht[i].table[b]) :
           p = <<i, b, j>> /\ b = Index(k, d.ht[i]) /\ (i = 0 => b >= d.rehashidx)
    BY <2>1a
  <2>1. PICK j \in 1..Len(d.ht[i].table[b]) :
           p = <<i, b, j>> /\ b = Index(k, d.ht[i]) /\ (i = 0 => b >= d.rehashidx)
    BY <2>1b
  <2>2. p[1] = i /\ p[2] = b
    BY <2>1
  <2> QED
    BY <2>1, <2>2
<1>7. dictIsRehashing(d) <=> d.ht[1].size > 0
  BY <1>1, <1>2 DEF DictFine
<1>8. \A k \in Keys : Cardinality(Places(k)) <= 1
  BY <1>1, OnePlace
<1> QED
  BY <1>5, <1>6, <1>7, <1>8 DEF EntriesFound

LEMMA InvMap == DictInv => IsMap
<1> SUFFICES ASSUME DictInv PROVE IsMap
  OBVIOUS
<1>1. \A k \in Keys : Lookup(d, k) = map[k]
  BY LookupKey DEF DictInv
<1>2. agree
  BY DEF DictInv
<1> QED
  BY <1>1, <1>2 DEF IsMap

\* Every entry is in the bucket a lookup of its key searches, and there is one for a key; nothing
\* is left where the buckets were moved, and the second table is there exactly while the first
\* is rehashed: whatever is added, replaced, removed, resized, rehashed, iterated and scanned, in
\* any order (dict.c:202-286, 320-450, 985-990).
THEOREM EntriesFoundCorrect == DictSpec => []EntriesFound
<1>1. DictInit => DictInv
  BY InitRight
<1>2. DictInv /\ [DictNext]_dictVars => DictInv'
  BY NextKeeps
<1>3. DictInv => EntriesFound
  BY InvFound
<1> QED
  BY <1>1, <1>2, <1>3, PTL DEF DictSpec

\* The dictionary is a map: a lookup finds what the calls have put there whatever was moved in
\* the meantime, every call has answered as a map would, and dictGetRandomKey looks at each key that is
\* there and at no other (dict.c:344-450, 487-513, 621-660).
THEOREM IsMapCorrect == DictSpec => []IsMap
<1>1. DictInit => DictInv
  BY InitRight
<1>2. DictInv /\ [DictNext]_dictVars => DictInv'
  BY NextKeeps
<1>3. DictInv => IsMap
  BY InvMap
<1> QED
  BY <1>1, <1>2, <1>3, PTL DEF DictSpec

-----------------------------------------------------------------------------
(* The order of the entries in a table.                                    *)

\* In the chain c the entry of k is that of n or comes behind it.
NotBefore(c, n, k) ==
    \E x \in 1..Len(c) : \E y \in 1..Len(c) : x <= y /\ c[x].key = n /\ c[y].key = k

\* p has the entries of t in the same order, but for those of the keys ks.
SameOrder(t, p, ks) ==
    /\ p.size = t.size
    /\ \A b \in 0..t.size - 1 : \A n \in (Keys \cup {Missing}) \ ks : \A k \in Keys \ ks :
         NotBefore(p.table[b], n, k) <=> NotBefore(t.table[b], n, k)

\* A chain with a new head.
LEMMA HeadedIs ==
    ASSUME NEW c \in Seq(Entries), NEW e \in Entries
    PROVE  LET f == <<e>> \o c
           IN  /\ f \in Seq(Entries) /\ Len(f) = Len(c) + 1
               /\ \A j \in 1..Len(f) : f[j] = IF j = 1 THEN e ELSE c[j - 1]
<1> DEFINE f == <<e>> \o c
<1>1. <<e>> \in Seq(Entries) /\ Len(<<e>>) = 1 /\ <<e>>[1] = e
  OBVIOUS
<1>2. /\ f \in Seq(Entries) /\ Len(f) = 1 + Len(c)
      /\ \A j \in 1..1 + Len(c) : f[j] = IF j <= 1 THEN <<e>>[j] ELSE c[j - 1]
  BY <1>1, ConcatProperties
<1>3. Len(c) \in Nat
  BY LenProperties
<1> HIDE DEF f
<1>4. /\ f \in Seq(Entries) /\ Len(f) = Len(c) + 1
      /\ \A j \in 1..Len(f) : f[j] = IF j = 1 THEN e ELSE c[j - 1]
  BY <1>1, <1>2, <1>3
<1> QED
  BY <1>4 DEF f

\* It does not change the order of the others.
LEMMA HeadedOrder ==
    ASSUME NEW c \in Seq(Entries), NEW e \in Entries, NEW n, NEW k, n # e.key, k # e.key
    PROVE  NotBefore(<<e>> \o c, n, k) <=> NotBefore(c, n, k)
<1> DEFINE f == <<e>> \o c
           m == Len(c)
<1>1. m \in Nat /\ Len(f) = m + 1 /\ \A j \in 1..m + 1 : f[j] = IF j = 1 THEN e ELSE c[j - 1]
  BY HeadedIs, LenProperties
<1> HIDE DEF f
<1>2. ASSUME NEW x \in 1..m + 1, NEW y \in 1..m + 1, x <= y, f[x].key = n, f[y].key = k
      PROVE  NotBefore(c, n, k)
  <2>1. x # 1 /\ y # 1
    BY <1>1, <1>2
  <2>2. x - 1 \in 1..m /\ y - 1 \in 1..m /\ x - 1 <= y - 1
    BY <1>1, <1>2, <2>1
  <2>3. c[x - 1].key = n /\ c[y - 1].key = k
    BY <1>1, <1>2, <2>1
  <2> QED
    BY <2>2, <2>3 DEF NotBefore
<1>3. ASSUME NEW x \in 1..m, NEW y \in 1..m, x <= y, c[x].key = n, c[y].key = k
      PROVE  NotBefore(f, n, k)
  <2> DEFINE a == x + 1
             b == y + 1
  <2>1. a \in 1..m + 1 /\ b \in 1..m + 1 /\ a <= b /\ a # 1 /\ b # 1 /\ a - 1 = x /\ b - 1 = y
    BY <1>1, <1>3
  <2> HIDE DEF a, b
  <2>2. f[a].key = n /\ f[b].key = k
    BY <1>1, <1>3, <2>1
  <2> QED
    BY <1>1, <2>1, <2>2 DEF NotBefore
<1>4. NotBefore(f, n, k) => NotBefore(c, n, k)
  BY <1>1, <1>2 DEF NotBefore
<1>5. NotBefore(c, n, k) => NotBefore(f, n, k)
  BY <1>3 DEF NotBefore, m
<1> QED
  BY <1>4, <1>5 DEF f

\* Values do not matter to it.
LEMMA ValuedOrder ==
    ASSUME NEW c \in Seq(Entries), NEW l \in Keys, NEW v \in Vals, NEW n, NEW k
    PROVE  NotBefore(ValuedChain(c, l, v), n, k) <=> NotBefore(c, n, k)
<1> DEFINE f == ValuedChain(c, l, v)
           m == Len(c)
<1>1. m \in Nat /\ c \in [1..m -> Entries] /\ DOMAIN c = 1..m
  BY LenProperties
<1>f. f = [j \in 1..m |-> IF c[j].key = l THEN [c[j] EXCEPT !.val = v] ELSE c[j]]
  BY <1>1 DEF ValuedChain
<1> HIDE DEF f
<1>2. \A j \in 1..m : f[j] \in Entries /\ f[j].key = c[j].key
  <2> SUFFICES ASSUME NEW j \in 1..m PROVE f[j] \in Entries /\ f[j].key = c[j].key
    OBVIOUS
  <2>1. c[j] \in Entries /\ f[j] = IF c[j].key = l THEN [c[j] EXCEPT !.val = v] ELSE c[j]
    BY <1>1, <1>f
  <2> DEFINE e == c[j]
  <2>2. e = [key |-> e.key, val |-> e.val] /\ e.key \in Keys
    BY <2>1, EntryType
  <2> HIDE DEF e
  <2>3. [e EXCEPT !.val = v] = [key |-> e.key, val |-> v]
    BY <2>2
  <2>4. [key |-> e.key, val |-> v] \in Entries
    BY <2>2 DEF Entries
  <2> QED
    BY <2>1, <2>3, <2>4 DEF e
<1>3. Len(f) = m
  <2>1. f \in [1..m -> Entries]
    BY <1>2, <1>f
  <2>2. f \in Seq(Entries)
    BY <1>1, <2>1
  <2>3. DOMAIN f = 1..Len(f) /\ Len(f) \in Nat /\ DOMAIN f = 1..m
    BY <2>1, <2>2, LenProperties
  <2> DEFINE u == Len(f)
  <2>4. m \in Nat /\ u \in Nat /\ 1..u = 1..m
    BY <1>1, <2>3
  <2> HIDE DEF u, m
  <2>5. (m # 0 => m \in 1..m) /\ (u # 0 => u \in 1..u)
    BY <2>4
  <2>6. (m # 0 => m <= u) /\ (u # 0 => u <= m)
    BY <2>4, <2>5
  <2>7. m = u
    BY <2>4, <2>6
  <2> QED
    BY <2>7 DEF u, m
<1>4. NotBefore(f, n, k) <=> NotBefore(c, n, k)
  BY <1>2, <1>3 DEF NotBefore
<1> QED
  BY <1>4 DEF f

\* A chain without its entry i.
LEMMA RemovedIs ==
    ASSUME NEW c \in Seq(Entries), NEW i \in 1..Len(c)
    PROVE  /\ RemoveAt(c, i) \in Seq(Entries) /\ Len(RemoveAt(c, i)) = Len(c) - 1
           /\ \A j \in 1..Len(c) - 1 : RemoveAt(c, i)[j] = IF j < i THEN c[j] ELSE c[j + 1]
<1> DEFINE f == RemoveAt(c, i)
           x == SubSeq(c, 1, i - 1)
           y == SubSeq(c, i + 1, Len(c))
           m == Len(c)
<1>1. m \in Nat /\ c \in [1..m -> Entries]
  BY LenProperties
<1>2. \A j \in 1..m : c[j] \in Entries
  BY <1>1
<1> HIDE DEF m
<1>3. i \in 1..m
  BY DEF m
<1>4. x \in Seq(Entries) /\ Len(x) = i - 1 /\ \A j \in 1..i - 1 : x[j] = c[j]
  <2>1. \A j \in 1..i - 1 : c[j] \in Entries
    BY <1>1, <1>2, <1>3
  <2>2. /\ x \in Seq(Entries) /\ Len(x) = IF 1 <= i - 1 THEN (i - 1) - 1 + 1 ELSE 0
        /\ \A j \in 1..(i - 1) - 1 + 1 : x[j] = c[1 + j - 1]
    BY <1>1, <1>3, <2>1, SubSeqProperties
  <2> HIDE DEF x
  <2> QED
    BY <1>1, <1>3, <2>2
<1>5. y \in Seq(Entries) /\ Len(y) = m - i /\ \A j \in 1..m - i : y[j] = c[i + j]
  <2>1. \A j \in i + 1..m : c[j] \in Entries
    BY <1>1, <1>2, <1>3
  <2>2. /\ y \in Seq(Entries) /\ Len(y) = IF i + 1 <= m THEN m - (i + 1) + 1 ELSE 0
        /\ \A j \in 1..m - (i + 1) + 1 : y[j] = c[(i + 1) + j - 1]
    BY <1>1, <1>3, <2>1, SubSeqProperties DEF m
  <2> HIDE DEF y
  <2> QED
    BY <1>1, <1>3, <2>2
<1>6. f = x \o y
  BY DEF RemoveAt
<1> HIDE DEF f, x, y
<1>7. /\ f \in Seq(Entries) /\ Len(f) = Len(x) + Len(y)
      /\ \A j \in 1..Len(x) + Len(y) : f[j] = IF j <= Len(x) THEN x[j] ELSE y[j - Len(x)]
  BY <1>4, <1>5, <1>6, ConcatProperties
<1>8. Len(x) + Len(y) = m - 1
  BY <1>1, <1>3, <1>4, <1>5
<1>9. ASSUME NEW j \in 1..m - 1 PROVE f[j] = IF j < i THEN c[j] ELSE c[j + 1]
  <2>1. CASE j < i
    <3>1. j \in 1..i - 1 /\ j <= Len(x)
      BY <1>1, <1>3, <1>4, <2>1
    <3>2. f[j] = x[j]
      BY <1>7, <1>8, <3>1
    <3> QED
      BY <1>4, <2>1, <3>1, <3>2
  <2>2. CASE ~(j < i)
    <3>1. j - (i - 1) \in 1..m - i /\ i + (j - (i - 1)) = j + 1
      BY <1>1, <1>3, <2>2
    <3>2. f[j] = y[j - (i - 1)]
      BY <1>1, <1>3, <1>4, <1>7, <1>8, <2>2
    <3> QED
      BY <1>5, <2>2, <3>1, <3>2
  <2> QED
    BY <2>1, <2>2
<1> QED
  BY <1>7, <1>8, <1>9 DEF f, m

\* Removing an entry does not change the order of the others.
LEMMA RemovedOrder ==
    ASSUME NEW c \in Seq(Entries), NEW i \in 1..Len(c), NEW n, NEW k, n # c[i].key, k # c[i].key
    PROVE  NotBefore(RemoveAt(c, i), n, k) <=> NotBefore(c, n, k)
<1> DEFINE f == RemoveAt(c, i)
           m == Len(c)
<1>1. /\ m \in Nat /\ i \in 1..m /\ Len(f) = m - 1
      /\ \A j \in 1..m - 1 : f[j] = IF j < i THEN c[j] ELSE c[j + 1]
  BY RemovedIs, LenProperties
<1> HIDE DEF f
<1>2. ASSUME NEW x \in 1..m - 1, NEW y \in 1..m - 1, x <= y, f[x].key = n, f[y].key = k
      PROVE  NotBefore(c, n, k)
  <2> DEFINE a == IF x < i THEN x ELSE x + 1
             b == IF y < i THEN y ELSE y + 1
  <2>1. a \in 1..m /\ b \in 1..m /\ a <= b
    BY <1>1, <1>2
  <2>2. c[a].key = n /\ c[b].key = k
    BY <1>1, <1>2
  <2> HIDE DEF a, b
  <2> QED
    BY <2>1, <2>2 DEF NotBefore
<1>3. ASSUME NEW x \in 1..m, NEW y \in 1..m, x <= y, c[x].key = n, c[y].key = k
      PROVE  NotBefore(f, n, k)
  <2> DEFINE a == IF x < i THEN x ELSE x - 1
             b == IF y < i THEN y ELSE y - 1
  <2>1. x # i /\ y # i
    BY <1>3
  <2>2. a \in 1..m - 1 /\ b \in 1..m - 1 /\ a <= b
    BY <1>1, <1>3, <2>1
  <2>3. c[x] = f[a] /\ c[y] = f[b]
    <3>1. c[x] = f[a]
      <4>1. CASE x < i
        BY <1>1, <2>2, <4>1
      <4>2. CASE ~(x < i)
        <5>1. ~(a < i) /\ a + 1 = x
          BY <1>1, <2>1, <4>2
        <5> HIDE DEF a
        <5> QED
          BY <1>1, <2>2, <5>1
      <4> QED
        BY <4>1, <4>2
    <3>2. c[y] = f[b]
      <4>1. CASE y < i
        BY <1>1, <2>2, <4>1
      <4>2. CASE ~(y < i)
        <5>1. ~(b < i) /\ b + 1 = y
          BY <1>1, <2>1, <4>2
        <5> HIDE DEF b
        <5> QED
          BY <1>1, <2>2, <5>1
      <4> QED
        BY <4>1, <4>2
    <3> QED
      BY <3>1, <3>2
  <2> HIDE DEF a, b
  <2> QED
    BY <1>1, <1>3, <2>2, <2>3 DEF NotBefore
<1>4. NotBefore(f, n, k) => NotBefore(c, n, k)
  BY <1>1, <1>2 DEF NotBefore
<1>5. NotBefore(c, n, k) => NotBefore(f, n, k)
  BY <1>3 DEF NotBefore, m
<1> QED
  BY <1>4, <1>5 DEF f

\* A table where one bucket is changed.
LEMMA BucketSet ==
    ASSUME NEW t \in Table, NEW b \in 0..t.size - 1, NEW c
    PROVE  LET p == [t EXCEPT !.table[b] = c]
           IN  /\ p.size = t.size /\ p.used = t.used
               /\ \A x \in 0..t.size - 1 : p.table[x] = IF x = b THEN c ELSE t.table[x]
<1> DEFINE T == [t.table EXCEPT ![b] = c]
           p == [t EXCEPT !.table = T]
<1>1. /\ t = [size |-> t.size, used |-> t.used, table |-> t.table] /\ DOMAIN t.table = 0..t.size - 1
  BY TableType
<1>2. \A x \in 0..t.size - 1 : T[x] = IF x = b THEN c ELSE t.table[x]
  BY <1>1
<1> HIDE DEF T
<1>3. p = [size |-> t.size, used |-> t.used, table |-> T]
  BY <1>1
<1>4. p.size = t.size /\ p.used = t.used /\ p.table = T
  BY <1>3
<1> HIDE DEF p
<1>5. p.size = t.size /\ p.used = t.used /\ \A x \in 0..t.size - 1 : p.table[x] = IF x = b THEN c ELSE t.table[x]
  BY <1>2, <1>4
<1> QED
  BY <1>5 DEF p, T

LEMMA UsedSet ==
    ASSUME NEW t, t = [size |-> t.size, used |-> t.used, table |-> t.table], NEW u
    PROVE  LET p == [t EXCEPT !.used = u]
           IN  p.size = t.size /\ p.used = u /\ p.table = t.table
<1> DEFINE p == [t EXCEPT !.used = u]
<1>1. p = [size |-> t.size, used |-> u, table |-> t.table]
  OBVIOUS
<1> HIDE DEF p
<1>2. p.size = t.size /\ p.used = u /\ p.table = t.table
  BY <1>1
<1> QED
  BY <1>2 DEF p

\* What the changes of a table do to its buckets.
LEMMA BothSet ==
    ASSUME NEW t \in Table, NEW b \in 0..t.size - 1, NEW c, NEW u
    PROVE  LET p == [[t EXCEPT !.table[b] = c] EXCEPT !.used = u]
           IN  /\ p.size = t.size /\ p.used = u
               /\ \A x \in 0..t.size - 1 : p.table[x] = IF x = b THEN c ELSE t.table[x]
<1> DEFINE q == [t EXCEPT !.table[b] = c]
           p == [q EXCEPT !.used = u]
<1>1. /\ q.size = t.size
      /\ \A x \in 0..t.size - 1 : q.table[x] = IF x = b THEN c ELSE t.table[x]
  BY BucketSet
<1>2. q = [size |-> q.size, used |-> q.used, table |-> q.table]
  <2> DEFINE T == [t.table EXCEPT ![b] = c]
  <2>1. t = [size |-> t.size, used |-> t.used, table |-> t.table]
    BY TableType
  <2>2. q = [t EXCEPT !.table = T]
    OBVIOUS
  <2> HIDE DEF T
  <2>3. q = [size |-> t.size, used |-> t.used, table |-> T]
    BY <2>1, <2>2
  <2> HIDE DEF q
  <2> QED
    BY <2>3
<1> HIDE DEF q
<1>3. p.size = q.size /\ p.used = u /\ p.table = q.table
  BY <1>2, UsedSet
<1> HIDE DEF p
<1>4. /\ p.size = t.size /\ p.used = u
      /\ \A x \in 0..t.size - 1 : p.table[x] = IF x = b THEN c ELSE t.table[x]
  BY <1>1, <1>3
<1> QED
  BY <1>4 DEF p, q

LEMMA PushOrder ==
    ASSUME NEW t \in Table, t.size # 0, NEW e \in Entries
    PROVE  SameOrder(t, Push(t, e), {e.key}) /\ Push(t, e).used = t.used + 1
<1> DEFINE b == Index(e.key, t)
           c == <<e>> \o t.table[b]
           u == t.used + 1
           p == Push(t, e)
<1>1. e.key \in Keys /\ b \in 0..t.size - 1
  BY EntryType, IndexType
<1>2. t.table \in [0..t.size - 1 -> Seq(Entries)]
  BY TableType
<1>3. p = [[t EXCEPT !.table[b] = c] EXCEPT !.used = u]
  BY DEF Push
<1> HIDE DEF p, b
<1>4. \A n, k : n # e.key /\ k # e.key => (NotBefore(c, n, k) <=> NotBefore(t.table[b], n, k))
  <2>1. t.table[b] \in Seq(Entries)
    BY <1>1, <1>2
  <2> QED
    BY <2>1, HeadedOrder
<1> HIDE DEF c, u
<1>5. /\ p.size = t.size /\ p.used = u
      /\ \A x \in 0..t.size - 1 : p.table[x] = IF x = b THEN c ELSE t.table[x]
  BY <1>1, <1>3, BothSet
<1>6. ASSUME NEW x \in 0..t.size - 1, NEW n, NEW k, n # e.key, k # e.key
      PROVE  NotBefore(p.table[x], n, k) <=> NotBefore(t.table[x], n, k)
  <2>1. CASE x = b
    BY <1>4, <1>5, <1>6, <2>1
  <2>2. CASE x # b
    BY <1>5, <2>2
  <2> QED
    BY <2>1, <2>2
<1>7. SameOrder(t, p, {e.key})
  BY <1>5, <1>6 DEF SameOrder
<1> QED
  BY <1>5, <1>7 DEF p, u

LEMMA ValueOrder ==
    ASSUME NEW t \in Table, NEW b \in 0..t.size - 1, NEW l \in Keys, NEW v \in Vals
    PROVE  SameOrder(t, Valued(t, b, l, v), {}) /\ Valued(t, b, l, v).used = t.used
<1> DEFINE c == ValuedChain(t.table[b], l, v)
           p == Valued(t, b, l, v)
<1>1. t.table[b] \in Seq(Entries)
  BY TableType
<1>2. p = [t EXCEPT !.table[b] = c]
  BY DEF Valued
<1> HIDE DEF p
<1>3. \A n, k : NotBefore(c, n, k) <=> NotBefore(t.table[b], n, k)
  BY <1>1, ValuedOrder
<1> HIDE DEF c
<1>4. /\ p.size = t.size /\ p.used = t.used
      /\ \A x \in 0..t.size - 1 : p.table[x] = IF x = b THEN c ELSE t.table[x]
  <2> DEFINE r == [t EXCEPT !.table[b] = c]
  <2>1. /\ r.size = t.size /\ r.used = t.used
        /\ \A x \in 0..t.size - 1 : r.table[x] = IF x = b THEN c ELSE t.table[x]
    BY BucketSet
  <2>2. p = r
    BY <1>2
  <2> HIDE DEF r
  <2> QED
    BY <2>1, <2>2
<1>5. ASSUME NEW x \in 0..t.size - 1, NEW n, NEW k
      PROVE  NotBefore(p.table[x], n, k) <=> NotBefore(t.table[x], n, k)
  <2>1. CASE x = b
    BY <1>3, <1>4, <2>1
  <2>2. CASE x # b
    BY <1>4, <2>2
  <2> QED
    BY <2>1, <2>2
<1>6. SameOrder(t, p, {})
  BY <1>4, <1>5 DEF SameOrder
<1> QED
  BY <1>4, <1>6 DEF p

\* The order after one bucket was changed.
LEMMA BucketOrder ==
    ASSUME NEW t \in Table, NEW b \in 0..t.size - 1, NEW c, NEW u, NEW l,
           \A n, k : n # l /\ k # l => (NotBefore(c, n, k) <=> NotBefore(t.table[b], n, k))
    PROVE  SameOrder(t, [[t EXCEPT !.table[b] = c] EXCEPT !.used = u], {l})
<1> DEFINE p == [[t EXCEPT !.table[b] = c] EXCEPT !.used = u]
<1>1. /\ p.size = t.size
      /\ \A x \in 0..t.size - 1 : p.table[x] = IF x = b THEN c ELSE t.table[x]
  BY BothSet
<1> HIDE DEF p
<1>2. ASSUME NEW x \in 0..t.size - 1, NEW n, NEW k, n # l, k # l
      PROVE  NotBefore(p.table[x], n, k) <=> NotBefore(t.table[x], n, k)
  <2>1. CASE x = b
    BY <1>1, <1>2, <2>1
  <2>2. CASE x # b
    BY <1>1, <2>2
  <2> QED
    BY <2>1, <2>2
<1>3. SameOrder(t, p, {l})
  BY <1>1, <1>2 DEF SameOrder
<1> QED
  BY <1>3 DEF p

LEMMA DropOrder ==
    ASSUME NEW t \in Table, NEW b \in 0..t.size - 1, NEW i \in 1..Len(t.table[b])
    PROVE  SameOrder(t, Dropped(t, b, i), {t.table[b][i].key})
<1> DEFINE c == RemoveAt(t.table[b], i)
           q == [t EXCEPT !.table[b] = c]
           u == q.used - 1
           l == t.table[b][i].key
<1>1. t.table[b] \in Seq(Entries)
  BY TableType
<1>2. Dropped(t, b, i) = [[t EXCEPT !.table[b] = c] EXCEPT !.used = u]
  BY DEF Dropped
<1>3. \A n, k : n # l /\ k # l => (NotBefore(c, n, k) <=> NotBefore(t.table[b], n, k))
  BY <1>1, RemovedOrder
<1> HIDE DEF c, q, u, l
<1>4. SameOrder(t, [[t EXCEPT !.table[b] = c] EXCEPT !.used = u], {l})
  BY <1>3, BucketOrder
<1> QED
  BY <1>2, <1>4 DEF l

\* The keys of the table t that are still to come for an iterator at bucket b
\* which hands out the entry of n next.
Later(t, b, n) ==
    {k \in Keys : \/ \E i \in 0..t.size - 1 : i > b /\ NotBefore(t.table[i], k, k)
                  \/ b \in 0..t.size - 1 /\ NotBefore(t.table[b], n, k)}

\* A key is in a table when it is in a chain of it.
LEMMA KeysAre ==
    ASSUME NEW t \in Table, NEW k
    PROVE  k \in KeysOf(t) <=> \E b \in 0..t.size - 1 : NotBefore(t.table[b], k, k)
<1>1. ASSUME k \in KeysOf(t) PROVE \E b \in 0..t.size - 1 : NotBefore(t.table[b], k, k)
  <2>1. PICK e \in Chained(t) : e.key = k
    BY <1>1 DEF KeysOf
  <2>2. PICK b \in 0..t.size - 1 : \E j \in 1..Len(t.table[b]) : e = t.table[b][j]
    BY InChained
  <2>3. PICK j \in 1..Len(t.table[b]) : e = t.table[b][j]
    BY <2>2
  <2>4. j <= j
    OBVIOUS
  <2>5. NotBefore(t.table[b], k, k)
    BY <2>1, <2>3, <2>4 DEF NotBefore
  <2> QED
    BY <2>5
<1>2. ASSUME NEW b \in 0..t.size - 1, NotBefore(t.table[b], k, k) PROVE k \in KeysOf(t)
  <2>1. PICK j \in 1..Len(t.table[b]) : t.table[b][j].key = k
    BY <1>2 DEF NotBefore
  <2>2. t.table[b][j] \in Chained(t)
    BY InChained
  <2> QED
    BY <2>1, <2>2 DEF KeysOf
<1> QED
  BY <1>1, <1>2

LEMMA KeysType ==
    ASSUME NEW t \in Table
    PROVE  KeysOf(t) \subseteq Keys
BY ChainedType, EntryType DEF KeysOf

LEMMA OrderKeys ==
    ASSUME NEW t \in Table, NEW p \in Table, NEW ks, SameOrder(t, p, ks), NEW k \in Keys \ ks
    PROVE  k \in KeysOf(p) <=> k \in KeysOf(t)
BY KeysAre DEF SameOrder

LEMMA OrderLater ==
    ASSUME NEW t \in Table, NEW p \in Table, NEW ks, SameOrder(t, p, ks), NEW k \in Keys \ ks,
           NEW b, NEW n \in (Keys \cup {Missing}) \ ks
    PROVE  k \in Later(p, b, n) <=> k \in Later(t, b, n)
<1>1. p.size = t.size
  BY DEF SameOrder
<1>2. \A i \in 0..t.size - 1 : NotBefore(p.table[i], k, k) <=> NotBefore(t.table[i], k, k)
  BY DEF SameOrder
<1>3. b \in 0..t.size - 1 => (NotBefore(p.table[b], n, k) <=> NotBefore(t.table[b], n, k))
  BY DEF SameOrder
<1> QED
  BY <1>1, <1>2, <1>3 DEF Later

-----------------------------------------------------------------------------
(* What lies ahead of an iterator.                                         *)

\* The keys that an iterator has still to come to.
Ahead(it, dd) ==
    Later(dd.ht[it.table], it.index, it.next) \cup (IF it.table = 0 THEN KeysOf(dd.ht[1]) ELSE {})

HeldKeys(dd) == KeysOf(dd.ht[0]) \cup KeysOf(dd.ht[1])

\* The saved entry is in the iterator's bucket; the watched key w is ahead while it is
\* owed, and there but not ahead once it was given.
Clean(it, dd, w) ==
    /\ it.next # Missing => /\ it.index \in 0..dd.ht[it.table].size - 1
                            /\ NotBefore(dd.ht[it.table].table[it.index], it.next, it.next)
    /\ it.table = 1 => dd.ht[1].size # 0
    /\ it.owed => w \in Ahead(it, dd)
    /\ it.given => w \in HeldKeys(dd) \ Ahead(it, dd)

\* y is the iterator it, where no more is owed or given.
Follower(it, y) ==
    /\ y.table = it.table /\ y.index = it.index /\ y.next = it.next
    /\ y.owed => it.owed
    /\ y.given => it.given

\* The tables keep their order but for the keys ks.
SameOrders(dd, x, ks) == \A i \in {0, 1} : SameOrder(dd.ht[i], x.ht[i], ks)

LEMMA OrderHeld ==
    ASSUME NEW dd, DictFine(dd), NEW x, DictFine(x), NEW ks, SameOrders(dd, x, ks), NEW k \in Keys \ ks
    PROVE  k \in HeldKeys(x) <=> k \in HeldKeys(dd)
<1>1. \A i \in {0, 1} : k \in KeysOf(x.ht[i]) <=> k \in KeysOf(dd.ht[i])
  BY TablesFine, OrderKeys DEF SameOrders
<1> QED
  BY <1>1 DEF HeldKeys

LEMMA OrderAhead ==
    ASSUME NEW dd, DictFine(dd), NEW x, DictFine(x), NEW ks, SameOrders(dd, x, ks), NEW k \in Keys \ ks,
           NEW it, it.table \in {0, 1}, it.next \in (Keys \cup {Missing}) \ ks
    PROVE  k \in Ahead(it, x) <=> k \in Ahead(it, dd)
<1>1. k \in KeysOf(x.ht[1]) <=> k \in KeysOf(dd.ht[1])
  BY TablesFine, OrderKeys DEF SameOrders
<1>2. /\ dd.ht[it.table] \in Table /\ x.ht[it.table] \in Table
      /\ SameOrder(dd.ht[it.table], x.ht[it.table], ks)
  BY TablesFine DEF SameOrders
<1>3. k \in Later(x.ht[it.table], it.index, it.next) <=> k \in Later(dd.ht[it.table], it.index, it.next)
  <2> DEFINE t == dd.ht[it.table]
             p == x.ht[it.table]
             n == it.next
             b == it.index
  <2>1. t \in Table /\ p \in Table /\ SameOrder(t, p, ks) /\ n \in (Keys \cup {Missing}) \ ks
    BY <1>2
  <2> HIDE DEF t, p, n, b
  <2>2. k \in Later(p, b, n) <=> k \in Later(t, b, n)
    BY <2>1, OrderLater
  <2> QED
    BY <2>2 DEF t, p, n, b
<1> QED
  BY <1>1, <1>3 DEF Ahead

\* What keeps the order keeps the iterator in its place.
LEMMA CleanKept ==
    ASSUME NEW dd, DictFine(dd), NEW x, DictFine(x), NEW ks, SameOrders(dd, x, ks),
           NEW it, it.table \in {0, 1}, it.next \in (Keys \cup {Missing}) \ ks, NEW w \in Keys,
           NEW y, Follower(it, y), w \in ks => ~y.owed /\ ~y.given, Clean(it, dd, w)
    PROVE  Clean(y, x, w)
<1>1. y.table = it.table /\ y.index = it.index /\ y.next = it.next
  BY DEF Follower
<1>2. Ahead(y, x) = Ahead(it, x)
  BY <1>1 DEF Ahead
<1>3. \A i \in {0, 1} : x.ht[i].size = dd.ht[i].size
  BY DEF SameOrders, SameOrder
<1>4. ASSUME y.next # Missing
      PROVE  /\ y.index \in 0..x.ht[y.table].size - 1
             /\ NotBefore(x.ht[y.table].table[y.index], y.next, y.next)
  <2> DEFINE t == dd.ht[it.table]
             p == x.ht[it.table]
             b == it.index
             n == it.next
  <2>1. b \in 0..t.size - 1 /\ NotBefore(t.table[b], n, n)
    BY <1>1, <1>4 DEF Clean
  <2>2. SameOrder(t, p, ks)
    BY DEF SameOrders
  <2>3. n \in Keys \ ks
    BY <1>1, <1>4
  <2> HIDE DEF t, p, b, n
  <2>4. b \in 0..p.size - 1 /\ NotBefore(p.table[b], n, n)
    BY <2>1, <2>2, <2>3 DEF SameOrder
  <2> QED
    BY <1>1, <2>4 DEF p, b, n
<1>5. y.table = 1 => x.ht[1].size # 0
  BY <1>1, <1>3 DEF Clean
<1>6. w \notin ks => (w \in Ahead(it, x) <=> w \in Ahead(it, dd))
  BY OrderAhead
<1>7. w \notin ks => (w \in HeldKeys(x) <=> w \in HeldKeys(dd))
  BY OrderHeld
<1>8. y.owed => w \in Ahead(y, x)
  <2> SUFFICES ASSUME y.owed PROVE w \in Ahead(y, x)
    OBVIOUS
  <2>1. w \notin ks /\ w \in Ahead(it, dd)
    BY DEF Follower, Clean
  <2> QED
    BY <1>2, <1>6, <2>1
<1>9. y.given => w \in HeldKeys(x) \ Ahead(y, x)
  <2> SUFFICES ASSUME y.given PROVE w \in HeldKeys(x) \ Ahead(y, x)
    OBVIOUS
  <2>1. w \notin ks /\ w \in HeldKeys(dd) \ Ahead(it, dd)
    BY DEF Follower, Clean
  <2> QED
    BY <1>2, <1>6, <1>7, <2>1
<1> QED
  BY <1>4, <1>5, <1>8, <1>9 DEF Clean

\* What an iterator refers to is in the dictionary.
LEMMA AheadHeld ==
    ASSUME NEW dd, DictFine(dd), NEW it, it.table \in {0, 1}, it.next \in Keys \cup {Missing}
    PROVE  Ahead(it, dd) \subseteq HeldKeys(dd)
<1> SUFFICES ASSUME NEW k \in Ahead(it, dd) PROVE k \in HeldKeys(dd)
  OBVIOUS
<1> DEFINE t == dd.ht[it.table]
           b == it.index
           n == it.next
<1>1. t \in Table /\ KeysOf(t) \subseteq HeldKeys(dd)
  BY TablesFine DEF HeldKeys
<1>2. CASE k \in Later(t, b, n)
  <2> HIDE DEF t, b, n
  <2>1. \E i \in 0..t.size - 1 : NotBefore(t.table[i], k, k)
    <3>1. CASE \E i \in 0..t.size - 1 : i > b /\ NotBefore(t.table[i], k, k)
      BY <3>1
    <3>2. CASE b \in 0..t.size - 1 /\ NotBefore(t.table[b], n, k)
      <4>1. PICK y \in 1..Len(t.table[b]) : t.table[b][y].key = k
        BY <3>2 DEF NotBefore
      <4>2. y <= y
        OBVIOUS
      <4>3. NotBefore(t.table[b], k, k)
        BY <4>1, <4>2 DEF NotBefore
      <4> QED
        BY <3>2, <4>3
    <3> QED
      BY <1>2, <3>1, <3>2 DEF Later
  <2> QED
    BY <1>1, <2>1, KeysAre
<1>3. CASE k \notin Later(t, b, n)
  <2>1. k \in KeysOf(dd.ht[1])
    BY <1>3 DEF Ahead
  <2> QED
    BY <2>1 DEF HeldKeys
<1> QED
  BY <1>2, <1>3

LEMMA CleanHeld ==
    ASSUME NEW dd, DictFine(dd), NEW it, it.table \in {0, 1}, it.next \in Keys \cup {Missing},
           NEW w, Clean(it, dd, w)
    PROVE  /\ it.owed \/ it.given => w \in HeldKeys(dd)
           /\ it.next # Missing => it.next \in HeldKeys(dd)
<1>1. it.owed \/ it.given => w \in HeldKeys(dd)
  BY AheadHeld DEF Clean
<1>2. ASSUME it.next # Missing PROVE it.next \in HeldKeys(dd)
  <2> DEFINE t == dd.ht[it.table]
             b == it.index
             n == it.next
  <2>1. t \in Table /\ KeysOf(t) \subseteq HeldKeys(dd)
    BY TablesFine DEF HeldKeys
  <2>2. b \in 0..t.size - 1 /\ NotBefore(t.table[b], n, n)
    BY <1>2 DEF Clean
  <2> HIDE DEF t, b, n
  <2>3. n \in HeldKeys(dd)
    BY <2>1, <2>2, KeysAre
  <2> QED
    BY <2>3 DEF n
<1> QED
  BY <1>1, <1>2

-----------------------------------------------------------------------------
(* Fingerprints.                                                           *)

Prints == [{0, 1} -> Nat \X Nat]

\* No removal, so that the entries only become more; while they do not: some were moved,
\* a larger table was allocated, or it has taken the place of the first.
Advanced(f, g) ==
    \/ f[1][1] # 0 /\ g[0][1] = f[0][1] /\ g[1][1] = f[1][1] /\ g[0][2] < f[0][2]
    \/ f[1][1] = 0 /\ g[0][1] = f[0][1] /\ g[1][1] > g[0][1]
    \/ /\ g[1][1] = 0 \/ g[1][1] > g[0][1]
       /\ g[0][1] >= (IF f[1][1] = 0 THEN f[0][1] + 1 ELSE f[1][1])
InAll(f) == f[0][2] + f[1][2]
Changed(f, g) == InAll(g) > InAll(f) \/ (InAll(g) = InAll(f) /\ Advanced(f, g))

\* What one step of a call may do to the counters.
Moves(f, g) == /\ InAll(g) = InAll(f) /\ f[1][1] # 0
               /\ g[0][1] = f[0][1] /\ g[1][1] = f[1][1] /\ g[0][2] < f[0][2]
Turns(f, g) == InAll(g) = InAll(f) /\ f[1][1] # 0 /\ g[0][1] = f[1][1] /\ g[1][1] = 0
Widens(f, g) == InAll(g) = InAll(f) /\ f[1][1] = 0 /\ g[0][1] = f[0][1] /\ g[1][1] > g[0][1]
Starts(f, g) == InAll(g) = InAll(f) /\ f[1][1] = 0 /\ f[0][1] = 0 /\ g[0][1] > 0 /\ g[1][1] = 0
Shifts(f, g) == InAll(g) > InAll(f) \/ Moves(f, g) \/ Turns(f, g) \/ Widens(f, g) \/ Starts(f, g)

LEMMA PrintType ==
    ASSUME NEW f \in Prints
    PROVE  f[0][1] \in Nat /\ f[0][2] \in Nat /\ f[1][1] \in Nat /\ f[1][2] \in Nat /\ InAll(f) \in Nat
BY DEF Prints, InAll

\* A change is seen.
LEMMA ChangeSeen ==
    ASSUME NEW f \in Prints
    PROVE  ~Changed(f, f)
BY PrintType DEF Changed, Advanced

\* No later step brings the counters back.
LEMMA ChangeLasts ==
    ASSUME NEW f \in Prints, NEW g \in Prints, NEW h \in Prints, Changed(f, g) \/ f = g, Shifts(g, h)
    PROVE  Changed(f, h)
<1> DEFINE a == f[0][1]
           b == f[0][2]
           c == f[1][1]
           l == g[0][1]
           m == g[0][2]
           n == g[1][1]
           x == h[0][1]
           y == h[0][2]
           z == h[1][1]
<1>1. /\ a \in Nat /\ b \in Nat /\ c \in Nat /\ l \in Nat /\ m \in Nat /\ n \in Nat
      /\ x \in Nat /\ y \in Nat /\ z \in Nat /\ InAll(f) \in Nat /\ InAll(g) \in Nat /\ InAll(h) \in Nat
  BY PrintType
<1>2. f = g => a = l /\ b = m /\ c = n /\ InAll(f) = InAll(g)
  OBVIOUS
<1>3. Advanced(f, g) <=>
        \/ c # 0 /\ l = a /\ n = c /\ m < b
        \/ c = 0 /\ l = a /\ n > l
        \/ (n = 0 \/ n > l) /\ l >= (IF c = 0 THEN a + 1 ELSE c)
  BY DEF Advanced
<1>4. Advanced(f, h) <=>
        \/ c # 0 /\ x = a /\ z = c /\ y < b
        \/ c = 0 /\ x = a /\ z > x
        \/ (z = 0 \/ z > x) /\ x >= (IF c = 0 THEN a + 1 ELSE c)
  BY DEF Advanced
<1>5. Shifts(g, h) <=>
        \/ InAll(h) > InAll(g)
        \/ InAll(h) = InAll(g) /\ \/ n # 0 /\ x = l /\ z = n /\ y < m
                                  \/ n # 0 /\ x = n /\ z = 0
                                  \/ n = 0 /\ x = l /\ z > x
                                  \/ n = 0 /\ l = 0 /\ x > 0 /\ z = 0
  BY DEF Shifts, Moves, Turns, Widens, Starts
<1> HIDE DEF a, b, c, l, m, n, x, y, z
<1>6. CASE InAll(h) > InAll(f)
  BY <1>6 DEF Changed
<1>7. CASE ~(InAll(h) > InAll(f))
  <2>1. InAll(g) >= InAll(f) /\ InAll(h) >= InAll(g)
    BY <1>1, <1>2, <1>5 DEF Changed
  <2>2. InAll(h) = InAll(f) /\ InAll(h) = InAll(g)
    BY <1>1, <1>7, <2>1
  <2>3. Advanced(f, g) \/ f = g
    BY <1>1, <2>2 DEF Changed
  <2>4. \/ n # 0 /\ x = l /\ z = n /\ y < m
        \/ n # 0 /\ x = n /\ z = 0
        \/ n = 0 /\ x = l /\ z > x
        \/ n = 0 /\ l = 0 /\ x > 0 /\ z = 0
    BY <1>1, <1>5, <2>2
  <2>5. Advanced(f, h)
    <3>1. CASE f = g
      BY <1>1, <1>2, <1>4, <2>4, <3>1
    <3>2. CASE Advanced(f, g)
      BY <1>1, <1>3, <1>4, <2>4, <3>2
    <3> QED
      BY <2>3, <3>1, <3>2
  <2> QED
    BY <2>2, <2>5 DEF Changed
<1> QED
  BY <1>6, <1>7

\* The fingerprint of a dictionary.
LEMMA PrintOf ==
    ASSUME NEW dd, DictFine(dd)
    PROVE  LET f == Fingerprint(dd)
           IN  /\ f \in Prints
               /\ f[0][1] = dd.ht[0].size /\ f[0][2] = dd.ht[0].used
               /\ f[1][1] = dd.ht[1].size /\ f[1][2] = dd.ht[1].used
               /\ InAll(f) = dd.ht[0].used + dd.ht[1].used
<1> DEFINE f == Fingerprint(dd)
<1>1. \A i \in {0, 1} : dd.ht[i].size \in Nat /\ dd.ht[i].used \in Nat
  BY TablesFine, TableType
<1>2. f = [i \in {0, 1} |-> <<dd.ht[i].size, dd.ht[i].used>>]
  BY DEF Fingerprint
<1> HIDE DEF f
<1>3. f \in Prints
  BY <1>1, <1>2 DEF Prints
<1>4. /\ f[0][1] = dd.ht[0].size /\ f[0][2] = dd.ht[0].used
      /\ f[1][1] = dd.ht[1].size /\ f[1][2] = dd.ht[1].used
  BY <1>2
<1>5. InAll(f) = dd.ht[0].used + dd.ht[1].used
  BY <1>4 DEF InAll
<1> QED
  BY <1>3, <1>4, <1>5 DEF f

LEMMA PrintSame ==
    ASSUME NEW dd, NEW x, x.ht = dd.ht
    PROVE  Fingerprint(x) = Fingerprint(dd)
BY DEF Fingerprint

\* The counters count all entries.
LEMMA AllCounted ==
    ASSUME NEW dd, DictFine(dd)
    PROVE  /\ IsFiniteSet(Content(dd)) /\ Cardinality(Content(dd)) \in Nat
           /\ InAll(Fingerprint(dd)) = Cardinality(Content(dd))
<1> DEFINE g == Chained(dd.ht[0])
           h == Chained(dd.ht[1])
<1>1. /\ IsFiniteSet(g) /\ dd.ht[0].used = Cardinality(g)
      /\ IsFiniteSet(h) /\ dd.ht[1].used = Cardinality(h)
  BY DEF DictFine, TableFine
<1>2. g \cap h = {}
  BY DEF DictFine, KeysOf
<1>3. Content(dd) = g \cup h
  BY DEF Content
<1> HIDE DEF g, h
<1>4. IsFiniteSet(g \cup h) /\ g \cap h = {} /\ IsFiniteSet({}) /\ Cardinality({}) = 0
  BY <1>1, <1>2, FS_Union, FS_EmptySet
<1>5. Cardinality(g \cup h) = Cardinality(g) + Cardinality(h) - Cardinality(g \cap h)
  BY <1>1, FS_Union
<1>6. Cardinality(g) \in Nat /\ Cardinality(h) \in Nat
  BY <1>1, FS_CardinalityType
<1>7. Cardinality(g \cup h) = Cardinality(g) + Cardinality(h)
  <2>1. Cardinality(g \cap h) = 0
    BY <1>4
  <2> DEFINE u == Cardinality(g)
             v == Cardinality(h)
             o == Cardinality(g \cap h)
  <2>2. Cardinality(g \cup h) = u + v - o /\ u \in Nat /\ v \in Nat /\ o = 0
    BY <1>5, <1>6, <2>1
  <2> HIDE DEF u, v, o
  <2>3. Cardinality(g \cup h) = u + v
    BY <2>2
  <2> QED
    BY <2>3 DEF u, v
<1>8. InAll(Fingerprint(dd)) = dd.ht[0].used + dd.ht[1].used
  BY PrintOf
<1> QED
  BY <1>1, <1>3, <1>4, <1>6, <1>7, <1>8

LEMMA LikeCounted ==
    ASSUME NEW dd, DictFine(dd), NEW x, Like(dd, x)
    PROVE  InAll(Fingerprint(x)) = InAll(Fingerprint(dd))
BY AllCounted DEF Like

-----------------------------------------------------------------------------
(* What a step does to the tables.                                         *)

\* A bucket that has a chain is moved: the first table has fewer entries.
LEMMA MoveBucketCounts ==
    ASSUME NEW dd, DictFine(dd), dictIsRehashing(dd), NEW b \in 0..dd.ht[0].size - 1,
           dd.ht[0].table[b] # <<>>
    PROVE  LET x == MoveBucket(dd, b)
           IN  /\ x.ht[0].size = dd.ht[0].size /\ x.ht[1].size = dd.ht[1].size
               /\ x.ht[0].used < dd.ht[0].used
<1> DEFINE s == dd.ht[0]
           t == dd.ht[1]
           c == s.table[b]
           g == Emptied(s, b)
           h == PushAll(t, c)
           x == MoveBucket(dd, b)
<1>1. /\ dd \in Dicts /\ TableFine(s) /\ TableFine(t) /\ KeysOf(s) \cap KeysOf(t) = {}
      /\ s.size # 0 /\ t.size # 0
  BY DEF DictFine
<1>2. s \in Table /\ s.size \in Nat /\ s.used \in Nat /\ s.table \in [0..s.size - 1 -> Seq(Entries)]
  BY <1>1, TableType DEF TableFine
<1>3. c \in Seq(Entries) /\ ChainFine(c, s.size, b) /\ ToSet(c) \subseteq Chained(s)
  BY <1>1, <1>2, OfBucket DEF TableFine
<1>4. g.size = s.size /\ g.used = s.used - Len(c) /\ g \in Table
  <2> DEFINE u == s.used - Len(c)
  <2>1. g = [[s EXCEPT !.table[b] = <<>>] EXCEPT !.used = u]
    BY DEF Emptied
  <2>2. s \in Table /\ b \in 0..s.size - 1 /\ TableFine(s)
    BY <1>1, <1>2
  <2>3. TableFine(g)
    <3> HIDE DEF s
    <3> QED
      BY <2>2, EmptiedFine
  <2> HIDE DEF s, c, u
  <2>4. [[s EXCEPT !.table[b] = <<>>] EXCEPT !.used = u].size = s.size
    BY <2>2, BothSet
  <2>5. [[s EXCEPT !.table[b] = <<>>] EXCEPT !.used = u].used = u
    BY <2>2, BothSet
  <2> HIDE DEF g
  <2> QED
    BY <2>1, <2>3, <2>4, <2>5 DEF TableFine, u
<1>5. TableFine(h) /\ h.size = t.size
  <2>1. \A e \in ToSet(c) : e.key \notin KeysOf(t)
    BY <1>1, <1>3 DEF KeysOf
  <2> HIDE DEF s, t, c
  <2> QED
    BY <1>1, <1>3, <2>1, PushAllFine
<1>6. With(dd, g, h, b + 1, x)
  <2>1. x = [dd EXCEPT !.ht[0] = g, !.ht[1] = h, !.rehashidx = b + 1]
    BY <1>1, DictType DEF MoveBucket
  <2>2. g \in Table /\ h \in Table /\ b + 1 \in Int
    BY <1>4, <1>5 DEF TableFine
  <2> HIDE DEF g, h, x
  <2> QED
    BY <1>1, <2>1, <2>2, DictSet
<1>7. Len(c) \in Nat /\ Len(c) # 0
  <2>1. c # <<>>
    OBVIOUS
  <2> HIDE DEF c
  <2> QED
    BY <1>3, <2>1, EmptySeq
<1> HIDE DEF g, h, x, s, t, c
<1>8. /\ x.ht[0].size = s.size /\ x.ht[1].size = t.size /\ x.ht[0].used < s.used
  BY <1>2, <1>4, <1>5, <1>6, <1>7 DEF With
<1> QED
  BY <1>8 DEF x, s, t

LEMMA StoppedIs ==
    ASSUME NEW st, st = [d |-> st.d, visits |-> st.visits, stop |-> st.stop], st.d \in Dicts
    PROVE  LET z == [st EXCEPT !.d.rehashidx = @ + st.visits, !.stop = TRUE]
           IN  z.d.ht = st.d.ht /\ z.stop = TRUE
<1> DEFINE x == st.d
           y == [x EXCEPT !.rehashidx = x.rehashidx + st.visits]
           w == [st EXCEPT !.d.rehashidx = @ + st.visits]
           z == [st EXCEPT !.d.rehashidx = @ + st.visits, !.stop = TRUE]
<1>1. w = [d |-> y, visits |-> st.visits, stop |-> st.stop]
  OBVIOUS
<1>2. z = [w EXCEPT !.stop = TRUE]
  OBVIOUS
<1>3. y.ht = st.d.ht
  BY DEF Dicts
<1> HIDE DEF w, z, y
<1>4. z = [d |-> y, visits |-> st.visits, stop |-> TRUE]
  BY <1>1, <1>2
<1>5. z.d = y /\ z.stop = TRUE
  BY <1>4
<1> QED
  BY <1>3, <1>5 DEF z

\* One step of the loop visits empty buckets, or moves one that is not.
LEMMA RehashBucketKinds ==
    ASSUME NEW dd, DictFine(dd), dictIsRehashing(dd), NEW v \in Nat \ {0}
    PROVE  LET st == [d |-> dd, visits |-> v, stop |-> FALSE]
               r == RehashBucket(st)
           IN  \/ r = st /\ dd.ht[0].used = 0
               \/ r.d.ht = dd.ht /\ r.stop = TRUE
               \/ /\ r.d.ht[0].size = dd.ht[0].size /\ r.d.ht[1].size = dd.ht[1].size
                  /\ r.d.ht[0].used < dd.ht[0].used
<1> DEFINE t == dd.ht[0]
           full == {i \in dd.rehashidx..t.size - 1 : t.table[i] # <<>>}
           m == Min(full)
           empty == m - dd.rehashidx
           st == [d |-> dd, visits |-> v, stop |-> FALSE]
           r == RehashBucket(st)
<1>1. dd \in Dicts /\ st.d = dd /\ st.visits = v /\ st.stop = FALSE
  BY DEF DictFine
<1>2. /\ TableFine(t) /\ t.size \in Nat /\ dd.rehashidx \in 0..t.size
      /\ \A b \in 0..dd.rehashidx - 1 : t.table[b] = <<>>
  BY <1>1, TableType DEF DictFine, TableFine, dictIsRehashing
<1>3. CASE t.used = 0
  <2>1. r = st
    BY <1>1, <1>3 DEF RehashBucket
  <2> QED
    BY <1>3, <2>1
<1>4. CASE t.used # 0
  <2>1. full # {} /\ full \in SUBSET Nat
    <3>1. \E b \in 0..t.size - 1 : t.table[b] # <<>>
      BY <1>2, <1>4, NothingChained
    <3>2. PICK b \in 0..t.size - 1 : t.table[b] # <<>>
      BY <3>1
    <3>3. b \in dd.rehashidx..t.size - 1
      BY <1>2, <3>2
    <3>4. b \in full
      BY <3>2, <3>3
    <3> QED
      BY <1>2, <3>4
  <2>2. m \in full
    <3> HIDE DEF full
    <3> QED
      BY <2>1, LeastOf
  <2>3. m \in 0..t.size - 1 /\ t.table[m] # <<>>
    BY <1>2, <2>2
  <2>4. r = IF empty >= v
              THEN [st EXCEPT !.d.rehashidx = @ + v, !.stop = TRUE]
              ELSE [st EXCEPT !.d = MoveBucket(dd, m), !.visits = @ - empty]
    BY <1>1, <1>4 DEF RehashBucket
  <2> HIDE DEF full, m
  <2>5. CASE empty >= v
    <3> DEFINE z == [st EXCEPT !.d.rehashidx = @ + st.visits, !.stop = TRUE]
    <3>1. st = [d |-> st.d, visits |-> st.visits, stop |-> st.stop]
      OBVIOUS
    <3>2. r = z
      BY <1>1, <2>4, <2>5
    <3> HIDE DEF st
    <3>3. z.d.ht = dd.ht /\ z.stop = TRUE
      BY <1>1, <3>1, StoppedIs
    <3> HIDE DEF z, r
    <3>4. r.d.ht = dd.ht /\ r.stop = TRUE
      BY <3>2, <3>3
    <3> QED
      BY <3>4 DEF r, st
  <2>6. CASE ~(empty >= v)
    <3> DEFINE y == MoveBucket(dd, m)
               w == v - empty
               z == [d |-> y, visits |-> w, stop |-> FALSE]
    <3>1. r = z
      <4>1. r = [[st EXCEPT !.d = y] EXCEPT !.visits = w]
        BY <2>4, <2>6
      <4> HIDE DEF y, w, r
      <4> QED
        BY <4>1
    <3>2. /\ y.ht[0].size = dd.ht[0].size /\ y.ht[1].size = dd.ht[1].size
          /\ y.ht[0].used < dd.ht[0].used
      BY <2>3, MoveBucketCounts
    <3> HIDE DEF y, r
    <3> QED
      BY <3>1, <3>2 DEF r
  <2> QED
    BY <2>5, <2>6
<1> QED
  BY <1>3, <1>4

\* _dictRehashStep leaves the tables alone, moves a bucket, or ends the rehashing.
LEMMA RehashStepKinds ==
    ASSUME NEW dd, DictFine(dd)
    PROVE  LET x == RehashStep(dd)
           IN  \/ x.ht = dd.ht
               \/ /\ dictIsRehashing(dd) /\ x.ht[0].size = dd.ht[0].size
                  /\ x.ht[1].size = dd.ht[1].size /\ x.ht[0].used < dd.ht[0].used
               \/ dictIsRehashing(dd) /\ x.ht[0].size = dd.ht[1].size /\ x.ht[1].size = 0
<1> DEFINE v == 1 * EmptyVisits
           st0 == [d |-> dd, visits |-> v, stop |-> FALSE]
           Rounds(f) == f = [i \in 0..1 |-> IF i = 0 THEN st0 ELSE RehashBucket(f[i - 1])]
           st == CHOOSE f : Rounds(f)
           y == st[1].d
           last == [y EXCEPT !.ht[0] = y.ht[1], !.ht[1] = NewTable(0), !.rehashidx = -1]
           x == RehashStep(dd)
<1>1. CASE dd.iterators # 0 \/ ~dictIsRehashing(dd)
  <2>1. x = dd
    BY <1>1 DEF RehashStep, dictRehash
  <2> QED
    BY <2>1
<1>2. CASE dd.iterators = 0 /\ dictIsRehashing(dd)
  <2>1. \E f : Rounds(f)
    <3> DEFINE f == [i \in 0..1 |-> IF i = 0 THEN st0 ELSE RehashBucket(st0)]
    <3> HIDE DEF st0
    <3>1. f[0] = st0
      OBVIOUS
    <3>2. f = [i \in 0..1 |-> IF i = 0 THEN st0 ELSE RehashBucket(f[i - 1])]
      <4>1. ASSUME NEW i \in 0..1 PROVE f[i] = IF i = 0 THEN st0 ELSE RehashBucket(f[i - 1])
        <5>1. i = 0 \/ (i = 1 /\ i - 1 = 0)
          OBVIOUS
        <5> QED
          BY <3>1, <5>1
      <4>2. f = [i \in 0..1 |-> f[i]]
        OBVIOUS
      <4> HIDE DEF f
      <4> QED
        BY <4>1, <4>2
    <3>3. Rounds(f)
      BY <3>2
    <3> QED
      BY <3>3
  <2>2. st = [i \in 0..1 |-> IF i = 0 THEN st0 ELSE RehashBucket(st[i - 1])]
    <3> HIDE DEF Rounds
    <3>1. Rounds(st)
      BY <2>1
    <3> QED
      BY <3>1 DEF Rounds
  <2>3. x = IF st[1].stop \/ y.ht[0].used # 0 THEN y ELSE last
    BY <1>2 DEF RehashStep, dictRehash
  <2> HIDE DEF st, x
  <2>4. st[1] = RehashBucket(st0)
    <3>1. 0 \in 0..1 /\ 1 \in 0..1 /\ 1 - 1 = 0
      OBVIOUS
    <3> HIDE DEF st0
    <3>2. st[0] = st0
      BY <2>2, <3>1
    <3> QED
      BY <2>2, <3>1, <3>2
  <2>5. v \in Nat \ {0}
    BY SizeAssumption
  <2> DEFINE r == RehashBucket(st0)
  <2>6. \/ r = st0 /\ dd.ht[0].used = 0
        \/ r.d.ht = dd.ht /\ r.stop = TRUE
        \/ /\ r.d.ht[0].size = dd.ht[0].size /\ r.d.ht[1].size = dd.ht[1].size
           /\ r.d.ht[0].used < dd.ht[0].used
    <3> HIDE DEF v
    <3> QED
      BY <1>2, <2>5, RehashBucketKinds
  <2>7. r = st[1] /\ st0.d = dd
    BY <2>4
  <2>8. st[1].d.ht[1].size = dd.ht[1].size
    <3> HIDE DEF r, st0
    <3> QED
      BY <2>6, <2>7
  <2>9. y \in Dicts
    <3>1. Working(dd, st0)
      <4>1. dd \in Dicts
        BY DEF DictFine
      <4>2. st0 \in Works
        BY <2>5, <4>1 DEF Works
      <4> QED
        BY <1>2, <4>2, LikeSelf DEF Working
    <3> HIDE DEF st0
    <3>2. Working(dd, st[1])
      BY <2>4, <3>1, RehashBucketFine
    <3> QED
      BY <3>2 DEF Working, Works
  <2>10. last.ht[0] = y.ht[1] /\ last.ht[1].size = 0
    <3> DEFINE e == NewTable(0)
               t == y.ht[1]
    <3>1. e \in Table /\ e.size = 0 /\ t \in Table /\ -1 \in Int
      BY <2>9, DictType, NewTableFine DEF TableFine
    <3>2. last = [y EXCEPT !.ht[0] = t, !.ht[1] = e, !.rehashidx = -1]
      OBVIOUS
    <3> HIDE DEF e, t, y, last
    <3>3. With(y, t, e, -1, [y EXCEPT !.ht[0] = t, !.ht[1] = e, !.rehashidx = -1])
      BY <2>9, <3>1, DictSet
    <3>4. last.ht[0] = t /\ last.ht[1] = e
      BY <3>2, <3>3 DEF With
    <3> QED
      BY <3>1, <3>4 DEF t
  <2> HIDE DEF last, r, st0
  <2>11. CASE st[1].stop
    <3>1. x = y
      BY <2>3, <2>11
    <3>2. \/ y.ht = dd.ht
          \/ y.ht[0].size = dd.ht[0].size /\ y.ht[1].size = dd.ht[1].size /\ y.ht[0].used < dd.ht[0].used
      <4>1. CASE r = st0
        BY <2>7, <4>1
      <4>2. CASE r # st0
        BY <2>6, <2>7, <4>2
      <4> QED
        BY <4>1, <4>2
    <3> HIDE DEF y
    <3> QED
      BY <1>2, <3>1, <3>2 DEF x
  <2>12. CASE ~st[1].stop /\ y.ht[0].used # 0
    <3>1. x = y
      BY <2>3, <2>12
    <3>2. r.stop # TRUE
      BY <2>7, <2>12
    <3>3. ~(r = st0 /\ dd.ht[0].used = 0)
      BY <2>7, <2>12
    <3>4. y.ht[0].size = dd.ht[0].size /\ y.ht[1].size = dd.ht[1].size /\ y.ht[0].used < dd.ht[0].used
      BY <2>6, <2>7, <3>2, <3>3
    <3> HIDE DEF y
    <3> QED
      BY <1>2, <3>1, <3>4 DEF x
  <2>13. CASE ~st[1].stop /\ y.ht[0].used = 0
    <3>1. x = last
      BY <2>3, <2>13
    <3>2. y.ht[1].size = dd.ht[1].size
      BY <2>8
    <3> HIDE DEF y
    <3> QED
      BY <1>2, <2>10, <3>1, <3>2 DEF x
  <2> HIDE DEF y
  <2> QED
    BY <2>11, <2>12, <2>13
<1> QED
  BY <1>1, <1>2

\* The power found is large enough.
LEMMA NextPowerEnough ==
    ASSUME NEW n \in Nat
    PROVE  NextPower(n) \in Nat /\ NextPower(n) >= n
<1> DEFINE p == CHOOSE f : Doubling(f, n)
<1>1. Doubling(p, n)
  BY DoublingExists
<1>2. NextPower(n) = p[InitialSize]
  BY DEF NextPower, Doubling
<1> HIDE DEF p
<1>3. \A i \in Nat : p[i] = IF i >= n THEN i ELSE p[i * 2]
  BY <1>1 DEF Doubling
<1> DEFINE S == {k \in Nat : \A i \in Nat \ {0} : i + k >= n => p[i] \in Nat /\ p[i] >= n}
<1>4. 0 \in S
  BY <1>3
<1>5. ASSUME NEW k \in S PROVE k + 1 \in S
  <2> SUFFICES ASSUME NEW i \in Nat \ {0}, i + (k + 1) >= n PROVE p[i] \in Nat /\ p[i] >= n
    OBVIOUS
  <2>1. CASE i >= n
    BY <1>3, <2>1
  <2>2. CASE ~(i >= n)
    <3>1. i * 2 \in Nat \ {0} /\ i * 2 + k >= n
      OBVIOUS
    <3>2. p[i * 2] \in Nat /\ p[i * 2] >= n
      BY <3>1
    <3> QED
      BY <1>3, <2>2, <3>2
  <2> QED
    BY <2>1, <2>2
<1>6. S = Nat
  <2> HIDE DEF S
  <2>1. S \in SUBSET Nat
    BY DEF S
  <2> QED
    BY <1>4, <1>5, <2>1, SetInduction
<1>7. InitialSize \in Nat \ {0}
  BY SizeAssumption
<1>8. n \in S /\ InitialSize + n >= n
  BY <1>6, <1>7
<1> QED
  BY <1>2, <1>7, <1>8

\* dictExpand refuses, or allocates one of the tables.
LEMMA ExpandKinds ==
    ASSUME NEW dd, DictFine(dd), NEW n \in Nat
    PROVE  LET x == dictExpand(dd, n)
               e == NewTable(NextPower(n))
           IN  \/ x = dd
               \/ /\ CanExpand(dd, n) /\ dd.ht[0].size # 0 /\ dd.ht[1].size = 0
                  /\ x.ht[0] = dd.ht[0] /\ x.ht[1] = e
               \/ /\ CanExpand(dd, n) /\ dd.ht[0].size = 0 /\ dd.ht[1].size = 0
                  /\ x.ht[0] = e /\ x.ht[1] = dd.ht[1]
<1> DEFINE x == dictExpand(dd, n)
           e == NewTable(NextPower(n))
           s == dd.ht[0]
           t == dd.ht[1]
<1>1. dd \in Dicts /\ s \in Table /\ t \in Table
  BY DEF DictFine, TableFine
<1>2. e \in Table
  BY NextPowerEnough, NewTableFine DEF TableFine
<1>3. CASE ~CanExpand(dd, n)
  BY <1>3 DEF dictExpand
<1>4. CASE CanExpand(dd, n)
  <2>1. t.size = 0
    BY <1>4 DEF CanExpand, DictFine
  <2>2. CASE s.size = 0
    <3>1. x = [dd EXCEPT !.ht[0] = e]
      BY <1>4, <2>2 DEF dictExpand
    <3>2. With(dd, e, t, dd.rehashidx, x)
      <4> HIDE DEF e, x, t
      <4>1. With(dd, e, t, dd.rehashidx, [dd EXCEPT !.ht[0] = e])
        BY <1>1, <1>2, DictFirst DEF t
      <4> QED
        BY <3>1, <4>1
    <3>3. x.ht[0] = e /\ x.ht[1] = t
      BY <3>2 DEF With
    <3> QED
      BY <1>4, <2>1, <2>2, <3>3
  <2>3. CASE s.size # 0
    <3>1. x = [dd EXCEPT !.ht[1] = e, !.rehashidx = 0]
      BY <1>4, <2>3 DEF dictExpand
    <3> DEFINE y == [dd EXCEPT !.ht[1] = e]
    <3>2. With(dd, s, e, dd.rehashidx, y)
      <4> HIDE DEF e
      <4> QED
        BY <1>1, <1>2, DictSecond
    <3>3. x = [y EXCEPT !.rehashidx = 0]
      BY <3>1
    <3> HIDE DEF y, x, e
    <3>4. With(y, y.ht[0], y.ht[1], 0, [y EXCEPT !.rehashidx = 0])
      BY <3>2, DictPlace DEF With
    <3>5. x.ht[0] = s /\ x.ht[1] = e
      BY <3>2, <3>3, <3>4 DEF With
    <3> QED
      BY <1>4, <2>1, <2>3, <3>5 DEF x, e
  <2> QED
    BY <2>2, <2>3
<1> QED
  BY <1>3, <1>4

-----------------------------------------------------------------------------
(* The course of an iteration.                                             *)

\* Nothing was handed out twice; at the end nothing is owed.
Upright(it, dd, w) == ~it.twice /\ (IF it.done THEN ~it.owed ELSE Clean(it, dd, w))

\* Under a safe iterator nothing is moved.  For another one, what was changed shows in
\* the fingerprint.
OnCourse(it, dd, w) ==
    IF it.safe THEN dd.iterators # 0 /\ Upright(it, dd, w)
    ELSE /\ it.fingerprint \in Prints
         /\ \/ Changed(it.fingerprint, Fingerprint(dd))
            \/ it.fingerprint = Fingerprint(dd) /\ Upright(it, dd, w)

OnWay(it, dd, w) ==
    /\ DictFine(dd) /\ it.table \in {0, 1} /\ it.next \in Keys \cup {Missing} /\ w \in Keys
    /\ OnCourse(it, dd, w)

LEMMA CourseShift ==
    ASSUME NEW it, ~it.safe, NEW dd, NEW w, OnWay(it, dd, w), NEW x, DictFine(x),
           Shifts(Fingerprint(dd), Fingerprint(x))
    PROVE  OnWay(it, x, w)
<1> DEFINE f == it.fingerprint
           g == Fingerprint(dd)
           h == Fingerprint(x)
<1>1. f \in Prints /\ g \in Prints /\ h \in Prints
  BY PrintOf DEF OnWay, OnCourse
<1>2. Changed(f, g) \/ f = g
  BY DEF OnWay, OnCourse
<1> HIDE DEF f, g, h
<1>3. Changed(f, h)
  BY <1>1, <1>2, ChangeLasts DEF g, h
<1> QED
  BY <1>1, <1>3 DEF OnWay, OnCourse, f, h

LEMMA CourseSame ==
    ASSUME NEW it, NEW dd, NEW w, OnWay(it, dd, w), NEW x, DictFine(x),
           Fingerprint(x) = Fingerprint(dd), x.iterators = dd.iterators,
           Clean(it, dd, w) => Clean(it, x, w)
    PROVE  OnWay(it, x, w)
BY DEF OnWay, OnCourse, Upright

LEMMA CourseSafe ==
    ASSUME NEW it, it.safe, NEW dd, NEW w, OnWay(it, dd, w), NEW x, DictFine(x),
           x.iterators = dd.iterators, Clean(it, dd, w) => Clean(it, x, w)
    PROVE  OnWay(it, x, w)
BY DEF OnWay, OnCourse, Upright

LEMMA CleanSame ==
    ASSUME NEW dd, NEW x, x.ht = dd.ht, NEW it, NEW w, Clean(it, dd, w)
    PROVE  Clean(it, x, w)
BY DEF Clean, Ahead, HeldKeys

\* A step of rehashing.
LEMMA CourseRehash ==
    ASSUME NEW it, NEW dd, NEW w, OnWay(it, dd, w)
    PROVE  OnWay(it, RehashStep(dd), w)
<1> DEFINE x == RehashStep(dd)
           f == Fingerprint(dd)
           g == Fingerprint(x)
<1>1. DictFine(dd) /\ Like(dd, x) /\ DictFine(x) /\ x.iterators = dd.iterators
  <2>1. DictFine(dd)
    BY DEF OnWay
  <2>2. Like(dd, x)
    BY <2>1, RehashStepFine
  <2> QED
    BY <2>1, <2>2 DEF Like
<1>2. CASE it.safe
  <2>1. dd.iterators # 0
    BY <1>2 DEF OnWay, OnCourse
  <2>2. x = dd
    BY <2>1 DEF RehashStep
  <2> QED
    BY <2>2
<1>3. CASE ~it.safe /\ x.ht = dd.ht
  <2>1. Fingerprint(x) = Fingerprint(dd)
    BY <1>3, PrintSame
  <2>2. Clean(it, dd, w) => Clean(it, x, w)
    BY <1>3, CleanSame
  <2> HIDE DEF x
  <2>3. OnWay(it, x, w)
    BY <1>1, <2>1, <2>2, CourseSame
  <2> QED
    BY <2>3 DEF x
<1>4. CASE ~it.safe /\ x.ht # dd.ht
  <2>1. \/ /\ x.ht[0].size = dd.ht[0].size
           /\ x.ht[1].size = dd.ht[1].size /\ x.ht[0].used < dd.ht[0].used
        \/ x.ht[0].size = dd.ht[1].size /\ x.ht[1].size = 0
    BY <1>1, <1>4, RehashStepKinds
  <2>2. dd.ht[1].size # 0
    <3>1. dictIsRehashing(dd)
      BY <1>1, <1>4, RehashStepKinds
    <3> QED
      BY <1>1, <3>1 DEF DictFine
  <2> HIDE DEF x
  <2>3. /\ f[0][1] = dd.ht[0].size /\ f[0][2] = dd.ht[0].used /\ f[1][1] = dd.ht[1].size
        /\ g[0][1] = x.ht[0].size /\ g[0][2] = x.ht[0].used /\ g[1][1] = x.ht[1].size
    BY <1>1, PrintOf
  <2>4. InAll(g) = InAll(f)
    BY <1>1, LikeCounted
  <2> HIDE DEF f, g
  <2>5. Shifts(f, g)
    BY <2>1, <2>2, <2>3, <2>4 DEF Shifts, Moves, Turns
  <2>6. OnWay(it, x, w)
    BY <1>1, <1>4, <2>5, CourseShift DEF f, g
  <2> QED
    BY <2>6 DEF x
<1> QED
  BY <1>2, <1>3, <1>4

LEMMA CourseFind ==
    ASSUME NEW it, NEW dd, NEW w, OnWay(it, dd, w)
    PROVE  OnWay(it, Find(dd), w)
BY CourseRehash DEF Find

\* An empty table takes nothing from what is ahead.
LEMMA CleanExpanded ==
    ASSUME NEW dd, DictFine(dd), NEW x, NEW it, it.table \in {0, 1}, it.next \in Keys \cup {Missing},
           NEW w, Clean(it, dd, w), NEW m \in Nat, dd.ht[1].size = 0,
           \/ x.ht[0] = dd.ht[0] /\ x.ht[1] = NewTable(m)
           \/ dd.ht[0].size = 0 /\ x.ht[0] = NewTable(m) /\ x.ht[1] = dd.ht[1]
    PROVE  Clean(it, x, w)
<1>1. it.table = 0
  BY DEF Clean
<1>2. KeysOf(dd.ht[1]) = {} /\ KeysOf(NewTable(m)) = {}
  BY TablesFine, NothingChained, NewTableFine DEF KeysOf
<1>3. CASE x.ht[0] = dd.ht[0] /\ x.ht[1] = NewTable(m)
  <2> DEFINE e == NewTable(m)
  <2>1. KeysOf(e) = KeysOf(dd.ht[1]) /\ x.ht[1] = e
    BY <1>2, <1>3
  <2> HIDE DEF e
  <2>2. Ahead(it, x) = Ahead(it, dd) /\ HeldKeys(x) = HeldKeys(dd)
    BY <1>1, <1>3, <2>1 DEF Ahead, HeldKeys
  <2> QED
    BY <1>1, <1>3, <2>2 DEF Clean
<1>4. CASE dd.ht[0].size = 0
  <2>1. KeysOf(dd.ht[0]) = {}
    BY <1>4, TablesFine, NothingChained DEF KeysOf
  <2>2. HeldKeys(dd) = {}
    BY <1>2, <2>1 DEF HeldKeys
  <2>3. ~it.owed /\ ~it.given /\ it.next = Missing
    BY <2>2, CleanHeld
  <2> QED
    BY <1>1, <2>3 DEF Clean
<1> QED
  BY <1>3, <1>4

\* The table is widened before an entry is added.
LEMMA CourseExpand ==
    ASSUME NEW it, NEW dd, NEW w, OnWay(it, dd, w)
    PROVE  OnWay(it, ExpandIfNeeded(dd), w)
<1> DEFINE x == ExpandIfNeeded(dd)
           s == dd.ht[0]
           n == IF s.size = 0 THEN InitialSize ELSE s.used * 2
           m == NextPower(n)
           e == NewTable(m)
           f == Fingerprint(dd)
           g == Fingerprint(x)
<1>1. DictFine(dd) /\ Like(dd, x) /\ DictFine(x) /\ x.iterators = dd.iterators
  <2>1. DictFine(dd)
    BY DEF OnWay
  <2>2. Like(dd, x)
    BY <2>1, ExpandIfNeededFine
  <2> QED
    BY <2>1, <2>2 DEF Like
<1>2. s.size \in Nat /\ s.used \in Nat
  BY <1>1, TablesFine, TableType
<1>3. n \in Nat
  BY <1>2, SizeAssumption
<1>4. m \in Nat /\ m >= n
  BY <1>3, NextPowerEnough
<1>5. x = dd \/ (x = dictExpand(dd, n) /\ (s.size # 0 => s.used >= s.size))
  <2>1. CASE s.size = 0
    <3>1. n = InitialSize
      BY <2>1
    <3> HIDE DEF n
    <3>2. x = dd \/ x = dictExpand(dd, InitialSize)
      BY <2>1 DEF ExpandIfNeeded
    <3> HIDE DEF x
    <3> QED
      BY <2>1, <3>1, <3>2
  <2>2. CASE s.size # 0
    <3>1. n = s.used * 2
      BY <2>2
    <3> HIDE DEF n
    <3>2. x = dd \/ (x = dictExpand(dd, s.used * 2) /\ s.used >= s.size)
      BY <2>2 DEF ExpandIfNeeded
    <3> HIDE DEF x, s
    <3> QED
      BY <3>1, <3>2
  <2> QED
    BY <2>1, <2>2
<1>6. \/ x = dd
      \/ /\ s.size # 0 /\ s.used >= s.size /\ dd.ht[1].size = 0 /\ x.ht[0] = s /\ x.ht[1] = e
      \/ /\ m # s.size /\ s.size = 0 /\ dd.ht[1].size = 0 /\ x.ht[0] = e /\ x.ht[1] = dd.ht[1]
  <2> HIDE DEF x, n
  <2>1. CASE x = dictExpand(dd, n) /\ (s.size # 0 => s.used >= s.size)
    <3>1. \/ dictExpand(dd, n) = dd
          \/ /\ CanExpand(dd, n) /\ s.size # 0 /\ dd.ht[1].size = 0
             /\ dictExpand(dd, n).ht[0] = s /\ dictExpand(dd, n).ht[1] = e
          \/ /\ CanExpand(dd, n) /\ s.size = 0 /\ dd.ht[1].size = 0
             /\ dictExpand(dd, n).ht[0] = e /\ dictExpand(dd, n).ht[1] = dd.ht[1]
      BY <1>1, <1>3, ExpandKinds
    <3>2. CanExpand(dd, n) => m # s.size
      BY DEF CanExpand
    <3> HIDE DEF e, s, m
    <3> QED
      BY <2>1, <3>1, <3>2
  <2> QED
    BY <1>5, <2>1
<1>7. e.size = m
  BY <1>4, NewTableFine
<1> HIDE DEF x
<1>8. CASE x = dd
  BY <1>8 DEF x
<1>9. CASE x # dd /\ it.safe
  <2>1. \/ x.ht[0] = dd.ht[0] /\ x.ht[1] = NewTable(m)
        \/ dd.ht[0].size = 0 /\ x.ht[0] = NewTable(m) /\ x.ht[1] = dd.ht[1]
    BY <1>6, <1>9
  <2>2. dd.ht[1].size = 0
    BY <1>6, <1>9
  <2> HIDE DEF m
  <2>3. ASSUME Clean(it, dd, w) PROVE Clean(it, x, w)
    <3>1. it.table \in {0, 1} /\ it.next \in Keys \cup {Missing}
      BY DEF OnWay
    <3> QED
      BY <1>1, <1>4, <2>1, <2>2, <2>3, <3>1, CleanExpanded
  <2>4. OnWay(it, x, w)
    BY <1>1, <1>9, <2>3, CourseSafe
  <2> QED
    BY <2>4 DEF x
<1>10. CASE x # dd /\ ~it.safe
  <2>1. /\ f[0][1] = s.size /\ f[0][2] = s.used /\ f[1][1] = dd.ht[1].size
        /\ g[0][1] = x.ht[0].size /\ g[0][2] = x.ht[0].used /\ g[1][1] = x.ht[1].size
    BY <1>1, PrintOf
  <2>2. InAll(g) = InAll(f)
    BY <1>1, LikeCounted
  <2>3. CASE s.size # 0
    <3>1. s.used >= s.size /\ dd.ht[1].size = 0 /\ x.ht[0] = s /\ x.ht[1].size = m
      BY <1>6, <1>7, <1>10, <2>3
    <3>2. n = s.used * 2
      BY <2>3
    <3> HIDE DEF m, n, s, f, g
    <3>3. m > s.size
      BY <1>2, <1>4, <2>3, <3>1, <3>2
    <3>4. Shifts(f, g)
      BY <2>1, <2>2, <3>1, <3>3 DEF Shifts, Widens
    <3>5. OnWay(it, x, w)
      BY <1>1, <1>10, <3>4, CourseShift DEF f, g
    <3> QED
      BY <3>5 DEF x
  <2>4. CASE s.size = 0
    <3>1. m # 0 /\ dd.ht[1].size = 0 /\ x.ht[0].size = m /\ x.ht[1].size = 0
      BY <1>6, <1>7, <1>10, <2>4
    <3> HIDE DEF m, n, s, f, g
    <3>2. m > 0
      BY <1>4, <3>1
    <3>3. Shifts(f, g)
      BY <2>1, <2>2, <2>4, <3>1, <3>2 DEF Shifts, Starts
    <3>4. OnWay(it, x, w)
      BY <1>1, <1>10, <3>3, CourseShift DEF f, g
    <3> QED
      BY <3>4 DEF x
  <2> QED
    BY <2>3, <2>4
<1> QED
  BY <1>8, <1>9, <1>10

LEMMA OneSet ==
    ASSUME NEW dd \in Dicts, NEW i \in {0, 1}, NEW h
    PROVE  \A j \in {0, 1} : Replaced(dd, i, h).ht[j] = IF j = i THEN h ELSE dd.ht[j]
<1> DEFINE H == [dd.ht EXCEPT ![i] = h]
           x == Replaced(dd, i, h)
<1>1. DOMAIN dd.ht = {0, 1}
  BY DictType
<1>2. \A j \in {0, 1} : H[j] = IF j = i THEN h ELSE dd.ht[j]
  BY <1>1
<1>3. x = [dd EXCEPT !.ht = H]
  BY DEF Replaced
<1> HIDE DEF H, x
<1>4. x.ht = H
  BY <1>3, DictType
<1>5. \A j \in {0, 1} : x.ht[j] = IF j = i THEN h ELSE dd.ht[j]
  BY <1>2, <1>4
<1> QED
  BY <1>5 DEF x

\* One table in another order, but for the keys ks.
LEMMA OrdersSet ==
    ASSUME NEW dd, DictFine(dd), NEW i \in {0, 1}, NEW h, NEW ks, SameOrder(dd.ht[i], h, ks)
    PROVE  SameOrders(dd, Replaced(dd, i, h), ks)
<1> DEFINE x == Replaced(dd, i, h)
<1>0. x = Replaced(dd, i, h) /\ dd \in Dicts
  BY DEF DictFine
<1> HIDE DEF x
<1>1. \A j \in {0, 1} : x.ht[j] = IF j = i THEN h ELSE dd.ht[j]
  BY <1>0, OneSet
<1>2. ASSUME NEW j \in {0, 1} PROVE SameOrder(dd.ht[j], x.ht[j], ks)
  <2>1. CASE j = i
    BY <1>1, <2>1
  <2>2. CASE j # i
    <3>1. x.ht[j] = dd.ht[j]
      BY <1>1, <2>2
    <3> QED
      BY <3>1 DEF SameOrder
  <2> QED
    BY <2>1, <2>2
<1>3. SameOrders(dd, x, ks)
  BY <1>2 DEF SameOrders
<1> QED
  BY <1>3 DEF x

LEMMA HeldAre ==
    ASSUME NEW dd, NEW k
    PROVE  k \in HeldKeys(dd) <=> \E e \in Content(dd) : e.key = k
BY DEF HeldKeys, KeysOf, Content

LEMMA FollowsSelf ==
    ASSUME NEW it
    PROVE  Follower(it, it)
BY DEF Follower

\* A new entry.
LEMMA CoursePush ==
    ASSUME NEW it, NEW dd, NEW w, OnWay(it, dd, w), NEW k \in Keys, NEW v \in Vals, ~Has(dd, k),
           NEW i \in {0, 1}, dd.ht[i].size # 0,
           NEW x, x = [dd EXCEPT !.ht[i] = Push(dd.ht[i], [key |-> k, val |-> v])],
           DictFine(x), x.iterators = dd.iterators
    PROVE  OnWay(it, x, w)
<1> DEFINE e == [key |-> k, val |-> v]
           t == dd.ht[i]
           h == Push(t, e)
<1>1. DictFine(dd) /\ it.table \in {0, 1} /\ it.next \in Keys \cup {Missing} /\ w \in Keys
  BY DEF OnWay
<1>2. e \in Entries /\ e.key = k
  BY DEF Entries
<1>3. t \in Table
  BY <1>1, TablesFine
<1> HIDE DEF e
<1>4. SameOrder(t, h, {k}) /\ h.used = t.used + 1
  BY <1>2, <1>3, PushOrder
<1> HIDE DEF h
<1>5. SameOrders(dd, x, {k})
  <2>1. SameOrders(dd, Replaced(dd, i, h), {k})
    BY <1>1, <1>4, OrdersSet
  <2>2. x = Replaced(dd, i, h)
    BY DEF h, e, Replaced
  <2> QED
    BY <2>1, <2>2
<1>6. CASE it.safe
  <2>1. k \notin HeldKeys(dd)
    BY <1>1, HasRight, HeldAre
  <2>2. ASSUME Clean(it, dd, w) PROVE Clean(it, x, w)
    <3>1. it.next # k /\ (w = k => ~it.owed /\ ~it.given)
      <4>1. /\ it.owed \/ it.given => w \in HeldKeys(dd)
            /\ it.next # Missing => it.next \in HeldKeys(dd)
        BY <1>1, <2>2, CleanHeld
      <4>2. k # Missing
        BY HashAssumption
      <4> QED
        BY <2>1, <4>1, <4>2
    <3>2. it.next \in (Keys \cup {Missing}) \ {k} /\ (w \in {k} => ~it.owed /\ ~it.given)
      BY <1>1, <3>1
    <3> QED
      BY <1>1, <1>5, <2>2, <3>2, FollowsSelf, CleanKept
  <2> QED
    BY <1>6, <2>2, CourseSafe
<1>7. CASE ~it.safe
  <2> DEFINE f == Fingerprint(dd)
             g == Fingerprint(x)
  <2>1. InAll(f) = dd.ht[0].used + dd.ht[1].used /\ InAll(g) = x.ht[0].used + x.ht[1].used
    BY <1>1, PrintOf
  <2>2. \A j \in {0, 1} : x.ht[j] = IF j = i THEN h ELSE dd.ht[j]
    <3>1. dd \in Dicts /\ x = Replaced(dd, i, h)
      BY <1>1 DEF DictFine, h, e, Replaced
    <3> HIDE DEF t
    <3>2. \A j \in {0, 1} : Replaced(dd, i, h).ht[j] = IF j = i THEN h ELSE dd.ht[j]
      BY <3>1, OneSet
    <3> QED
      BY <3>1, <3>2
  <2>3. dd.ht[0].used \in Nat /\ dd.ht[1].used \in Nat
    BY <1>1, TablesFine, TableType
  <2> HIDE DEF f, g
  <2>4. InAll(g) > InAll(f)
    <3>1. CASE i = 0
      <4>1. x.ht[0].used = dd.ht[0].used + 1 /\ x.ht[1].used = dd.ht[1].used
        BY <1>4, <2>2, <3>1
      <4> QED
        BY <2>1, <2>3, <4>1
    <3>2. CASE i = 1
      <4>1. x.ht[1].used = dd.ht[1].used + 1 /\ x.ht[0].used = dd.ht[0].used
        BY <1>4, <2>2, <3>2
      <4> QED
        BY <2>1, <2>3, <4>1
    <3> QED
      BY <3>1, <3>2
  <2>5. Shifts(f, g)
    BY <2>4 DEF Shifts
  <2> QED
    BY <1>7, <2>5, CourseShift DEF f, g
<1> QED
  BY <1>6, <1>7

LEMMA CourseAdd ==
    ASSUME NEW it, NEW dd, NEW w, OnWay(it, dd, w), NEW k \in Keys, NEW v \in Vals
    PROVE  OnWay(it, AddEntry(dd, k, v), w)
<1> DEFINE x == ExpandIfNeeded(RehashStep(dd))
           y == AddEntry(dd, k, v)
           i == IF dictIsRehashing(x) THEN 1 ELSE 0
<1>1. OnWay(it, x, w)
  <2>1. OnWay(it, RehashStep(dd), w)
    BY CourseRehash
  <2> QED
    BY <2>1, CourseExpand
<1>2. y = IF Has(x, k) THEN x ELSE [x EXCEPT !.ht[i] = Push(x.ht[i], [key |-> k, val |-> v])]
  BY DEF AddEntry
<1>3. /\ DictFine(x) /\ DictFine(y) /\ y.iterators = x.iterators /\ x.ht[0].size # 0
  <2>1. DictFine(dd)
    BY DEF OnWay
  <2>2. Like(dd, x) /\ DictFine(y) /\ y.iterators = dd.iterators
    BY <2>1, AddEntryFine
  <2>3. x.ht[0].size # 0
    <3>1. Like(dd, RehashStep(dd))
      BY <2>1, RehashStepFine
    <3>2. DictFine(RehashStep(dd))
      BY <3>1 DEF Like
    <3> QED
      BY <3>2, ExpandIfNeededFine
  <2> HIDE DEF x, y
  <2> QED
    BY <2>2, <2>3 DEF Like
<1> HIDE DEF x
<1>4. CASE Has(x, k)
  BY <1>1, <1>2, <1>4
<1>5. CASE ~Has(x, k)
  <2>1. i \in {0, 1} /\ x.ht[i].size # 0
    BY <1>3 DEF DictFine
  <2>2. y = [x EXCEPT !.ht[i] = Push(x.ht[i], [key |-> k, val |-> v])]
    BY <1>2, <1>5
  <2> HIDE DEF i, y
  <2>3. OnWay(it, y, w)
    BY <1>1, <1>3, <1>5, <2>1, <2>2, CoursePush
  <2> QED
    BY <2>3 DEF y
<1> QED
  BY <1>4, <1>5

\* The place of a key that is there.
KeyIn(dd, i, k) ==
    /\ i \in {0, 1} /\ dd.ht[i] \in Table /\ Index(k, dd.ht[i]) \in 0..dd.ht[i].size - 1
    /\ \E j \in 1..Len(dd.ht[i].table[Index(k, dd.ht[i])]) :
         dd.ht[i].table[Index(k, dd.ht[i])][j].key = k

LEMMA KeyBucket ==
    ASSUME NEW dd, DictFine(dd), NEW k \in Keys, Has(dd, k),
           NEW i, i = CHOOSE j \in Tables(dd) : Holds(dd, j, k)
    PROVE  KeyIn(dd, i, k)
<1>1. i \in {0, 1} /\ dd.ht[i].size # 0
  BY HeldIn
<1>2. PICK e \in Content(dd) : e.key = k /\ e \in ToSet(Chain(dd, i, k))
  BY HeldIn
<1>3. Chain(dd, i, k) = dd.ht[i].table[Index(k, dd.ht[i])] /\ Index(k, dd.ht[i]) \in 0..dd.ht[i].size - 1
  BY <1>1, <1>2, NotMoved
<1>4. dd.ht[i] \in Table
  BY <1>1, TablesFine
<1> DEFINE c == dd.ht[i].table[Index(k, dd.ht[i])]
<1>5. c \in Seq(Entries)
  BY <1>3, <1>4, TableType
<1>6. e \in ToSet(c)
  BY <1>2, <1>3
<1> HIDE DEF c
<1>7. \E j \in 1..Len(c) : c[j].key = k
  BY <1>2, <1>5, <1>6, ChainSet
<1> QED
  BY <1>1, <1>3, <1>4, <1>7 DEF c, KeyIn

LEMMA CourseSet ==
    ASSUME NEW it, NEW dd, NEW w, OnWay(it, dd, w), NEW k \in Keys, NEW v \in Vals, Has(dd, k)
    PROVE  OnWay(it, SetVal(dd, k, v), w)
<1> DEFINE i == CHOOSE j \in Tables(dd) : Holds(dd, j, k)
           t == dd.ht[i]
           b == Index(k, t)
           h == Valued(t, b, k, v)
           x == SetVal(dd, k, v)
<1>1. DictFine(dd) /\ it.table \in {0, 1} /\ it.next \in Keys \cup {Missing} /\ w \in Keys
  BY DEF OnWay
<1>2. x = Replaced(dd, i, h)
  BY DEF Replaced, SetVal, ChangeChain, Valued, ValuedChain
<1>3. DictFine(x) /\ x.iterators = dd.iterators
  BY <1>1, SetValFine
<1>4. i \in {0, 1} /\ t \in Table /\ b \in 0..t.size - 1
  <2>1. i = CHOOSE j \in Tables(dd) : Holds(dd, j, k)
    OBVIOUS
  <2> HIDE DEF i
  <2>2. KeyIn(dd, i, k)
    BY <1>1, <2>1, KeyBucket
  <2> QED
    BY <2>2 DEF KeyIn
<1> HIDE DEF i, b, x
<1>5. SameOrder(t, h, {}) /\ h.used = t.used
  BY <1>4, ValueOrder
<1> HIDE DEF h
<1>6. SameOrders(dd, x, {})
  BY <1>1, <1>2, <1>4, <1>5, OrdersSet
<1>7. Clean(it, dd, w) => Clean(it, x, w)
  BY <1>1, <1>3, <1>6, FollowsSelf, CleanKept
<1>8. Fingerprint(x) = Fingerprint(dd)
  <2>1. \A j \in {0, 1} : x.ht[j] = IF j = i THEN h ELSE dd.ht[j]
    <3>1. dd \in Dicts
      BY <1>1 DEF DictFine
    <3> QED
      BY <1>2, <1>4, <3>1, OneSet
  <2>2. h.size = t.size
    BY <1>5 DEF SameOrder
  <2>3. \A j \in {0, 1} : x.ht[j].size = dd.ht[j].size /\ x.ht[j].used = dd.ht[j].used
    BY <1>5, <2>1, <2>2
  <2> QED
    BY <2>3 DEF Fingerprint
<1>9. OnWay(it, x, w)
  BY <1>3, <1>7, <1>8, CourseSame
<1> QED
  BY <1>9 DEF x

\* Under a safe iterator an entry is removed, but not the saved one.
LEMMA CourseUnlink ==
    ASSUME NEW it, it.safe, NEW dd, NEW w, OnWay(it, dd, w), NEW k \in Keys, Has(dd, k), it.next # k,
           NEW y, y.safe, Follower(it, y), w = k => ~y.owed /\ ~y.given,
           y.twice = it.twice, y.done = it.done
    PROVE  OnWay(y, Unlink(dd, k), w)
<1> DEFINE i == CHOOSE j \in Tables(dd) : Holds(dd, j, k)
           t == dd.ht[i]
           b == Index(k, t)
           c == t.table[b]
           p == CHOOSE l \in DOMAIN c : c[l].key = k
           h == Dropped(t, b, p)
           x == Unlink(dd, k)
<1>1. DictFine(dd) /\ it.table \in {0, 1} /\ it.next \in Keys \cup {Missing} /\ w \in Keys
  BY DEF OnWay
<1>2. x = Replaced(dd, i, h)
  BY DEF Replaced, Unlink, ChangeChain, Dropped
<1>3. DictFine(x) /\ x.iterators = dd.iterators
  BY <1>1, UnlinkFine
<1>4. i \in {0, 1} /\ t \in Table /\ b \in 0..t.size - 1 /\ \E j \in 1..Len(c) : c[j].key = k
  <2>1. i = CHOOSE j \in Tables(dd) : Holds(dd, j, k)
    OBVIOUS
  <2> HIDE DEF i
  <2>2. KeyIn(dd, i, k)
    BY <1>1, <2>1, KeyBucket
  <2> QED
    BY <2>2 DEF KeyIn
<1>5. p \in 1..Len(c) /\ c[p].key = k
  <2>1. c \in Seq(Entries)
    BY <1>4, TableType
  <2> HIDE DEF c
  <2>2. DOMAIN c = 1..Len(c)
    BY <2>1, LenProperties
  <2> QED
    BY <1>4, <2>2
<1> HIDE DEF i, b, x, p
<1>6. SameOrder(t, h, {k})
  <2>1. p \in 1..Len(t.table[b]) /\ t.table[b][p].key = k
    BY <1>5
  <2> HIDE DEF t
  <2> QED
    BY <1>4, <2>1, DropOrder
<1> HIDE DEF h
<1>7. SameOrders(dd, x, {k})
  BY <1>1, <1>2, <1>4, <1>6, OrdersSet
<1>8. ASSUME Clean(it, dd, w) PROVE Clean(y, x, w)
  <2>1. it.next \in (Keys \cup {Missing}) \ {k} /\ (w \in {k} => ~y.owed /\ ~y.given)
    BY <1>1
  <2> QED
    BY <1>1, <1>3, <1>7, <1>8, <2>1, CleanKept
<1>9. dd.iterators # 0 /\ Upright(it, dd, w)
  BY DEF OnWay, OnCourse
<1>10. Upright(y, x, w)
  BY <1>8, <1>9 DEF Upright, Follower
<1>11. OnWay(y, x, w)
  BY <1>1, <1>3, <1>9, <1>10 DEF OnWay, OnCourse, Follower
<1> QED
  BY <1>11 DEF x

LEMMA CourseSteps ==
    ASSUME NEW it, NEW dd, NEW w, OnWay(it, dd, w), NEW n \in Nat
    PROVE  LET step[i \in 0..n] == IF i = 0 THEN dd ELSE RehashStep(step[i - 1])
           IN  \A i \in 0..n : OnWay(it, step[i], w)
<1> DEFINE st == CHOOSE st : st = [i \in 0..n |-> IF i = 0 THEN dd ELSE RehashStep(st[i - 1])]
           S == {i \in Nat : i <= n => OnWay(it, st[i], w)}
<1>1. st = [i \in 0..n |-> IF i = 0 THEN dd ELSE RehashStep(st[i - 1])]
  <2>1. DictFine(dd)
    BY DEF OnWay
  <2> QED
    BY <2>1, SomeStepsAre
<1> HIDE DEF st
<1>2. 0 \in S
  BY <1>1
<1>3. ASSUME NEW i \in S PROVE i + 1 \in S
  <2> SUFFICES ASSUME i + 1 <= n PROVE OnWay(it, st[i + 1], w)
    OBVIOUS
  <2>1. OnWay(it, st[i], w) /\ i + 1 \in 0..n /\ (i + 1) - 1 = i /\ i + 1 # 0
    OBVIOUS
  <2>2. st[i + 1] = RehashStep(st[i])
    BY <1>1, <2>1
  <2> QED
    BY <2>1, <2>2, CourseRehash
<1>4. S = Nat
  <2> HIDE DEF S
  <2>1. S \in SUBSET Nat
    BY DEF S
  <2> QED
    BY <1>2, <1>3, <2>1, SetInduction
<1>5. \A i \in 0..n : OnWay(it, st[i], w)
  BY <1>4
<1> QED
  BY <1>5 DEF st

\* A safe iterator and a dictExpand of the caller.
LEMMA CourseResized ==
    ASSUME NEW it, it.safe, NEW dd, NEW w, OnWay(it, dd, w), NEW n \in Nat
    PROVE  OnWay(it, dictExpand(dd, n), w)
<1> DEFINE x == dictExpand(dd, n)
           m == NextPower(n)
           e == NewTable(m)
<1>1. DictFine(dd) /\ Like(dd, x) /\ DictFine(x) /\ x.iterators = dd.iterators
  <2>1. DictFine(dd)
    BY DEF OnWay
  <2>2. Like(dd, x)
    BY <2>1, ExpandFine
  <2> QED
    BY <2>1, <2>2 DEF Like
<1>2. \/ x = dd
      \/ dd.ht[1].size = 0 /\ x.ht[0] = dd.ht[0] /\ x.ht[1] = e
      \/ dd.ht[1].size = 0 /\ dd.ht[0].size = 0 /\ x.ht[0] = e /\ x.ht[1] = dd.ht[1]
  <2> DEFINE s == dd.ht[0]
  <2>1. \/ dictExpand(dd, n) = dd
        \/ /\ CanExpand(dd, n) /\ s.size # 0 /\ dd.ht[1].size = 0
           /\ dictExpand(dd, n).ht[0] = s /\ dictExpand(dd, n).ht[1] = e
        \/ /\ CanExpand(dd, n) /\ s.size = 0 /\ dd.ht[1].size = 0
           /\ dictExpand(dd, n).ht[0] = e /\ dictExpand(dd, n).ht[1] = dd.ht[1]
    BY <1>1, ExpandKinds
  <2> HIDE DEF e
  <2> QED
    BY <2>1
<1>3. m \in Nat
  BY NextPowerEnough
<1> HIDE DEF x, m
<1>4. ASSUME x # dd, Clean(it, dd, w) PROVE Clean(it, x, w)
  <2>1. it.table \in {0, 1} /\ it.next \in Keys \cup {Missing}
    BY DEF OnWay
  <2>2. /\ dd.ht[1].size = 0
        /\ \/ x.ht[0] = dd.ht[0] /\ x.ht[1] = NewTable(m)
           \/ dd.ht[0].size = 0 /\ x.ht[0] = NewTable(m) /\ x.ht[1] = dd.ht[1]
    BY <1>2, <1>4
  <2> QED
    BY <1>1, <1>3, <1>4, <2>1, <2>2, CleanExpanded
<1>5. OnWay(it, x, w)
  <2>1. Clean(it, dd, w) => Clean(it, x, w)
    BY <1>4
  <2> QED
    BY <1>1, <2>1, CourseSafe
<1> QED
  BY <1>5 DEF x

-----------------------------------------------------------------------------
(* The invariant of the iterations.                                        *)

IterWay(it, dd, sp, w) ==
    /\ ~Started(it) => ~it.owed /\ ~it.given /\ ~it.twice /\ ~it.done
    /\ it.lost => ~it.done
    /\ ~it.open => ~Started(it)
    /\ sp /\ it.open => it.safe
    /\ ~sp => dd.iterators = IF it.open /\ it.safe /\ Started(it) THEN 1 ELSE 0
    /\ Started(it) /\ ~it.lost /\ ~sp => OnCourse(it, dd, w)

CourseInv == watched \in Keys /\ IterWay(iter, d, spoiled, watched)

\* y differs from it in what is owed and given, which is no more.
Mirror(it, y) ==
    /\ Follower(it, y)
    /\ y.open = it.open /\ y.safe = it.safe /\ y.fingerprint = it.fingerprint
    /\ y.twice = it.twice /\ y.done = it.done /\ y.lost = it.lost

LEMMA MirrorSelf ==
    ASSUME NEW it
    PROVE  Mirror(it, it)
BY DEF Mirror, Follower

LEMMA MirrorRecorded ==
    ASSUME NEW it, IterShape(it), NEW o, NEW g, o => it.owed, g => it.given
    PROVE  LET y == Recorded(it, o, g) IN Mirror(it, y) /\ y.owed = o /\ y.given = g
<1> DEFINE y == Recorded(it, o, g)
           z == [it EXCEPT !.owed = o]
<1>1. z = [open |-> it.open, safe |-> it.safe, table |-> it.table, index |-> it.index,
           next |-> it.next, fingerprint |-> it.fingerprint, owed |-> o, given |-> it.given,
           twice |-> it.twice, done |-> it.done, lost |-> it.lost]
  BY DEF IterShape
<1>2. y = [z EXCEPT !.given = g]
  BY DEF Recorded
<1> HIDE DEF z, y
<1>3. y = [open |-> it.open, safe |-> it.safe, table |-> it.table, index |-> it.index,
           next |-> it.next, fingerprint |-> it.fingerprint, owed |-> o, given |-> g,
           twice |-> it.twice, done |-> it.done, lost |-> it.lost]
  BY <1>1, <1>2
<1>4. /\ y.open = it.open /\ y.safe = it.safe /\ y.table = it.table /\ y.index = it.index
      /\ y.next = it.next /\ y.fingerprint = it.fingerprint /\ y.owed = o /\ y.given = g
      /\ y.twice = it.twice /\ y.done = it.done /\ y.lost = it.lost
  BY <1>3
<1>5. Mirror(it, y) /\ y.owed = o /\ y.given = g
  <2>1. y.owed => it.owed
    BY <1>4
  <2>2. y.given => it.given
    BY <1>4
  <2> QED
    BY <1>4, <2>1, <2>2 DEF Mirror, Follower
<1> QED
  BY <1>5 DEF y

\* What is owed or given may become less.
LEMMA CourseMirror ==
    ASSUME NEW it, NEW dd, NEW w, OnWay(it, dd, w), NEW y, Mirror(it, y)
    PROVE  OnWay(y, dd, w)
<1>1. DictFine(dd) /\ it.table \in {0, 1} /\ it.next \in Keys \cup {Missing} /\ w \in Keys
  BY DEF OnWay
<1>2. Follower(it, y)
  BY DEF Mirror
<1>3. Clean(it, dd, w) => Clean(y, dd, w)
  <2>1. SameOrders(dd, dd, {})
    BY DEF SameOrders, SameOrder
  <2> QED
    BY <1>1, <1>2, <2>1, CleanKept
<1>4. Upright(it, dd, w) => Upright(y, dd, w)
  BY <1>3 DEF Upright, Mirror, Follower
<1> QED
  BY <1>1, <1>4 DEF OnWay, OnCourse, Mirror, Follower

LEMMA WayKept ==
    ASSUME NEW it, NEW dd, NEW sp, NEW w, IterWay(it, dd, sp, w), NEW y, Mirror(it, y),
           NEW x, x.iterators = dd.iterators, OnCourse(it, dd, w) => OnCourse(y, x, w)
    PROVE  IterWay(y, x, sp, w)
<1>1. Started(y) <=> Started(it)
  BY DEF Started, Mirror, Follower
<1> QED
  BY <1>1 DEF IterWay, Mirror, Follower

\* An iterator that is given up is only counted.
LEMMA WayLost ==
    ASSUME NEW it, NEW dd, NEW sp, NEW w, IterWay(it, dd, sp, w), NEW x, x.iterators = dd.iterators
    PROVE  IterWay(Lose(it), x, sp, w)
<1>1. CASE Started(it)
  <2>1. Lose(it) = [open |-> TRUE, safe |-> it.safe, table |-> 0, index |-> 0, next |-> Missing,
                    fingerprint |-> <<>>, owed |-> FALSE, given |-> FALSE, twice |-> FALSE,
                    done |-> FALSE, lost |-> TRUE]
    BY <1>1 DEF Lose, NoIter
  <2> DEFINE y == Lose(it)
  <2>2. y.open = TRUE /\ y.safe = it.safe /\ y.index = 0 /\ y.done = FALSE /\ y.lost = TRUE
    BY <2>1
  <2> HIDE DEF y
  <2>3. Started(y)
    BY <2>2 DEF Started
  <2>4. IterWay(y, x, sp, w)
    BY <1>1, <2>2, <2>3 DEF IterWay
  <2> QED
    BY <2>4 DEF y
<1>2. CASE ~Started(it)
  <2>1. Lose(it) = it
    BY <1>2 DEF Lose
  <2> QED
    BY <1>2, <2>1 DEF IterWay
<1> QED
  BY <1>1, <1>2

LEMMA CourseInit == DictInit => CourseInv
<1> SUFFICES ASSUME DictInit PROVE CourseInv
  OBVIOUS
<1>1. watched \in Keys /\ d.iterators = 0 /\ spoiled = FALSE
  BY DEF DictInit
<1>2. ~Started(iter) /\ ~iter.owed /\ ~iter.given /\ ~iter.twice /\ ~iter.done /\ ~iter.lost /\ ~iter.open
  BY DEF DictInit, NoIter, Started
<1> QED
  BY <1>1, <1>2 DEF CourseInv, IterWay

LEMMA OnWayIs ==
    ASSUME DictInv, CourseInv
    PROVE  OnWay(iter, d, watched) <=> OnCourse(iter, d, watched)
BY DEF DictInv, CourseInv, OnWay, Represents, IterFine, Placed, KeysIn

\* The calls that leave the iterator alone.
LEMMA AsideCourse ==
    ASSUME DictInv, CourseInv, Aside, d'.iterators = d.iterators,
           OnWay(iter, d, watched) => OnWay(iter, d', watched)
    PROVE  CourseInv'
<1>1. iter' = iter /\ watched' = watched /\ spoiled' = spoiled
  BY DEF Aside
<1>2. OnCourse(iter, d, watched) => OnCourse(iter, d', watched)
  BY OnWayIs DEF OnWay
<1>3. IterWay(iter, d', spoiled, watched)
  BY <1>2, MirrorSelf, WayKept DEF CourseInv
<1> QED
  BY <1>1, <1>3 DEF CourseInv

LEMMA AddCourse ==
    ASSUME DictInv, CourseInv, NEW k \in Keys, NEW v \in Vals, Add(k, v)
    PROVE  CourseInv'
<1>1. d' = AddEntry(d, k, v) /\ Aside
  BY DEF Add
<1>2. d'.iterators = d.iterators
  BY <1>1, AddEntryFine DEF DictInv, Represents
<1> QED
  BY <1>1, <1>2, CourseAdd, AsideCourse

LEMMA ReplaceCourse ==
    ASSUME DictInv, CourseInv, NEW k \in Keys, NEW v \in Vals, Replace(k, v)
    PROVE  CourseInv'
<1> DEFINE x == ExpandIfNeeded(RehashStep(d))
           there == Has(x, k)
           added == AddEntry(d, k, v)
           found == Find(added)
           y == SetVal(found, k, v)
<1>1. d' = (IF there THEN y ELSE added) /\ Aside
  BY DEF Replace
<1>2. DictFine(d)
  BY DEF DictInv, Represents
<1>3. DictFine(added) /\ added.iterators = d.iterators /\ (there => added = x) /\ Like(d, x)
  BY <1>2, AddEntryFine
<1>4. Like(added, found)
  <2> HIDE DEF added
  <2> QED
    BY <1>3, RehashStepFine
<1>5. OnWay(iter, d, watched) => OnWay(iter, added, watched)
  BY CourseAdd
<1> HIDE DEF x, added
<1>6. OnWay(iter, d, watched) => OnWay(iter, found, watched)
  BY <1>5, CourseFind
<1> HIDE DEF found
<1>7. DictFine(found) /\ found.iterators = d.iterators
  BY <1>3, <1>4 DEF Like
<1>8. ASSUME there PROVE Has(found, k)
  <2>1. Content(found) = Content(x)
    BY <1>3, <1>4, <1>8 DEF Like
  <2>2. DictFine(x)
    BY <1>3 DEF Like
  <2> QED
    BY <1>7, <1>8, <2>1, <2>2, HasRight
<1>9. CASE there
  <2>1. y.iterators = d.iterators
    BY <1>7, <1>8, <1>9, SetValFine
  <2>2. OnWay(iter, d, watched) => OnWay(iter, y, watched)
    BY <1>6, <1>8, <1>9, CourseSet
  <2> HIDE DEF y
  <2> QED
    BY <1>1, <1>9, <2>1, <2>2, AsideCourse
<1>10. CASE ~there
  BY <1>1, <1>3, <1>5, <1>10, AsideCourse
<1> QED
  BY <1>9, <1>10

\* One step of rehashing, or none.
LEMMA StepCourse ==
    ASSUME DictInv, CourseInv, Aside, d' = RehashStep(d) \/ d' = Find(d)
    PROVE  CourseInv'
<1>1. d'.iterators = d.iterators
  BY RehashStepFine DEF DictInv, Represents, Like
<1> QED
  BY <1>1, CourseRehash, CourseFind, AsideCourse

LEMMA SomeKeysCourse ==
    ASSUME DictInv, CourseInv, NEW count \in 1..2, SomeKeys(count)
    PROVE  CourseInv'
<1> DEFINE step == CHOOSE step : step = [i \in 0..count |-> IF i = 0 THEN d ELSE RehashStep(step[i - 1])]
           m == Min({count, dictSize(d)})
<1>1. d' = step[m] /\ Aside
  BY DEF SomeKeys
<1>2. DictFine(d)
  BY DEF DictInv, Represents
<1>3. \A i \in 0..count : Like(d, step[i])
  BY <1>2, SomeStepsFine
<1>4. OnWay(iter, d, watched) => \A i \in 0..count : OnWay(iter, step[i], watched)
  BY CourseSteps
<1> HIDE DEF step
<1>5. m \in 0..count
  BY <1>2, SampleSize
<1> HIDE DEF m
<1>6. d'.iterators = d.iterators
  BY <1>1, <1>3, <1>5 DEF Like
<1>7. OnWay(iter, d, watched) => OnWay(iter, d', watched)
  BY <1>1, <1>4, <1>5
<1> QED
  BY <1>1, <1>6, <1>7, AsideCourse

LEMMA ResizedCourse ==
    ASSUME DictInv, CourseInv, NEW n \in Nat, Resized(dictExpand(d, n))
    PROVE  CourseInv'
<1>1. /\ d' = dictExpand(d, n) /\ iter' = (IF iter.safe THEN iter ELSE Lose(iter))
      /\ watched' = watched /\ spoiled' = spoiled
  BY DEF Resized
<1>2. d'.iterators = d.iterators
  BY <1>1, ExpandFine DEF DictInv, Represents, Like
<1>3. CASE iter.safe
  <2>1. OnWay(iter, d, watched) => OnWay(iter, d', watched)
    BY <1>1, <1>3, CourseResized
  <2>3. OnCourse(iter, d, watched) => OnCourse(iter, d', watched)
    BY <2>1, OnWayIs DEF OnWay
  <2>4. IterWay(iter, d', spoiled, watched)
    BY <1>2, <2>3, MirrorSelf, WayKept DEF CourseInv
  <2> QED
    BY <1>1, <1>3, <2>4 DEF CourseInv
<1>4. CASE ~iter.safe
  <2>1. IterWay(Lose(iter), d', spoiled, watched)
    BY <1>2, WayLost DEF CourseInv
  <2> QED
    BY <1>1, <1>4, <2>1 DEF CourseInv
<1> QED
  BY <1>3, <1>4

LEMMA RehashCourse ==
    ASSUME DictInv, CourseInv, NEW n \in 1..2, Rehash(n)
    PROVE  CourseInv'
<1>1. d' = dictRehash(d, n) /\ iter' = Lose(iter) /\ watched' = watched /\ spoiled' = spoiled
  BY DEF Rehash
<1>2. d'.iterators = d.iterators
  <2>1. n \in Nat \ {0}
    OBVIOUS
  <2> QED
    BY <1>1, <2>1, RehashFine DEF DictInv, Represents, Like
<1>3. IterWay(Lose(iter), d', spoiled, watched)
  BY <1>2, WayLost DEF CourseInv
<1> QED
  BY <1>1, <1>3 DEF CourseInv

LEMMA SetResizeCourse ==
    ASSUME DictInv, CourseInv, NEW b \in BOOLEAN, SetResize(b)
    PROVE  CourseInv'
<1>1. d' = [d EXCEPT !.can_resize = b] /\ Aside
  BY DEF SetResize
<1>2. d \in Dicts /\ DictFine(d')
  BY <1>1, ResizeFine DEF DictInv, Represents, DictFine
<1>3. d'.ht = d.ht /\ d'.iterators = d.iterators
  BY <1>1, <1>2 DEF Dicts
<1>4. OnWay(iter, d, watched) => OnWay(iter, d', watched)
  BY <1>2, <1>3, PrintSame, CleanSame, CourseSame
<1> QED
  BY <1>1, <1>3, <1>4, AsideCourse

LEMMA DictEmptyCourse ==
    ASSUME DictInv, CourseInv, DictEmpty
    PROVE  CourseInv'
<1>1. /\ d' = [d EXCEPT !.ht = [i \in {0, 1} |-> NewTable(0)], !.rehashidx = -1, !.iterators = 0]
      /\ ~spoiled /\ Forget(Keys) /\ spoiled' = (iter.open /\ iter.safe /\ Started(iter))
  BY DEF DictEmpty
<1>2. d'.iterators = 0
  BY <1>1 DEF DictInv, Represents, DictFine, Dicts
<1>3. watched' = watched /\ watched \in Keys
  BY <1>1 DEF Forget, CourseInv
<1> DEFINE o == iter.owed /\ watched \notin Keys
           g == iter.given /\ watched \notin Keys
           y == Recorded(iter, o, g)
<1>4. iter' = IF iter.next \in Keys \/ ~iter.safe THEN Lose(iter) ELSE y
  BY <1>1, <1>3 DEF Forget, Recorded
<1>5. Mirror(iter, y)
  BY MirrorRecorded DEF DictInv, IterFine
<1> HIDE DEF y
<1>6. IterWay(iter, d, FALSE, watched)
  BY <1>1 DEF CourseInv, IterWay
<1>7. CASE iter' = Lose(iter)
  <2>1. IterWay(Lose(iter), d, FALSE, watched)
    BY <1>6, WayLost
  <2>2. /\ Started(iter') <=> Started(iter)
        /\ iter'.open <=> iter.open
        /\ iter'.safe = iter.safe
        /\ ~Started(iter') \/ iter'.lost
    <3>1. CASE Started(iter)
      <4>1. iter' = [NoIter EXCEPT !.open = TRUE, !.safe = iter.safe, !.index = 0, !.lost = TRUE]
        BY <1>7, <3>1 DEF Lose
      <4>2. iter'.open /\ iter'.safe = iter.safe /\ iter'.index = 0 /\ iter'.lost
        BY <4>1 DEF NoIter
      <4>3. iter.open
        BY <1>6, <3>1 DEF IterWay
      <4> QED
        BY <3>1, <4>2, <4>3 DEF Started
    <3>2. CASE ~Started(iter)
      BY <1>7, <3>2 DEF Lose
    <3> QED
      BY <3>1, <3>2
  <2>3. IterWay(iter', d', spoiled', watched)
    BY <1>1, <1>2, <1>7, <2>1, <2>2 DEF IterWay
  <2> QED
    BY <1>3, <2>3 DEF CourseInv
<1>8. CASE iter' = y /\ iter.safe
  <2>1. Started(y) <=> Started(iter)
    BY <1>5 DEF Mirror, Follower, Started
  <2>2. IterWay(y, d', spoiled', watched)
    BY <1>1, <1>2, <1>5, <1>6, <1>8, <2>1 DEF IterWay, Mirror, Follower
  <2> QED
    BY <1>3, <1>8, <2>2 DEF CourseInv
<1> QED
  BY <1>4, <1>7, <1>8

LEMMA DeleteCourse ==
    ASSUME DictInv, CourseInv, NEW k \in Keys, Delete(k)
    PROVE  CourseInv'
<1> DEFINE found == Find(d)
           there == Has(found, k)
           ks == IF there THEN {k} ELSE {}
           o == iter.owed /\ watched \notin ks
           g == iter.given /\ watched \notin ks
           y == Recorded(iter, o, g)
<1>1. d' = (IF there THEN Unlink(found, k) ELSE found) /\ Forget(ks) /\ spoiled' = spoiled
  BY DEF Delete
<1>2. DictFine(d) /\ Like(d, found)
  BY RehashStepFine DEF DictInv, Represents
<1>3. OnWay(iter, d, watched) => OnWay(iter, found, watched)
  BY CourseFind
<1> HIDE DEF found
<1>4. DictFine(found) /\ found.iterators = d.iterators
  BY <1>2 DEF Like
<1>5. d'.iterators = d.iterators
  BY <1>1, <1>4, UnlinkFine
<1>6. watched' = watched /\ iter' = IF iter.next \in ks \/ (~iter.safe /\ ks # {}) THEN Lose(iter) ELSE y
  BY <1>1 DEF Forget, Recorded
<1>7. Mirror(iter, y) /\ y.owed = o /\ y.given = g
  <2>1. (o => iter.owed) /\ (g => iter.given)
    OBVIOUS
  <2> HIDE DEF o, g
  <2> QED
    BY <2>1, MirrorRecorded DEF DictInv, IterFine
<1> HIDE DEF y
<1>8. CASE iter' = Lose(iter)
  <2>1. IterWay(Lose(iter), d', spoiled, watched)
    BY <1>5, WayLost DEF CourseInv
  <2> QED
    BY <1>1, <1>6, <1>8, <2>1 DEF CourseInv
<1>9. CASE iter' = y /\ ~there
  <2>1. OnWay(iter, d, watched) => OnWay(y, d', watched)
    <3>1. d' = found
      BY <1>1, <1>9
    <3> QED
      BY <1>3, <1>7, <3>1, CourseMirror
  <2>2. OnCourse(iter, d, watched) => OnCourse(y, d', watched)
    BY <2>1, OnWayIs DEF OnWay
  <2>3. IterWay(y, d', spoiled, watched)
    BY <1>5, <1>7, <2>2, WayKept DEF CourseInv
  <2> QED
    BY <1>1, <1>6, <1>9, <2>3 DEF CourseInv
<1>10. CASE there /\ iter' = y /\ iter.next # k /\ iter.safe
  <2>1. OnWay(iter, d, watched) => OnWay(y, d', watched)
    <3> SUFFICES ASSUME OnWay(iter, d, watched) PROVE OnWay(y, d', watched)
      OBVIOUS
    <3>1. d' = Unlink(found, k) /\ ks = {k}
      BY <1>1, <1>10
    <3>2. watched = k => ~y.owed /\ ~y.given
      BY <1>7, <3>1
    <3>3. Follower(iter, y) /\ y.safe /\ y.twice = iter.twice /\ y.done = iter.done
      BY <1>7, <1>10 DEF Mirror
    <3>4. OnWay(iter, found, watched)
      BY <1>3
    <3> HIDE DEF ks, o, g
    <3> QED
      BY <1>10, <3>1, <3>2, <3>3, <3>4, CourseUnlink
  <2>2. OnCourse(iter, d, watched) => OnCourse(y, d', watched)
    BY <2>1, OnWayIs DEF OnWay
  <2>3. IterWay(y, d', spoiled, watched)
    BY <1>5, <1>7, <2>2, WayKept DEF CourseInv
  <2> QED
    BY <1>1, <1>6, <1>10, <2>3 DEF CourseInv
<1>11. CASE ~(iter' = Lose(iter))
  <2>1. iter' = y /\ iter.next \notin ks /\ (iter.safe \/ ks = {})
    BY <1>6, <1>11
  <2>2. CASE there
    <3>1. ks = {k}
      BY <2>2
    <3>2. iter.next # k /\ iter.safe
      BY <2>1, <3>1
    <3> QED
      BY <1>10, <2>1, <2>2, <3>2
  <2>3. CASE ~there
    BY <1>9, <2>1, <2>3
  <2> QED
    BY <2>2, <2>3
<1> QED
  BY <1>8, <1>11

LEMMA GetIteratorCourse ==
    ASSUME DictInv, CourseInv, NEW safe \in BOOLEAN, GetIterator(safe)
    PROVE  CourseInv'
<1>1. /\ ~iter.open /\ ~spoiled /\ iter' = [NoIter EXCEPT !.open = TRUE, !.safe = safe]
      /\ d' = d /\ watched' = watched /\ spoiled' = spoiled
  BY DEF GetIterator
<1>2. iter' = [open |-> TRUE, safe |-> safe, table |-> 0, index |-> -1, next |-> Missing,
               fingerprint |-> <<>>, owed |-> FALSE, given |-> FALSE, twice |-> FALSE,
               done |-> FALSE, lost |-> FALSE]
  BY <1>1 DEF NoIter
<1>3. ~Started(iter') /\ ~iter'.owed /\ ~iter'.given /\ ~iter'.twice /\ ~iter'.done /\ ~iter'.lost /\ iter'.open
  BY <1>2 DEF Started
<1>4. d.iterators = 0 /\ watched \in Keys
  BY <1>1 DEF CourseInv, IterWay
<1>5. IterWay(iter', d', spoiled', watched')
  BY <1>1, <1>3, <1>4 DEF IterWay
<1> QED
  BY <1>1, <1>4, <1>5 DEF CourseInv

LEMMA ReleaseCourse ==
    ASSUME DictInv, CourseInv, Release
    PROVE  CourseInv'
<1>1. /\ d' = (IF Started(iter) /\ iter.safe THEN [d EXCEPT !.iterators = d.iterators - 1] ELSE d)
      /\ iter.open /\ iter' = NoIter /\ watched' = watched /\ spoiled' = spoiled
  BY DEF Release
<1>2. /\ ~Started(iter') /\ ~iter'.owed /\ ~iter'.given /\ ~iter'.twice /\ ~iter'.done /\ ~iter'.lost
      /\ ~iter'.open
  BY <1>1 DEF Started, NoIter
<1>3. ~spoiled => d'.iterators = 0
  <2> SUFFICES ASSUME ~spoiled PROVE d'.iterators = 0
    OBVIOUS
  <2>1. d \in Dicts
    BY DEF DictInv, Represents, DictFine
  <2>2. CASE Started(iter) /\ iter.safe
    <3>1. d.iterators = 1
      BY <1>1, <2>2 DEF CourseInv, IterWay
    <3>2. d'.iterators = d.iterators - 1
      BY <1>1, <2>1, <2>2 DEF Dicts
    <3> QED
      BY <3>1, <3>2
  <2>3. CASE ~(Started(iter) /\ iter.safe)
    <3>1. d.iterators = 0
      BY <2>3 DEF CourseInv, IterWay
    <3> QED
      BY <1>1, <2>3, <3>1
  <2> QED
    BY <2>2, <2>3
<1>4. IterWay(iter', d', spoiled', watched')
  BY <1>1, <1>2, <1>3 DEF IterWay
<1> QED
  BY <1>1, <1>4 DEF CourseInv

LEMMA StillCourse ==
    ASSUME CourseInv, d' = d, iter' = iter, watched' = watched, spoiled' = spoiled
    PROVE  CourseInv'
BY DEF CourseInv

-----------------------------------------------------------------------------
(* What is ahead after a step of the iterator.                             *)

LEMMA ChainKeys ==
    ASSUME NEW c \in Seq(Entries), NEW x \in 1..Len(c)
    PROVE  c[x] \in Entries /\ c[x].key \in Keys /\ c[x].key # Missing /\ NotBefore(c, c[x].key, c[x].key)
<1>1. c[x] \in Entries
  OBVIOUS
<1>2. c[x].key \in Keys /\ c[x].key # Missing
  BY <1>1, EntryType, HashAssumption
<1>3. x <= x
  OBVIOUS
<1> QED
  BY <1>1, <1>2, <1>3 DEF NotBefore

LEMMA NoneBehind ==
    ASSUME NEW c \in Seq(Entries), NEW k
    PROVE  ~NotBefore(c, Missing, k)
BY ChainKeys DEF NotBefore

LEMMA NotBeforeSome ==
    ASSUME NEW c, NEW n, NEW k, NotBefore(c, n, k)
    PROVE  c # <<>>
<1>1. PICK x \in 1..Len(c) : TRUE
  BY DEF NotBefore
<1> QED
  BY <1>1

\* The head of a chain has all of it behind it.
LEMMA HeadFirst ==
    ASSUME NEW c \in Seq(Entries), c # <<>>, NEW k
    PROVE  NotBefore(c, c[1].key, k) <=> NotBefore(c, k, k)
<1>1. Len(c) \in Nat /\ 1 \in 1..Len(c)
  OBVIOUS
<1>2. ASSUME NEW y \in 1..Len(c), c[y].key = k PROVE NotBefore(c, c[1].key, k)
  <2>1. 1 <= y
    OBVIOUS
  <2> QED
    BY <1>1, <1>2, <2>1 DEF NotBefore
<1>3. ASSUME NEW y \in 1..Len(c), c[y].key = k PROVE NotBefore(c, k, k)
  BY <1>3, ChainKeys
<1> QED
  BY <1>2, <1>3 DEF NotBefore

\* The entry behind that of place j, which leaves all but j's to come.
Behind(c, j) == IF j < Len(c) THEN c[j + 1].key ELSE Missing

LEMMA ChainNext ==
    ASSUME NEW c \in Seq(Entries), NEW m, NEW b, ChainFine(c, m, b), NEW j \in 1..Len(c), NEW k
    PROVE  /\ NotBefore(c, Behind(c, j), k) <=> NotBefore(c, c[j].key, k) /\ k # c[j].key
           /\ Behind(c, j) # Missing => NotBefore(c, Behind(c, j), Behind(c, j))
<1> DEFINE n == c[j].key
           s == Behind(c, j)
           l == Len(c)
<1>1. l \in Nat /\ j \in 1..l
  OBVIOUS
<1>2. \A x \in 1..l : \A y \in 1..l : c[x].key = c[y].key => x = y
  BY DEF ChainFine
<1>3. NotBefore(c, n, k) <=> \E y \in 1..l : j <= y /\ c[y].key = k
  <2>1. NotBefore(c, n, k) <=> \E x \in 1..l : \E y \in 1..l : x <= y /\ c[x].key = n /\ c[y].key = k
    BY DEF NotBefore
  <2>2. \A x \in 1..l : c[x].key = n <=> x = j
    BY <1>1, <1>2
  <2> HIDE DEF n, l
  <2> QED
    BY <1>1, <2>1, <2>2
<1>4. CASE j < l
  <2>1. s = c[j + 1].key /\ j + 1 \in 1..l
    BY <1>1, <1>4 DEF Behind
  <2>2. NotBefore(c, s, k) <=> \E y \in 1..l : j + 1 <= y /\ c[y].key = k
    <3>1. NotBefore(c, s, k) <=> \E x \in 1..l : \E y \in 1..l : x <= y /\ c[x].key = s /\ c[y].key = k
      BY DEF NotBefore
    <3>2. \A x \in 1..l : c[x].key = s <=> x = j + 1
      BY <1>2, <2>1
    <3> HIDE DEF s, l
    <3> QED
      BY <2>1, <3>1, <3>2
  <2>3. NotBefore(c, s, s)
    BY <2>1, ChainKeys
  <2>4. (\E y \in 1..l : j + 1 <= y /\ c[y].key = k)
          <=> (\E y \in 1..l : j <= y /\ c[y].key = k) /\ k # n
    <3>1. ASSUME NEW y \in 1..l, j + 1 <= y, c[y].key = k
          PROVE  j <= y /\ k # n
      <4>1. y # j /\ j <= y
        BY <1>1, <3>1
      <4> QED
        BY <1>1, <1>2, <3>1, <4>1
    <3>2. ASSUME NEW y \in 1..l, j <= y, c[y].key = k, k # n
          PROVE  j + 1 <= y
      <4>1. y # j
        BY <3>2
      <4> HIDE DEF l
      <4> QED
        BY <1>1, <3>2, <4>1
    <3> HIDE DEF l, n
    <3> QED
      BY <3>1, <3>2
  <2> HIDE DEF n, s, l
  <2>5. /\ NotBefore(c, s, k) <=> NotBefore(c, n, k) /\ k # n
        /\ s # Missing => NotBefore(c, s, s)
    BY <1>3, <2>2, <2>3, <2>4
  <2> QED
    BY <2>5 DEF n, s
<1>5. CASE ~(j < l)
  <2>1. s = Missing /\ j = l
    BY <1>1, <1>5 DEF Behind
  <2>2. ~NotBefore(c, s, k)
    BY <2>1, NoneBehind
  <2>3. ASSUME NEW y \in 1..l, j <= y, c[y].key = k PROVE k = n
    <3>1. y = j
      BY <1>1, <2>1, <2>3
    <3> QED
      BY <2>3, <3>1
  <2> HIDE DEF n, s, l
  <2>4. /\ NotBefore(c, s, k) <=> NotBefore(c, n, k) /\ k # n
        /\ s # Missing => NotBefore(c, s, s)
    BY <1>3, <2>1, <2>2, <2>3
  <2> QED
    BY <2>4 DEF n, s
<1> QED
  BY <1>4, <1>5

LEMMA SuccessorIs ==
    ASSUME NEW dd, DictFine(dd), NEW i \in {0, 1}, NEW b \in 0..dd.ht[i].size - 1,
           NEW c, c = dd.ht[i].table[b], NEW j \in 1..Len(c)
    PROVE  Successor(dd, c[j].key) = Behind(c, j)
<1> DEFINE k == c[j].key
           t == dd.ht[i]
           keys(l) == [x \in DOMAIN Chain(dd, l, k) |-> Chain(dd, l, k)[x].key]
           p == CHOOSE l \in {0, 1} : Contains(keys(l), k)
           s == keys(p)
           at == CHOOSE x \in DOMAIN s : s[x] = k
<1>1. /\ TableFine(t) /\ t \in Table /\ c \in Seq(Entries) /\ ChainFine(c, t.size, b)
  <2>1. TableFine(t) /\ t \in Table
    BY TablesFine
  <2> QED
    BY <2>1, TableType DEF TableFine
<1>2. k \in Keys /\ c[j] \in Chained(t) /\ Index(k, t) = b
  <2> HIDE DEF t
  <2>1. c = t.table[b] /\ b \in 0..t.size - 1
    BY DEF t
  <2>2. c[j] \in ToSet(c)
    BY <1>1, ChainSet
  <2> QED
    BY <1>1, <2>1, <2>2, OfBucket, ChainKeys
<1>3. Chain(dd, i, k) = c
  <2>1. t.size \in Nat /\ t.size # 0
    BY <1>1, TableType
  <2> QED
    BY <1>2, <2>1 DEF Chain
<1>4. ASSUME NEW l \in {0, 1}
      PROVE  /\ Chain(dd, l, k) \in Seq(Entries) /\ Len(keys(l)) = Len(Chain(dd, l, k))
             /\ DOMAIN keys(l) = 1..Len(Chain(dd, l, k))
             /\ \A x \in 1..Len(Chain(dd, l, k)) : keys(l)[x] = Chain(dd, l, k)[x].key
  <2>1. Chain(dd, l, k) \in Seq(Entries)
    BY <1>2, ChainType
  <2> DEFINE g == Chain(dd, l, k)
             y == [x \in DOMAIN g |-> g[x].key]
  <2> HIDE DEF g
  <2>2. g \in Seq(Entries)
    BY <2>1 DEF g
  <2>3. Len(y) = Len(g) /\ DOMAIN y = 1..Len(g) /\ \A x \in 1..Len(g) : y[x] = g[x].key
    BY <2>2, KeysOfChain
  <2> QED
    BY <2>2, <2>3 DEF g
<1>5. Successor(dd, k) = IF at < Len(s) THEN s[at + 1] ELSE Missing
  BY DEF Successor
<1> HIDE DEF keys
<1>6. ASSUME NEW l \in {0, 1}, Contains(keys(l), k) PROVE l = i
  <2>1. PICK x \in 1..Len(keys(l)) : keys(l)[x] = k
    BY <1>6 DEF Contains
  <2> DEFINE g == Chain(dd, l, k)
  <2>2. g \in Seq(Entries) /\ x \in 1..Len(g) /\ g[x].key = k
    BY <1>4, <2>1
  <2>3. g[x] \in Chained(dd.ht[l])
    <3>1. ToSet(g) \subseteq Chained(dd.ht[l])
      BY <1>2, ChainHolds
    <3> HIDE DEF g
    <3> QED
      BY <2>2, <3>1, ChainSet
  <2> HIDE DEF g, k
  <2>4. k \in KeysOf(dd.ht[l]) /\ k \in KeysOf(dd.ht[i])
    BY <1>2, <2>2, <2>3 DEF KeysOf, k
  <2> QED
    BY <2>4 DEF DictFine
<1>7. Contains(keys(i), k)
  <2>1. j \in 1..Len(keys(i)) /\ keys(i)[j] = k
    BY <1>3, <1>4
  <2> HIDE DEF k
  <2> QED
    BY <2>1 DEF Contains
<1>8. p = i
  BY <1>6, <1>7
<1> HIDE DEF p
<1>9. /\ Len(s) = Len(c) /\ DOMAIN s = 1..Len(c) /\ \A x \in 1..Len(c) : s[x] = c[x].key
  BY <1>3, <1>4, <1>8
<1> HIDE DEF s
<1>10. at = j
  <2>1. \A x \in 1..Len(c) : c[x].key = k => x = j
    BY <1>1 DEF ChainFine
  <2>2. s[j] = k /\ j \in DOMAIN s
    BY <1>9
  <2> HIDE DEF k
  <2> QED
    BY <1>9, <2>1, <2>2
<1> HIDE DEF at
<1>11. j < Len(c) => j + 1 \in 1..Len(c)
  <2>1. Len(c) \in Nat
    BY <1>1
  <2> QED
    BY <2>1
<1>12. Successor(dd, k) = Behind(c, j)
  BY <1>5, <1>9, <1>10, <1>11 DEF Behind
<1> QED
  BY <1>12

\* What is ahead of an iterator in bucket b of table i that hands out the entry of n next.
AheadAt(dd, i, b, n) == Later(dd.ht[i], b, n) \cup (IF i = 0 THEN KeysOf(dd.ht[1]) ELSE {})

LessOne(S, n, T) == \A x : x \in T <=> x \in S /\ x # n

\* Handing out the entry at place j takes its key from what is ahead.
LEMMA AheadNext ==
    ASSUME NEW dd, DictFine(dd), NEW i \in {0, 1}, NEW b \in 0..dd.ht[i].size - 1,
           NEW c, c = dd.ht[i].table[b], NEW j \in 1..Len(c), NEW n, n = c[j].key
    PROVE  LET s == Successor(dd, n)
           IN  /\ n \in AheadAt(dd, i, b, n)
               /\ LessOne(AheadAt(dd, i, b, n), n, AheadAt(dd, i, b, s))
               /\ s # Missing => NotBefore(c, s, s)
<1> DEFINE s == Successor(dd, n)
           t == dd.ht[i]
<1>1. TableFine(t) /\ t \in Table /\ t.size \in Nat /\ c \in Seq(Entries) /\ ChainFine(c, t.size, b)
  <2>1. TableFine(t) /\ t \in Table
    BY TablesFine
  <2> QED
    BY <2>1, TableType DEF TableFine
<1>2. s = Behind(c, j)
  BY SuccessorIs
<1>3. n \in Keys /\ NotBefore(c, n, n)
  BY <1>1, ChainKeys
<1>4. \A k : NotBefore(c, s, k) <=> NotBefore(c, n, k) /\ k # n
  BY <1>1, <1>2, ChainNext
<1>5. s # Missing => NotBefore(c, s, s)
  BY <1>1, <1>2, ChainNext
<1> HIDE DEF s
<1>6. c = t.table[b] /\ b \in 0..t.size - 1
  OBVIOUS
<1>7. ASSUME NEW z \in 0..t.size - 1, NotBefore(t.table[z], n, n) PROVE z = b
  <2>1. ChainFine(t.table[z], t.size, z)
    BY <1>1 DEF TableFine
  <2>2. PICK y \in 1..Len(t.table[z]) : t.table[z][y].key = n
    BY <1>7 DEF NotBefore
  <2>3. Hash[n] % t.size = z
    BY <2>1, <2>2 DEF ChainFine
  <2>4. Hash[n] % t.size = b
    BY <1>1 DEF ChainFine
  <2> QED
    BY <2>3, <2>4
<1>8. i = 0 => n \notin KeysOf(dd.ht[1])
  <2>1. n \in KeysOf(t)
    BY <1>1, <1>3, <1>6, KeysAre
  <2> QED
    BY <2>1 DEF DictFine
<1> HIDE DEF t
<1>9. Later(t, b, s) = Later(t, b, n) \ {n} /\ n \in Later(t, b, n)
  <2>1. ASSUME NEW k \in Keys
        PROVE  k \in Later(t, b, s) <=> k \in Later(t, b, n) /\ k # n
    <3>1. NotBefore(t.table[b], s, k) <=> NotBefore(t.table[b], n, k) /\ k # n
      BY <1>4, <1>6
    <3>2. ASSUME NEW z \in 0..t.size - 1, z > b, NotBefore(t.table[z], k, k) PROVE k # n
      <4>1. z # b
        BY <1>1, <3>2
      <4> QED
        BY <1>7, <3>2, <4>1
    <3> QED
      BY <1>6, <3>1, <3>2 DEF Later
  <2>2. n \in Later(t, b, n)
    BY <1>3, <1>6 DEF Later
  <2>3. Later(t, b, s) \subseteq Keys /\ Later(t, b, n) \subseteq Keys
    BY DEF Later
  <2> QED
    BY <2>1, <2>2, <2>3
<1>10. n \in AheadAt(dd, i, b, n) /\ LessOne(AheadAt(dd, i, b, n), n, AheadAt(dd, i, b, s))
  BY <1>8, <1>9 DEF AheadAt, LessOne, t
<1> QED
  BY <1>5, <1>10 DEF s

\* The keys of the buckets from b on.
FromBucket(t, b) == {k \in Keys : \E x \in 0..t.size - 1 : x >= b /\ NotBefore(t.table[x], k, k)}

LEMMA LaterNone ==
    ASSUME NEW t \in Table, NEW b \in Int
    PROVE  Later(t, b, Missing) = FromBucket(t, b + 1)
<1>1. t.size \in Nat /\ t.table \in [0..t.size - 1 -> Seq(Entries)]
  BY TableType
<1>2. \A k : b \in 0..t.size - 1 => ~NotBefore(t.table[b], Missing, k)
  BY <1>1, NoneBehind
<1>3. \A x \in 0..t.size - 1 : x > b <=> x >= b + 1
  BY <1>1
<1> QED
  BY <1>2, <1>3 DEF Later, FromBucket

LEMMA LaterHead ==
    ASSUME NEW t \in Table, NEW b \in 0..t.size - 1, t.table[b] # <<>>
    PROVE  Later(t, b, Head(t.table[b]).key) = FromBucket(t, b)
<1> DEFINE c == t.table[b]
           n == c[1].key
<1>1. t.size \in Nat /\ c \in Seq(Entries)
  BY TableType
<1>2. Head(c) = c[1]
  BY <1>1
<1>3. \A k : NotBefore(c, n, k) <=> NotBefore(c, k, k)
  BY <1>1, HeadFirst
<1> HIDE DEF n
<1>4. \A x \in 0..t.size - 1 : x >= b <=> x > b \/ x = b
  BY <1>1
<1>5. Later(t, b, n) = FromBucket(t, b)
  <2>1. ASSUME NEW k \in Keys PROVE k \in Later(t, b, n) <=> k \in FromBucket(t, b)
    BY <1>3, <1>4 DEF Later, FromBucket
  <2>2. Later(t, b, n) \subseteq Keys /\ FromBucket(t, b) \subseteq Keys
    BY DEF Later, FromBucket
  <2> QED
    BY <2>1, <2>2
<1> QED
  BY <1>2, <1>5 DEF n

\* Buckets without a chain are passed over.
LEMMA FromFirst ==
    ASSUME NEW t \in Table, NEW from \in Nat,
           NEW S, S = {x \in from..t.size - 1 : t.table[x] # <<>>}
    PROVE  /\ S = {} => FromBucket(t, from) = {}
           /\ S # {} => /\ Min(S) \in 0..t.size - 1 /\ t.table[Min(S)] # <<>>
                        /\ FromBucket(t, Min(S)) = FromBucket(t, from)
<1>1. t.size \in Nat
  BY TableType
<1>2. ASSUME NEW k, NEW x \in 0..t.size - 1, x >= from, NotBefore(t.table[x], k, k) PROVE x \in S
  <2>1. t.table[x] # <<>>
    BY <1>2, NotBeforeSome
  <2>2. x \in from..t.size - 1
    BY <1>1, <1>2
  <2> QED
    BY <2>1, <2>2
<1>3. S = {} => FromBucket(t, from) = {}
  BY <1>2 DEF FromBucket
<1>4. ASSUME S # {}
      PROVE  /\ Min(S) \in 0..t.size - 1 /\ t.table[Min(S)] # <<>>
             /\ FromBucket(t, Min(S)) = FromBucket(t, from)
  <2>1. S \in SUBSET Nat
    BY <1>1
  <2> DEFINE m == Min(S)
  <2>2. m \in S /\ \A x \in S : m <= x
    BY <1>4, <2>1, LeastOf
  <2> HIDE DEF m
  <2>3. m \in 0..t.size - 1 /\ t.table[m] # <<>> /\ m >= from
    BY <1>1, <2>2
  <2>4. ASSUME NEW k, NEW x \in 0..t.size - 1, NotBefore(t.table[x], k, k)
        PROVE  x >= m <=> x >= from
    <3>1. x >= from => x >= m
      BY <1>2, <2>1, <2>2, <2>4
    <3>2. x >= m => x >= from
      BY <1>1, <2>3
    <3> QED
      BY <3>1, <3>2
  <2>5. FromBucket(t, m) = FromBucket(t, from)
    BY <2>4 DEF FromBucket
  <2> QED
    BY <2>3, <2>5 DEF m
<1> QED
  BY <1>3, <1>4

LEMMA KeysFrom ==
    ASSUME NEW t \in Table
    PROVE  KeysOf(t) = FromBucket(t, 0)
<1>1. t.size \in Nat
  BY TableType
<1>2. \A x \in 0..t.size - 1 : x >= 0
  BY <1>1
<1>3. \A k \in Keys : k \in KeysOf(t) <=> k \in FromBucket(t, 0)
  BY <1>2, KeysAre DEF FromBucket
<1> QED
  BY <1>3, KeysType DEF FromBucket

\* The next bucket begins what is ahead; if there is none, nothing is.
LEMMA AheadBucket ==
    ASSUME NEW dd, DictFine(dd), NEW it, Placed(it), it.next = Missing
    PROVE  /\ NextBucket(dd, it) = {} => Ahead(it, dd) = {}
           /\ NextBucket(dd, it) # {} =>
                \E i \in {0, 1} : \E b \in 0..dd.ht[i].size - 1 :
                  /\ NextBucket(dd, it) = {<<i, b>>} /\ dd.ht[i].table[b] # <<>>
                  /\ AheadAt(dd, i, b, Head(dd.ht[i].table[b]).key) = Ahead(it, dd)
<1> DEFINE full(i, from) == {b \in from..dd.ht[i].size - 1 : dd.ht[i].table[b] # <<>>}
           p == it.table
           f == it.index + 1
           t == dd.ht[p]
           u == dd.ht[1]
           here == full(p, f)
           back == full(1, 0)
           there == IF p = 0 /\ dictIsRehashing(dd) THEN back ELSE {}
<1>1. p \in {0, 1} /\ f \in Nat /\ it.index \in Int
  BY DEF Placed
<1>2. t \in Table /\ u \in Table
  BY <1>1, TablesFine
<1>3. NextBucket(dd, it) = IF here # {} THEN {<<p, Min(here)>>}
                           ELSE IF there # {} THEN {<<1, Min(there)>>} ELSE {}
  BY DEF NextBucket
<1>4. here = {x \in f..t.size - 1 : t.table[x] # <<>>} /\ back = {x \in 0..u.size - 1 : u.table[x] # <<>>}
  OBVIOUS
<1>5. Ahead(it, dd) = FromBucket(t, f) \cup (IF p = 0 THEN FromBucket(u, 0) ELSE {})
  <2>1. Later(t, it.index, Missing) = FromBucket(t, f)
    BY <1>1, <1>2, LaterNone
  <2>2. KeysOf(u) = FromBucket(u, 0)
    BY <1>2, KeysFrom
  <2> QED
    BY <2>1, <2>2 DEF Ahead
<1>6. p = 0 /\ ~dictIsRehashing(dd) => FromBucket(u, 0) = {}
  <2> SUFFICES ASSUME ~dictIsRehashing(dd) PROVE FromBucket(u, 0) = {}
    OBVIOUS
  <2>1. u.size = 0
    BY DEF DictFine
  <2> QED
    BY <2>1 DEF FromBucket
<1> HIDE DEF full
<1>7. CASE here # {}
  <2> DEFINE b == Min(here)
  <2>1. b \in 0..t.size - 1 /\ t.table[b] # <<>> /\ FromBucket(t, b) = FromBucket(t, f)
    <3> HIDE DEF here, t, f
    <3> QED
      BY <1>1, <1>2, <1>4, <1>7, FromFirst
  <2>2. NextBucket(dd, it) = {<<p, b>>}
    BY <1>3, <1>7
  <2> HIDE DEF b, here
  <2>3. Later(t, b, Head(t.table[b]).key) = FromBucket(t, f)
    <3> HIDE DEF t, f
    <3> QED
      BY <1>2, <2>1, LaterHead
  <2>4. AheadAt(dd, p, b, Head(t.table[b]).key) = Ahead(it, dd)
    <3>1. KeysOf(u) = FromBucket(u, 0)
      BY <1>2, KeysFrom
    <3> QED
      BY <1>5, <2>3, <3>1 DEF AheadAt
  <2>5. NextBucket(dd, it) # {}
    BY <2>2
  <2> HIDE DEF p
  <2> QED
    BY <1>1, <2>1, <2>2, <2>4, <2>5
<1>8. CASE here = {}
  <2>1. FromBucket(t, f) = {}
    <3> HIDE DEF here, t, f
    <3> QED
      BY <1>1, <1>2, <1>4, <1>8, FromFirst
  <2>2. CASE there = {}
    <3>1. p = 0 => FromBucket(u, 0) = {}
      <4>1. CASE p = 0 /\ dictIsRehashing(dd)
        <5>1. back = {}
          BY <2>2, <4>1
        <5> HIDE DEF back, u
        <5>2. 0 \in Nat
          OBVIOUS
        <5> QED
          BY <1>2, <1>4, <5>1, <5>2, FromFirst
      <4> QED
        BY <1>6, <4>1
    <3>2. Ahead(it, dd) = {}
      BY <1>5, <2>1, <3>1
    <3>3. NextBucket(dd, it) = {}
      BY <1>3, <1>8, <2>2
    <3> QED
      BY <3>2, <3>3
  <2>3. CASE there # {}
    <3> DEFINE b == Min(back)
    <3>1. p = 0 /\ there = back /\ back # {}
      BY <2>3
    <3>2. NextBucket(dd, it) = {<<1, b>>}
      BY <1>3, <1>8, <2>3, <3>1
    <3>3. b \in 0..u.size - 1 /\ u.table[b] # <<>> /\ FromBucket(u, b) = FromBucket(u, 0)
      <4> HIDE DEF back, u
      <4>1. 0 \in Nat
        OBVIOUS
      <4> QED
        BY <1>2, <1>4, <3>1, <4>1, FromFirst
    <3> HIDE DEF b, back, there
    <3>4. Later(u, b, Head(u.table[b]).key) = FromBucket(u, 0)
      <4> HIDE DEF u
      <4> QED
        BY <1>2, <3>3, LaterHead
    <3>5. AheadAt(dd, 1, b, Head(u.table[b]).key) = Ahead(it, dd)
      BY <1>5, <2>1, <3>1, <3>4 DEF AheadAt
    <3>6. 1 \in {0, 1} /\ NextBucket(dd, it) # {}
      BY <3>2
    <3> HIDE DEF p
    <3> QED
      BY <3>2, <3>3, <3>5, <3>6
  <2> QED
    BY <2>2, <2>3
<1> QED
  BY <1>7, <1>8

-----------------------------------------------------------------------------
(* A step of the iterator.                                                 *)

\* What dictNext does after it has begun.
Stepped(it) ==
    LET after == NextBucket(d, it)
    IN IF it.next # Missing THEN HandOut(it, it.next)
       ELSE IF after = {} THEN Ended(it, TRUE, 1, 0, FALSE)
       ELSE LET to == CHOOSE to \in after : TRUE
            IN HandOut(Moved(it, to[1], to[2]), Head(d.ht[to[1]].table[to[2]]).key)

\* What a step leaves as it was.
Stays(it, y) == /\ y.open = it.open /\ y.safe = it.safe /\ y.fingerprint = it.fingerprint
                /\ y.lost = it.lost

\* y is what is left of it at bucket b of table i, after the entry of k.
HandedFrom(it, i, b, k, y) ==
    /\ Stays(it, y) /\ y.table = i /\ y.index = b /\ y.next = Successor(d, k) /\ y.done = it.done
    /\ y.owed <=> it.owed /\ k # watched
    /\ y.given <=> it.given \/ k = watched
    /\ y.twice <=> it.twice \/ (k = watched /\ it.given)

\* The entry at place j of bucket b of table i is handed out.
LEMMA TakenUpright ==
    ASSUME DictFine(d), NEW i \in {0, 1}, NEW b \in 0..d.ht[i].size - 1,
           NEW j \in 1..Len(d.ht[i].table[b]), NEW k, k = d.ht[i].table[b][j].key,
           NEW it, ~it.twice, ~it.done,
           it.owed => watched \in AheadAt(d, i, b, k),
           it.given => watched \in HeldKeys(d) \ AheadAt(d, i, b, k),
           NEW y, HandedFrom(it, i, b, k, y)
    PROVE  Upright(y, d, watched)
<1> DEFINE c == d.ht[i].table[b]
           s == Successor(d, k)
           before == AheadAt(d, i, b, k)
           now == AheadAt(d, i, b, s)
<1>1. /\ k \in before /\ \A x : x \in now <=> x \in before /\ x # k
      /\ s # Missing => NotBefore(c, s, s)
  <2>1. c = d.ht[i].table[b] /\ j \in 1..Len(c) /\ k = c[j].key
    OBVIOUS
  <2> HIDE DEF c
  <2>2. k \in AheadAt(d, i, b, k)
    BY <2>1, AheadNext
  <2>3. LessOne(AheadAt(d, i, b, k), k, AheadAt(d, i, b, s))
    BY <2>1, AheadNext
  <2>4. s # Missing => NotBefore(c, s, s)
    BY <2>1, AheadNext
  <2> QED
    BY <2>2, <2>3, <2>4 DEF LessOne
<1>h. /\ y.table = i /\ y.index = b /\ y.next = s /\ y.done = it.done
      /\ y.owed <=> it.owed /\ k # watched
      /\ y.given <=> it.given \/ k = watched
      /\ y.twice <=> it.twice \/ (k = watched /\ it.given)
  BY DEF HandedFrom
<1>2. k \in HeldKeys(d)
  <2>1. d.ht[i] \in Table /\ c \in Seq(Entries)
    BY TablesFine, TableType
  <2>2. NotBefore(c, k, k)
    <3> HIDE DEF c
    <3>1. j \in 1..Len(c) /\ k = c[j].key
      BY DEF c
    <3> QED
      BY <2>1, <3>1, ChainKeys
  <2>3. k \in KeysOf(d.ht[i])
    BY <2>1, <2>2, KeysAre
  <2> QED
    BY <2>3 DEF HeldKeys
<1>3. Ahead(y, d) = now
  BY <1>h DEF Ahead, AheadAt
<1>4. y.table = 1 => d.ht[1].size # 0
  <2> SUFFICES ASSUME y.table = 1, d.ht[1].size = 0 PROVE FALSE
    OBVIOUS
  <2>1. b \in 0..0 - 1
    BY <1>h
  <2> QED
    BY <2>1
<1>5. y.next # Missing => /\ y.index \in 0..d.ht[y.table].size - 1
                          /\ NotBefore(d.ht[y.table].table[y.index], y.next, y.next)
  BY <1>1, <1>h
<1> HIDE DEF before, now
<1>6. y.owed => watched \in now
  BY <1>1, <1>h DEF before
<1>7. y.given => watched \in HeldKeys(d) \ now
  BY <1>1, <1>2, <1>h DEF before
<1>8. ~y.twice
  BY <1>1, <1>h DEF before
<1> QED
  BY <1>3, <1>4, <1>5, <1>6, <1>7, <1>8, <1>h DEF Upright, Clean

LEMMA HandOutAt ==
    ASSUME NEW it, IterShape(it), NEW k
    PROVE  HandedFrom(it, it.table, it.index, k, HandOut(it, k))
<1> DEFINE n == Successor(d, k)
           o == it.owed /\ k # watched
           g == it.given \/ k = watched
           w == it.twice \/ (k = watched /\ it.given)
           y == HandOut(it, k)
<1>1. y = [open |-> it.open, safe |-> it.safe, table |-> it.table, index |-> it.index,
           next |-> n, fingerprint |-> it.fingerprint, owed |-> o, given |-> g,
           twice |-> w, done |-> it.done, lost |-> it.lost]
  BY HandedIs
<1> HIDE DEF n, o, g, w, y
<1>2. /\ y.open = it.open /\ y.safe = it.safe /\ y.fingerprint = it.fingerprint /\ y.lost = it.lost
      /\ y.table = it.table /\ y.index = it.index /\ y.next = n /\ y.done = it.done
  BY <1>1
<1>3. y.owed = o
  BY <1>1
<1>4. y.given = g
  BY <1>1
<1>5. y.twice = w
  BY <1>1
<1>6. (y.owed <=> o) /\ (y.given <=> g) /\ (y.twice <=> w)
  BY <1>3, <1>4, <1>5
<1> QED
  BY <1>2, <1>6 DEF HandedFrom, Stays, n, o, g, w, y

LEMMA HandOutMoved ==
    ASSUME NEW it, IterShape(it), NEW i, NEW b, NEW k
    PROVE  HandedFrom(it, i, b, k, HandOut(Moved(it, i, b), k))
<1> DEFINE x == Moved(it, i, b)
           y == HandOut(x, k)
<1>1. IterShape(x) /\ x.table = i /\ x.index = b
  BY IterMoved
<1>2. x = [open |-> it.open, safe |-> it.safe, table |-> i, index |-> b,
           next |-> it.next, fingerprint |-> it.fingerprint, owed |-> it.owed, given |-> it.given,
           twice |-> it.twice, done |-> it.done, lost |-> it.lost]
  BY MovedIs
<1> HIDE DEF x
<1>3. /\ x.open = it.open /\ x.safe = it.safe /\ x.fingerprint = it.fingerprint /\ x.lost = it.lost
      /\ x.owed = it.owed /\ x.given = it.given /\ x.twice = it.twice /\ x.done = it.done
  BY <1>2
<1>4. HandedFrom(x, x.table, x.index, k, y)
  BY <1>1, HandOutAt
<1> HIDE DEF y
<1>5. HandedFrom(it, i, b, k, y)
  BY <1>1, <1>3, <1>4 DEF HandedFrom, Stays
<1> QED
  BY <1>5 DEF x, y

LEMMA EndedAt ==
    ASSUME NEW it, IterShape(it)
    PROVE  LET y == Ended(it, TRUE, 1, 0, FALSE)
           IN  Stays(it, y) /\ y.table = 1 /\ y.done /\ y.owed = it.owed /\ y.twice = it.twice
<1> DEFINE p == TRUE
           i == 1
           b == 0
           g == FALSE
           y == Ended(it, p, i, b, g)
<1> HIDE DEF p, i, b, g
<1>1. y = [open |-> it.open, safe |-> it.safe, table |-> i, index |-> b,
           next |-> it.next, fingerprint |-> it.fingerprint, owed |-> it.owed, given |-> g,
           twice |-> it.twice, done |-> p, lost |-> it.lost]
  BY EndedIs
<1> HIDE DEF y
<1>2. /\ y.open = it.open /\ y.safe = it.safe /\ y.fingerprint = it.fingerprint /\ y.lost = it.lost
      /\ y.table = i /\ y.owed = it.owed /\ y.twice = it.twice /\ y.done = p
  BY <1>1
<1>3. Stays(it, y) /\ y.table = 1 /\ y.done /\ y.owed = it.owed /\ y.twice = it.twice
  BY <1>2 DEF Stays, p, i
<1> QED
  BY <1>3 DEF y, p, i, b, g

\* The iterator went on to the first entry of a bucket.
WentOn(it, y) ==
    \E i \in {0, 1} : \E b \in 0..d.ht[i].size - 1 :
      /\ d.ht[i].table[b] # <<>>
      /\ AheadAt(d, i, b, Head(d.ht[i].table[b]).key) = Ahead(it, d)
      /\ HandedFrom(it, i, b, Head(d.ht[i].table[b]).key, y)

\* dictNext takes the saved entry, or the first of the next bucket, or there is none.
LEMMA SteppedIs ==
    ASSUME DictFine(d), NEW it, IterShape(it), Placed(it), NEW y, y = Stepped(it)
    PROVE  \/ it.next # Missing /\ HandedFrom(it, it.table, it.index, it.next, y)
           \/ it.next = Missing /\ NextBucket(d, it) = {} /\ y = Ended(it, TRUE, 1, 0, FALSE)
           \/ it.next = Missing /\ WentOn(it, y)
<1> DEFINE after == NextBucket(d, it)
           to == CHOOSE to \in after : TRUE
<1>1. y = IF it.next # Missing THEN HandOut(it, it.next)
          ELSE IF after = {} THEN Ended(it, TRUE, 1, 0, FALSE)
          ELSE HandOut(Moved(it, to[1], to[2]), Head(d.ht[to[1]].table[to[2]]).key)
  BY DEF Stepped
<1>2. CASE it.next # Missing
  BY <1>1, <1>2, HandOutAt
<1>3. CASE it.next = Missing /\ after = {}
  BY <1>1, <1>3
<1>4. CASE it.next = Missing /\ after # {}
  <2>1. PICK i \in {0, 1} : \E b \in 0..d.ht[i].size - 1 :
          /\ after = {<<i, b>>} /\ d.ht[i].table[b] # <<>>
          /\ AheadAt(d, i, b, Head(d.ht[i].table[b]).key) = Ahead(it, d)
    BY <1>4, AheadBucket
  <2>2. PICK b \in 0..d.ht[i].size - 1 :
          /\ after = {<<i, b>>} /\ d.ht[i].table[b] # <<>>
          /\ AheadAt(d, i, b, Head(d.ht[i].table[b]).key) = Ahead(it, d)
    BY <2>1
  <2>3. to[1] = i /\ to[2] = b
    <3>1. to = <<i, b>>
      BY <2>2
    <3> HIDE DEF to
    <3> QED
      BY <3>1
  <2> HIDE DEF to
  <2> DEFINE k == Head(d.ht[i].table[b]).key
  <2>4. y = HandOut(Moved(it, i, b), k)
    BY <1>1, <1>4, <2>3
  <2> HIDE DEF k
  <2>5. HandedFrom(it, i, b, k, y)
    BY <2>4, HandOutMoved
  <2> QED
    BY <1>4, <2>2, <2>5 DEF k, WentOn
<1> QED
  BY <1>2, <1>3, <1>4

LEMMA SteppedStays ==
    ASSUME DictFine(d), NEW it, IterShape(it), Placed(it), it.next # Missing => Started(it),
           NEW y, y = Stepped(it)
    PROVE  Stays(it, y) /\ Started(y)
<1>1. CASE it.next # Missing /\ HandedFrom(it, it.table, it.index, it.next, y)
  BY <1>1 DEF HandedFrom, Started
<1>2. CASE y = Ended(it, TRUE, 1, 0, FALSE)
  <2>1. Stays(it, y) /\ y.table = 1
    BY <1>2, EndedAt
  <2> QED
    BY <2>1 DEF Started
<1>3. CASE WentOn(it, y)
  <2>a. PICK i \in {0, 1} : \E b \in 0..d.ht[i].size - 1 :
          HandedFrom(it, i, b, Head(d.ht[i].table[b]).key, y)
    BY <1>3 DEF WentOn
  <2>b. PICK b \in 0..d.ht[i].size - 1 : HandedFrom(it, i, b, Head(d.ht[i].table[b]).key, y)
    BY <2>a
  <2>1. b # -1
    <3>1. d.ht[i].size \in Nat
      BY TablesFine
    <3> QED
      BY <3>1
  <2> QED
    BY <2>b, <2>1 DEF HandedFrom, Started
<1> QED
  BY <1>1, <1>2, <1>3, SteppedIs

\* A step keeps what was given and owed right.
LEMMA SteppedUpright ==
    ASSUME DictFine(d), NEW it, IterShape(it), Placed(it), ~it.done, Upright(it, d, watched),
           NEW y, y = Stepped(it)
    PROVE  Upright(y, d, watched)
<1>1. ~it.twice /\ Clean(it, d, watched)
  BY DEF Upright
<1>2. CASE it.next # Missing /\ HandedFrom(it, it.table, it.index, it.next, y)
  <2> DEFINE i == it.table
             b == it.index
             k == it.next
             c == d.ht[i].table[b]
  <2>1. i \in {0, 1} /\ b \in 0..d.ht[i].size - 1 /\ NotBefore(c, k, k)
    BY <1>1, <1>2 DEF Clean, Placed
  <2>2. PICK j \in 1..Len(c) : c[j].key = k
    BY <2>1 DEF NotBefore
  <2>3. AheadAt(d, i, b, k) = Ahead(it, d)
    BY DEF AheadAt, Ahead
  <2>4. /\ it.owed => watched \in AheadAt(d, i, b, k)
        /\ it.given => watched \in HeldKeys(d) \ AheadAt(d, i, b, k)
    BY <1>1, <2>3 DEF Clean
  <2>5. HandedFrom(it, i, b, k, y)
    BY <1>2
  <2>6. k = d.ht[i].table[b][j].key /\ j \in 1..Len(d.ht[i].table[b])
    BY <2>2
  <2> HIDE DEF i, b, k, c
  <2> QED
    BY <1>1, <2>1, <2>4, <2>5, <2>6, TakenUpright
<1>3. CASE it.next = Missing /\ NextBucket(d, it) = {} /\ y = Ended(it, TRUE, 1, 0, FALSE)
  <2>1. Ahead(it, d) = {}
    BY <1>3, AheadBucket
  <2>2. ~it.owed
    BY <1>1, <2>1 DEF Clean
  <2>3. y.done /\ y.owed = it.owed /\ y.twice = it.twice
    BY <1>3, EndedAt
  <2> QED
    BY <1>1, <2>2, <2>3 DEF Upright
<1>4. CASE it.next = Missing /\ WentOn(it, y)
  <2>a. PICK i \in {0, 1} : \E b \in 0..d.ht[i].size - 1 :
          /\ d.ht[i].table[b] # <<>>
          /\ AheadAt(d, i, b, Head(d.ht[i].table[b]).key) = Ahead(it, d)
          /\ HandedFrom(it, i, b, Head(d.ht[i].table[b]).key, y)
    BY <1>4 DEF WentOn
  <2>b. PICK b \in 0..d.ht[i].size - 1 :
          /\ d.ht[i].table[b] # <<>>
          /\ AheadAt(d, i, b, Head(d.ht[i].table[b]).key) = Ahead(it, d)
          /\ HandedFrom(it, i, b, Head(d.ht[i].table[b]).key, y)
    BY <2>a
  <2> DEFINE c == d.ht[i].table[b]
             k == Head(c).key
  <2>1. c \in Seq(Entries)
    <3>1. d.ht[i] \in Table
      BY TablesFine
    <3> QED
      BY <3>1, TableType
  <2>2. k = c[1].key /\ 1 \in 1..Len(c)
    <3>1. c # <<>>
      BY <2>b
    <3> HIDE DEF c
    <3> QED
      BY <2>1, <3>1
  <2>3. /\ it.owed => watched \in AheadAt(d, i, b, k)
        /\ it.given => watched \in HeldKeys(d) \ AheadAt(d, i, b, k)
    BY <1>1, <2>b DEF Clean
  <2>4. HandedFrom(it, i, b, k, y)
    BY <2>b
  <2>5. k = d.ht[i].table[b][1].key /\ 1 \in 1..Len(d.ht[i].table[b])
    BY <2>2
  <2> HIDE DEF k, c
  <2> QED
    BY <1>1, <2>3, <2>4, <2>5, TakenUpright
<1> QED
  BY <1>2, <1>3, <1>4, SteppedIs

LEMMA BegunAt ==
    ASSUME NEW it, IterShape(it), NEW o, NEW f
    PROVE  LET y == Begun(it, o, f)
           IN  /\ IterShape(y) /\ y.table = it.table /\ y.index = it.index /\ y.next = it.next
               /\ y.open = it.open /\ y.safe = it.safe /\ y.given = it.given /\ y.twice = it.twice
               /\ y.done = it.done /\ y.lost = it.lost /\ y.owed = o /\ y.fingerprint = f
<1> DEFINE y == Begun(it, o, f)
<1>1. y = [open |-> it.open, safe |-> it.safe, table |-> it.table, index |-> it.index,
           next |-> it.next, fingerprint |-> f, owed |-> o, given |-> it.given,
           twice |-> it.twice, done |-> it.done, lost |-> it.lost]
  BY BegunIs
<1> HIDE DEF y
<1>2. /\ IterShape(y) /\ y.table = it.table /\ y.index = it.index /\ y.next = it.next
      /\ y.open = it.open /\ y.safe = it.safe /\ y.given = it.given /\ y.twice = it.twice
      /\ y.done = it.done /\ y.lost = it.lost /\ y.owed = o /\ y.fingerprint = f
  BY <1>1 DEF IterShape
<1> QED
  BY <1>2 DEF y

\* At the beginning all is ahead.
LEMMA AllAhead ==
    ASSUME NEW dd, DictFine(dd), NEW it, it.table = 0, it.index = -1, it.next = Missing
    PROVE  Ahead(it, dd) = HeldKeys(dd)
<1> DEFINE t == dd.ht[0]
<1>1. t \in Table
  BY TablesFine
<1>2. Later(t, -1, Missing) = KeysOf(t)
  <2> DEFINE b == -1
  <2>1. b \in Int /\ b + 1 = 0
    OBVIOUS
  <2> HIDE DEF t, b
  <2>2. Later(t, b, Missing) = FromBucket(t, 0)
    BY <1>1, <2>1, LaterNone
  <2>3. KeysOf(t) = FromBucket(t, 0)
    BY <1>1, KeysFrom
  <2> QED
    BY <2>2, <2>3 DEF b
<1> QED
  BY <1>2 DEF Ahead, HeldKeys

LEMMA BegunUpright ==
    ASSUME DictInv, NEW it, it.table = 0, it.index = -1, it.next = Missing,
           it.owed => watched \in Present, ~it.given, ~it.twice, ~it.done
    PROVE  Upright(it, d, watched)
<1>1. DictFine(d) /\ Content(d) = MapOf(map)
  BY DEF DictInv, Represents
<1>2. ASSUME it.owed PROVE watched \in Ahead(it, d)
  <2>1. watched \in KeysIn(map)
    BY <1>2 DEF Present, KeysIn
  <2> DEFINE e == [key |-> watched, val |-> map[watched]]
  <2>2. e \in Content(d) /\ e.key = watched
    BY <1>1, <2>1, MapEntry
  <2>3. watched \in HeldKeys(d)
    BY <2>2, HeldAre
  <2> HIDE DEF e
  <2> QED
    BY <1>1, <2>3, AllAhead
<1>3. Clean(it, d, watched)
  BY <1>2 DEF Clean
<1> QED
  BY <1>3 DEF Upright

\* A safe iterator has made no mistake; another has made none, or the dictionary has changed.
Sound(it, dd, w) ==
    IF it.safe THEN Upright(it, dd, w)
    ELSE /\ it.fingerprint \in Prints
         /\ \/ Changed(it.fingerprint, Fingerprint(dd))
            \/ it.fingerprint = Fingerprint(dd) /\ Upright(it, dd, w)

LEMMA IterNextCourse ==
    ASSUME DictInv, CourseInv, IterNext
    PROVE  CourseInv'
<1> DEFINE o == watched \in Present
           f == IF iter.safe THEN <<>> ELSE Fingerprint(d)
           first == ~Started(iter)
           it == IF ~first THEN iter ELSE Begun(iter, o, f)
           y == iter'
<1>1. /\ DictFine(d) /\ d \in Dicts /\ IterShape(iter) /\ Placed(iter)
      /\ iter.next \in Keys \cup {Missing} /\ (first => iter.next = Missing) /\ watched \in Keys
      /\ IterWay(iter, d, spoiled, watched)
  BY DEF DictInv, Represents, DictFine, IterFine, KeysIn, CourseInv
<1>2. /\ iter.open /\ ~iter.done /\ ~iter.lost /\ watched' = watched /\ spoiled' = spoiled
      /\ d' = IF first /\ iter.safe THEN [d EXCEPT !.iterators = d.iterators + 1] ELSE d
  BY DEF IterNext
<1>3. y = Stepped(it)
  BY DEF IterNext, Begun, Moved, Ended, Stepped
<1> HIDE DEF y
<1>4. LET z == Begun(iter, o, f)
      IN  /\ IterShape(z) /\ z.table = iter.table /\ z.index = iter.index /\ z.next = iter.next
          /\ z.open = iter.open /\ z.safe = iter.safe /\ z.given = iter.given /\ z.twice = iter.twice
          /\ z.done = iter.done /\ z.lost = iter.lost /\ z.owed = o /\ z.fingerprint = f
  <2> HIDE DEF o, f
  <2> QED
    BY <1>1, BegunAt
<1> HIDE DEF o, f
<1>5. /\ IterShape(it) /\ it.table = iter.table /\ it.index = iter.index /\ it.next = iter.next
      /\ it.open = iter.open /\ it.safe = iter.safe /\ it.done = iter.done /\ it.lost = iter.lost
  BY <1>1, <1>4
<1>6. ~spoiled => Sound(it, d, watched)
  <2> SUFFICES ASSUME ~spoiled PROVE Sound(it, d, watched)
    OBVIOUS
  <2>1. CASE ~first
    <3>1. OnCourse(iter, d, watched) /\ it = iter
      BY <1>1, <1>2, <2>1 DEF IterWay
    <3> QED
      BY <3>1 DEF OnCourse, Sound
  <2>2. CASE first
    <3>1. it.given = iter.given /\ it.twice = iter.twice /\ it.owed = o /\ it.fingerprint = f
      BY <1>4, <2>2
    <3>2. it.table = 0 /\ it.index = -1 /\ it.next = Missing
      BY <1>1, <1>5, <2>2 DEF Started
    <3>3. ~iter.given /\ ~iter.twice
      BY <1>1, <2>2 DEF IterWay
    <3> HIDE DEF it
    <3>4. ~it.given /\ ~it.twice /\ ~it.done
      BY <1>2, <1>5, <3>1, <3>3
    <3>5. it.owed => watched \in Present
      BY <3>1 DEF o
    <3>6. Upright(it, d, watched)
      BY <3>2, <3>4, <3>5, BegunUpright
    <3>7. ~it.safe => it.fingerprint = Fingerprint(d)
      BY <1>5, <3>1 DEF f
    <3>8. Fingerprint(d) \in Prints
      BY <1>1, PrintOf
    <3> QED
      BY <3>6, <3>7, <3>8 DEF Sound
  <2> QED
    BY <2>1, <2>2
<1>7. Placed(it) /\ (it.next # Missing => Started(it)) /\ (Started(it) <=> Started(iter))
  BY <1>1, <1>5 DEF Placed, Started
<1> HIDE DEF it
<1>8. Stays(it, y) /\ Started(y)
  BY <1>1, <1>3, <1>5, <1>7, SteppedStays
<1>9. Upright(it, d, watched) => Upright(y, d, watched)
  BY <1>1, <1>2, <1>3, <1>5, <1>7, SteppedUpright
<1>10. ~spoiled => Sound(y, d, watched)
  BY <1>6, <1>8, <1>9 DEF Sound, Stays
<1>11. d'.ht = d.ht /\ d'.iterators = IF first /\ iter.safe THEN d.iterators + 1 ELSE d.iterators
  BY <1>1, <1>2 DEF Dicts
<1>12. Fingerprint(d') = Fingerprint(d) /\ (Upright(y, d, watched) => Upright(y, d', watched))
  BY <1>11, PrintSame, CleanSame DEF Upright
<1>13. ~spoiled => d'.iterators = IF iter.safe THEN 1 ELSE 0
  <2> SUFFICES ASSUME ~spoiled PROVE d'.iterators = IF iter.safe THEN 1 ELSE 0
    OBVIOUS
  <2>1. d.iterators = IF iter.safe /\ ~first THEN 1 ELSE 0
    BY <1>1, <1>2 DEF IterWay
  <2> QED
    BY <1>11, <2>1
<1>14. y.open /\ y.safe = iter.safe /\ ~y.lost
  BY <1>2, <1>5, <1>8 DEF Stays
<1>15. ~spoiled => OnCourse(y, d', watched)
  BY <1>10, <1>12, <1>13, <1>14 DEF Sound, OnCourse
<1>16. spoiled => iter.safe
  BY <1>1, <1>2 DEF IterWay
<1>17. IterWay(y, d', spoiled, watched)
  BY <1>8, <1>13, <1>14, <1>15, <1>16 DEF IterWay
<1> QED
  BY <1>1, <1>2, <1>17 DEF CourseInv, y

LEMMA ResizeCourse ==
    ASSUME DictInv, CourseInv, Resize
    PROVE  CourseInv'
<1> DEFINE n == Max({d.ht[0].used, InitialSize})
<1>1. n \in Nat /\ Resized(dictExpand(d, n))
  BY ResizeTo DEF Resize
<1> HIDE DEF n
<1> QED
  BY <1>1, ResizedCourse

LEMMA CourseKeeps == DictInv /\ CourseInv /\ [DictNext]_dictVars => CourseInv'
<1> SUFFICES ASSUME DictInv, CourseInv, [DictNext]_dictVars PROVE CourseInv'
  OBVIOUS
<1>1. ASSUME NEW k \in Keys, NEW v \in Vals, Add(k, v) PROVE CourseInv'
  BY <1>1, AddCourse
<1>2. ASSUME NEW k \in Keys, NEW v \in Vals, Replace(k, v) PROVE CourseInv'
  BY <1>2, ReplaceCourse
<1>3. ASSUME NEW k \in Keys, Delete(k) PROVE CourseInv'
  BY <1>3, DeleteCourse
<1>4. ASSUME NEW k \in Keys, Fetch(k) PROVE CourseInv'
  <2>1. d' = Find(d) /\ Aside
    BY <1>4 DEF Fetch
  <2> QED
    BY <2>1, StepCourse
<1>5. CASE RandomKey
  <2>1. d' = RehashStep(d) /\ Aside
    BY <1>5 DEF RandomKey
  <2> QED
    BY <2>1, StepCourse
<1>6. ASSUME NEW count \in 1..2, SomeKeys(count) PROVE CourseInv'
  BY <1>6, SomeKeysCourse
<1>7. ASSUME NEW n \in Sizes, Expand(n) PROVE CourseInv'
  <2>1. n \in Nat /\ Resized(dictExpand(d, n))
    BY <1>7, SizeAssumption DEF Expand
  <2> QED
    BY <2>1, ResizedCourse
<1>8. CASE Resize
  BY <1>8, ResizeCourse
<1>9. ASSUME NEW n \in 1..2, Rehash(n) PROVE CourseInv'
  BY <1>9, RehashCourse
<1>10. ASSUME NEW b \in BOOLEAN, SetResize(b) PROVE CourseInv'
  BY <1>10, SetResizeCourse
<1>11. CASE DictEmpty
  BY <1>11, DictEmptyCourse
<1>12. ASSUME NEW safe \in BOOLEAN, GetIterator(safe) PROVE CourseInv'
  BY <1>12, GetIteratorCourse
<1>13. CASE IterNext
  BY <1>13, IterNextCourse
<1>14. CASE Release
  BY <1>14, ReleaseCourse
<1>15. CASE DictScan
  <2>1. d' = d /\ iter' = iter /\ watched' = watched /\ spoiled' = spoiled
    BY <1>15 DEF DictScan
  <2> QED
    BY <2>1, StillCourse
<1>16. CASE UNCHANGED dictVars
  <2>1. d' = d /\ iter' = iter /\ watched' = watched /\ spoiled' = spoiled
    BY <1>16 DEF dictVars
  <2> QED
    BY <2>1, StillCourse
<1> QED
  BY <1>1, <1>2, <1>3, <1>4, <1>5, <1>6, <1>7, <1>8, <1>9, <1>10, <1>11, <1>12, <1>13, <1>14, <1>15,
     <1>16 DEF DictNext

LEMMA CourseComplete == DictInv /\ CourseInv => IterationComplete
<1> SUFFICES ASSUME DictInv, CourseInv PROVE IterationComplete
  OBVIOUS
<1>1. IterWay(iter, d, spoiled, watched)
  BY DEF CourseInv
<1>2. ~spoiled => IteratorsCounted
  BY <1>1 DEF IterWay, IteratorsCounted
<1>3. ASSUME iter.done, IF iter.safe THEN ~spoiled ELSE iter.fingerprint = Fingerprint(d)
      PROVE  ~iter.owed /\ ~iter.twice
  <2>1. Started(iter) /\ ~iter.lost /\ iter.open
    BY <1>1, <1>3 DEF IterWay
  <2>2. ~spoiled
    BY <1>1, <1>3, <2>1 DEF IterWay
  <2>3. OnCourse(iter, d, watched)
    BY <1>1, <2>1, <2>2 DEF IterWay
  <2>4. Upright(iter, d, watched)
    <3>1. CASE iter.safe
      BY <2>3, <3>1 DEF OnCourse
    <3>2. CASE ~iter.safe
      <4>1. iter.fingerprint \in Prints /\ iter.fingerprint = Fingerprint(d)
        BY <1>3, <2>3, <3>2 DEF OnCourse
      <4>2. ~Changed(iter.fingerprint, Fingerprint(d))
        BY <4>1, ChangeSeen
      <4> QED
        BY <2>3, <3>2, <4>2 DEF OnCourse
    <3> QED
      BY <3>1, <3>2
  <2> QED
    BY <1>3, <2>4 DEF Upright
<1> QED
  BY <1>2, <1>3 DEF IterationComplete

\* Rehashing stands still for exactly the safe iterators in use, and an iterator at its end has
\* handed out every key that was there all the time, and none twice: a safe one although entries
\* were added, replaced and removed and a resize begun, another if the fingerprint that dictNext
\* took at its first call is still that of the dictionary (dict.c:515-619).
THEOREM IterationCompleteCorrect == DictSpec => []IterationComplete
<1>1. DictInit => DictInv /\ CourseInv
  BY InitRight, CourseInit
<1>2. DictInv /\ CourseInv /\ [DictNext]_dictVars => (DictInv /\ CourseInv)'
  BY NextKeeps, CourseKeeps
<1>3. DictInv /\ CourseInv => IterationComplete
  BY CourseComplete
<1> QED
  BY <1>1, <1>2, <1>3, PTL DEF DictSpec

-----------------------------------------------------------------------------
(* Powers of two and reversed bits.                                        *)

\* The quotient and the rest by half the size, and the rest by itself.
LEMMA HalfOf ==
    ASSUME NEW h \in Nat \ {0}, NEW v \in Nat, v < h * 2
    PROVE  /\ v < h => v \div h = 0 /\ v % h = v
           /\ v >= h => v \div h = 1 /\ v % h = v - h
<1> DEFINE q == v \div h
           r == v % h
<1>1. q \in Int /\ r \in 0..h - 1 /\ v = h * q + r
  OBVIOUS
<1> HIDE DEF q, r
<1>2. CASE q >= 2
  <2>1. h * q >= h * 2
    BY <1>1, <1>2
  <2> QED
    BY <1>1, <2>1
<1>3. CASE q <= -1
  <2>1. h * q <= -h
    BY <1>1, <1>3
  <2> QED
    BY <1>1, <2>1
<1>4. CASE q = 0
  BY <1>1, <1>4 DEF q, r
<1>5. CASE q = 1
  BY <1>1, <1>5 DEF q, r
<1> QED
  BY <1>1, <1>2, <1>3, <1>4, <1>5

LEMMA RestIs ==
    ASSUME NEW a \in Nat, NEW n \in Nat \ {0}, NEW c \in Int, NEW s \in 0..n - 1, a = n * c + s
    PROVE  a % n = s
<1> DEFINE x == a \div n
           r == a % n
<1>1. x \in Int /\ r \in 0..n - 1 /\ a = n * x + r
  OBVIOUS
<1> HIDE DEF x, r
<1>2. n * (c - x) = n * c - n * x
  BY <1>1
<1>3. n * (c - x) = r - s
  BY <1>1, <1>2
<1>4. CASE c - x >= 1
  <2>1. n * (c - x) >= n
    BY <1>1, <1>4
  <2> QED
    BY <1>1, <1>3, <2>1
<1>5. CASE c - x <= -1
  <2>1. n * (c - x) <= -n
    BY <1>1, <1>5
  <2> QED
    BY <1>1, <1>3, <2>1
<1>6. CASE c - x = 0
  <2>1. n * (c - x) = 0
    BY <1>1, <1>6
  <2>2. r = s
    BY <1>1, <1>3, <2>1
  <2> QED
    BY <2>2 DEF r
<1> QED
  BY <1>1, <1>4, <1>5, <1>6

\* The bucket in a table of twice the size.
LEMMA TwiceOf ==
    ASSUME NEW h \in Nat, NEW n \in Nat \ {0}
    PROVE  /\ h % n \in 0..n - 1 /\ h % (n * 2) \in 0..n * 2 - 1
           /\ (h % (n * 2)) % n = h % n
           /\ h % (n * 2) = h % n \/ h % (n * 2) = (h % n) + n
<1> DEFINE m == n * 2
           q == h \div m
           r == h % m
           s == r % n
           e == r \div n
<1>1. h % n \in 0..n - 1 /\ m \in Nat \ {0}
  OBVIOUS
<1>2. q \in Int /\ r \in 0..m - 1 /\ h = m * q + r
  <2> HIDE DEF m
  <2> QED
    BY <1>1
<1> HIDE DEF q, r
<1>3. s \in 0..n - 1 /\ e \in {0, 1} /\ r = n * e + s
  <2>1. r \in Nat /\ r < n * 2
    BY <1>2
  <2>2. /\ r < n => e = 0 /\ s = r
        /\ r >= n => e = 1 /\ s = r - n
    BY <2>1, HalfOf
  <2> HIDE DEF s, e
  <2> QED
    BY <2>1, <2>2
<1> HIDE DEF e
<1>4. s = h % n
  <2> DEFINE t == s
  <2>1. t \in 0..n - 1 /\ r = n * e + t
    BY <1>3
  <2> HIDE DEF t
  <2>2. n * (2 * q + e) = (n * 2) * q + n * e /\ 2 * q + e \in Int
    BY <1>2, <1>3
  <2>3. h = n * (2 * q + e) + t
    BY <1>2, <1>3, <2>1, <2>2 DEF m
  <2> DEFINE c == 2 * q + e
  <2>4. c \in Int /\ h = n * c + t
    BY <2>2, <2>3
  <2> HIDE DEF c
  <2>5. h % n = t
    BY <2>1, <2>4, RestIs
  <2> QED
    BY <2>5 DEF t
<1>5. r = s \/ r = s + n
  BY <1>3
<1> QED
  BY <1>1, <1>2, <1>4, <1>5 DEF r

\* There is no power between one and its double.
LEMMA PowersApart ==
    ASSUME NEW n, NEW m, Power(n), Power(m), n < m
    PROVE  n * 2 <= m
<1> DEFINE S == {x \in Nat : Power(x) /\ \E y : Power(y) /\ y < x /\ x < y * 2}
<1> SUFFICES ASSUME S # {} PROVE FALSE
  <2>1. m \in Nat /\ n \in Nat
    BY DEF Power
  <2>2. m < n * 2 => m \in S
    BY <2>1
  <2> QED
    BY <2>1, <2>2
<1> DEFINE x == Min(S)
<1>1. x \in S /\ \A z \in S : x <= z
  <2>1. S \in SUBSET Nat
    OBVIOUS
  <2> HIDE DEF S
  <2> QED
    BY <2>1, LeastOf
<1> HIDE DEF x
<1>2. PICK y : Power(y) /\ y < x /\ x < y * 2
  BY <1>1
<1>3. Power(x) /\ x \in Nat /\ y \in Nat \ {0}
  BY <1>1, <1>2 DEF Power
<1>4. x # 1 /\ y # 1
  BY <1>2, <1>3
<1> DEFINE g == x \div 2
           k == y \div 2
<1>5. Power(g) /\ x = g * 2 /\ Power(k) /\ y = k * 2
  BY <1>2, <1>3, <1>4, PowerHalved
<1> HIDE DEF g, k
<1>6. g \in Nat \ {0} /\ k \in Nat \ {0}
  BY <1>5 DEF Power
<1>7. k < g /\ g < k * 2 /\ g < x
  BY <1>2, <1>5, <1>6
<1>8. g \in S
  BY <1>5, <1>6, <1>7
<1> QED
  BY <1>1, <1>3, <1>6, <1>7, <1>8

\* The bucket of a hash in a smaller table can be told from that in a larger one.
LEMMA BucketWithin ==
    ASSUME NEW n, NEW m, Power(n), Power(m), n <= m, NEW h \in Nat
    PROVE  (h % m) % n = h % n
<1> DEFINE S == {x \in Nat : Power(x) /\ n <= x /\ \E y \in Nat : (y % x) % n # y % n}
<1>0. n \in Nat \ {0} /\ m \in Nat \ {0}
  BY DEF Power
<1> SUFFICES ASSUME S # {} PROVE FALSE
  BY <1>0
<1> DEFINE x == Min(S)
<1>1. x \in S /\ \A z \in S : x <= z
  <2>1. S \in SUBSET Nat
    OBVIOUS
  <2> HIDE DEF S
  <2> QED
    BY <2>1, LeastOf
<1> HIDE DEF x
<1>2. PICK y \in Nat : (y % x) % n # y % n
  BY <1>1
<1>3. Power(x) /\ x \in Nat \ {0} /\ n <= x
  BY <1>1 DEF Power
<1>4. x # n
  <2> SUFFICES ASSUME x = n PROVE FALSE
    OBVIOUS
  <2> DEFINE r == y % n
  <2>1. r \in 0..n - 1
    BY <1>0
  <2> HIDE DEF r
  <2>2. r \in Nat /\ r < n * 2 /\ r < n
    BY <1>0, <2>1
  <2>3. r % n = r
    BY <1>0, <2>2, HalfOf
  <2> QED
    BY <1>2, <2>3 DEF r
<1> DEFINE g == x \div 2
<1>5. Power(g) /\ x = g * 2
  <2>1. x # 1
    BY <1>0, <1>3, <1>4
  <2> QED
    BY <1>3, <2>1, PowerHalved
<1> HIDE DEF g
<1>6. g \in Nat \ {0} /\ n <= g /\ g < x
  <2>1. g \in Nat \ {0}
    BY <1>5 DEF Power
  <2>2. n * 2 <= x
    <3>1. n < x
      BY <1>0, <1>3, <1>4
    <3> QED
      BY <1>3, <3>1, PowersApart
  <2> QED
    BY <1>0, <1>5, <2>1, <2>2
<1>7. \A z \in Nat : (z % g) % n = z % n
  <2>1. g \notin S
    BY <1>1, <1>3, <1>6
  <2> QED
    BY <1>5, <1>6, <2>1
<1> DEFINE z == y % x
<1>8. z \in Nat /\ z % g = y % g
  <2>1. (y % (g * 2)) % g = y % g /\ y % (g * 2) \in 0..g * 2 - 1
    BY <1>6, TwiceOf
  <2> QED
    BY <1>5, <1>6, <2>1
<1> HIDE DEF z
<1>9. (z % g) % n = z % n /\ (y % g) % n = y % n
  BY <1>7, <1>8
<1> QED
  BY <1>2, <1>8, <1>9 DEF z

\* The lowest bit becomes the highest,
LEMMA RevLow ==
    ASSUME NEW h, Power(h), NEW v \in 0..h * 2 - 1
    PROVE  /\ v \div 2 \in 0..h - 1 /\ rev[h][v \div 2] \in 0..h - 1
           /\ v % h \in 0..h - 1 /\ rev[h][v % h] \in 0..h - 1
           /\ rev[h * 2][v] = (v % 2) * h + rev[h][v \div 2]
<1>1. h \in Nat \ {0} /\ rev[h] \in [0..h - 1 -> 0..h - 1]
  BY RevType DEF Power
<1> DEFINE m == h * 2
<1>2. m \in Nat \ {0} /\ m # 1 /\ m \div 2 = h
  BY <1>1
<1>3. v \div 2 \in 0..h - 1 /\ v % h \in 0..h - 1
  BY <1>1
<1> HIDE DEF m
<1>4. rev[m] = [w \in 0..m - 1 |-> IF m = 1 THEN 0 ELSE (w % 2) * (m \div 2) + rev[m \div 2][w \div 2]]
  BY <1>2, RevStep
<1>5. rev[m][v] = (v % 2) * h + rev[h][v \div 2]
  <2>1. v \in 0..m - 1
    BY DEF m
  <2> QED
    BY <1>2, <1>4, <2>1
<1>6. rev[h][v \div 2] \in 0..h - 1 /\ rev[h][v % h] \in 0..h - 1
  <2> DEFINE a == v \div 2
             b == v % h
  <2>1. a \in 0..h - 1 /\ b \in 0..h - 1
    BY <1>3
  <2> HIDE DEF a, b
  <2>2. rev[h][a] \in 0..h - 1 /\ rev[h][b] \in 0..h - 1
    BY <1>1, <2>1
  <2> QED
    BY <2>2 DEF a, b
<1> QED
  BY <1>3, <1>5, <1>6 DEF m

\* and the highest the lowest.
Folded(h) == \A v \in 0..h * 2 - 1 : rev[h * 2][v] = 2 * rev[h][v % h] + v \div h

LEMMA RevFolded ==
    ASSUME NEW n, Power(n)
    PROVE  Folded(n)
<1> DEFINE S == {x \in Nat : Power(x) /\ ~Folded(x)}
<1> SUFFICES ASSUME S # {} PROVE FALSE
  BY DEF Power
<1> DEFINE h == Min(S)
<1>1. h \in S /\ \A z \in S : h <= z
  <2>1. S \in SUBSET Nat
    OBVIOUS
  <2> HIDE DEF S
  <2> QED
    BY <2>1, LeastOf
<1> HIDE DEF h
<1>2. Power(h) /\ h \in Nat \ {0} /\ ~Folded(h)
  BY <1>1 DEF Power
<1>3. PICK v \in 0..h * 2 - 1 : rev[h * 2][v] # 2 * rev[h][v % h] + v \div h
  BY <1>2 DEF Folded
<1> DEFINE w == v \div 2
           a == v % 2
           x == v % h
           e == v \div h
<1>4. /\ w \in 0..h - 1 /\ rev[h][w] \in 0..h - 1
      /\ x \in 0..h - 1 /\ rev[h][x] \in 0..h - 1
      /\ rev[h * 2][v] = a * h + rev[h][w]
  BY <1>2, RevLow
<1>5. v \in Nat /\ a \in {0, 1} /\ v = 2 * w + a
  BY <1>2
<1>6. /\ v < h => e = 0 /\ x = v
      /\ v >= h => e = 1 /\ x = v - h
  <2>1. v < h * 2
    BY <1>2
  <2> QED
    BY <1>2, <1>5, <2>1, HalfOf
<1>7. rev[h * 2][v] # 2 * rev[h][x] + e
  BY <1>3
<1> HIDE DEF w, a, x, e
<1>8. CASE h = 1
  <2>1. w = 0 /\ x = 0 /\ e = v /\ a = v
    BY <1>4, <1>5, <1>6, <1>8
  <2>2. rev[h][0] = 0
    BY <1>4, <1>8, <2>1
  <2>3. rev[h * 2][v] = a
    BY <1>4, <1>5, <1>8, <2>1, <2>2
  <2>4. 2 * rev[h][x] + e = e
    BY <1>5, <2>1, <2>2
  <2> QED
    BY <1>7, <2>1, <2>3, <2>4
<1>9. CASE h # 1
  <2> DEFINE g == h \div 2
  <2>1. Power(g) /\ h = g * 2
    BY <1>2, <1>9, PowerHalved
  <2> HIDE DEF g
  <2>2. g \in Nat \ {0} /\ g < h
    <3>1. g \in Nat \ {0}
      BY <2>1 DEF Power
    <3> QED
      BY <2>1, <3>1
  <2>3. Folded(g)
    <3>1. g \notin S
      BY <1>1, <1>2, <2>2
    <3> QED
      BY <2>1, <2>2, <3>1
  <2> DEFINE y == w % g
             f == w \div g
             b == x % 2
             z == x \div 2
  <2>4. w \in 0..g * 2 - 1 /\ x \in 0..g * 2 - 1
    BY <1>4, <2>1
  <2>5. rev[h][w] = 2 * rev[g][y] + f
    BY <2>1, <2>3, <2>4 DEF Folded
  <2>6. rev[h][x] = b * g + rev[g][z] /\ rev[g][z] \in 0..g - 1
    BY <2>1, <2>4, RevLow
  <2>7. /\ w < g => f = 0 /\ y = w
        /\ w >= g => f = 1 /\ y = w - g
    <3>1. w \in Nat /\ w < g * 2
      BY <2>2, <2>4
    <3> QED
      BY <2>2, <3>1, HalfOf
  <2>8. b \in {0, 1} /\ x = 2 * z + b /\ z \in Nat
    BY <2>4
  <2> HIDE DEF y, f, b, z
  <2>9. v < h <=> w < g
    BY <1>5, <2>1, <2>2, <2>4
  <2>10. a = b /\ y = z /\ e = f
    <3>1. CASE v < h
      <4>1. x = v /\ e = 0 /\ f = 0 /\ y = w
        BY <1>6, <2>7, <2>9, <3>1
      <4>2. 2 * z + b = 2 * w + a
        BY <1>5, <2>8, <4>1
      <4> QED
        BY <1>4, <1>5, <2>8, <4>1, <4>2
    <3>2. CASE v >= h
      <4>1. x = v - h /\ e = 1 /\ f = 1 /\ y = w - g
        BY <1>6, <2>2, <2>4, <2>7, <2>9, <3>2
      <4>2. 2 * z + b = 2 * (w - g) + a
        BY <1>4, <1>5, <2>1, <2>2, <2>8, <4>1
      <4> QED
        BY <1>5, <2>2, <2>4, <2>8, <4>1, <4>2
    <3> QED
      BY <1>2, <1>5, <3>1, <3>2
  <2> DEFINE r == rev[g][z]
  <2>11. r \in 0..g - 1 /\ rev[h][w] = 2 * r + f /\ rev[h][x] = a * g + r
    BY <2>5, <2>6, <2>10
  <2> HIDE DEF r
  <2>12. rev[h * 2][v] = a * h + (2 * r + f)
    BY <1>4, <2>11
  <2>13. 2 * rev[h][x] + e = 2 * (a * g + r) + f
    BY <2>10, <2>11
  <2>14. a * h + (2 * r + f) = 2 * (a * g + r) + f
    <3>1. f \in {0, 1}
      BY <2>2, <2>4, <2>7
    <3>2. CASE a = 0
      BY <2>1, <2>2, <2>11, <3>1, <3>2
    <3>3. CASE a = 1
      BY <2>1, <2>2, <2>11, <3>1, <3>3
    <3> QED
      BY <1>5, <3>2, <3>3
  <2> QED
    BY <1>7, <2>12, <2>13, <2>14
<1> QED
  BY <1>8, <1>9

\* Reversing the bits twice changes nothing.
Reversed(n) == \A x \in 0..n - 1 : rev[n][rev[n][x]] = x

LEMMA RevTwice ==
    ASSUME NEW n, Power(n)
    PROVE  Reversed(n)
<1> DEFINE S == {x \in Nat : Power(x) /\ ~Reversed(x)}
<1> SUFFICES ASSUME S # {} PROVE FALSE
  BY DEF Power
<1> DEFINE m == Min(S)
<1>1. m \in S /\ \A z \in S : m <= z
  <2>1. S \in SUBSET Nat
    OBVIOUS
  <2> HIDE DEF S
  <2> QED
    BY <2>1, LeastOf
<1> HIDE DEF m
<1>2. Power(m) /\ m \in Nat \ {0} /\ ~Reversed(m) /\ rev[m] \in [0..m - 1 -> 0..m - 1]
  BY <1>1, RevType DEF Power
<1>3. PICK x \in 0..m - 1 : rev[m][rev[m][x]] # x
  BY <1>2 DEF Reversed
<1>4. CASE m = 1
  <2>1. x = 0 /\ rev[m][0] \in 0..0
    BY <1>2, <1>4
  <2>2. rev[m][0] = 0
    BY <2>1
  <2> QED
    BY <1>3, <2>1, <2>2
<1>5. CASE m # 1
  <2> DEFINE h == m \div 2
             w == x \div 2
             a == x % 2
             r == rev[h][w]
             y == rev[m][x]
  <2>1. Power(h) /\ m = h * 2
    BY <1>2, <1>5, PowerHalved
  <2> HIDE DEF h
  <2>2. h \in Nat \ {0} /\ h < m
    <3>1. h \in Nat \ {0}
      BY <2>1 DEF Power
    <3> QED
      BY <2>1, <3>1
  <2>3. w \in 0..h - 1 /\ r \in 0..h - 1 /\ y = a * h + r
    BY <2>1, RevLow
  <2>4. a \in {0, 1} /\ x = 2 * w + a
    OBVIOUS
  <2>5. rev[h][r] = w
    <3>1. h \notin S
      BY <1>1, <1>2, <2>2
    <3>2. Reversed(h)
      BY <2>1, <2>2, <3>1
    <3> QED
      BY <2>3, <3>2 DEF Reversed
  <2> HIDE DEF w, a, r, y
  <2>6. y \in Nat /\ y < h * 2 /\ (y < h <=> a = 0)
    <3>1. CASE a = 0
      BY <2>2, <2>3, <3>1
    <3>2. CASE a = 1
      BY <2>2, <2>3, <3>2
    <3> QED
      BY <2>4, <3>1, <3>2
  <2>7. y % h = r /\ y \div h = a
    <3>1. /\ y < h => y \div h = 0 /\ y % h = y
          /\ y >= h => y \div h = 1 /\ y % h = y - h
      BY <2>2, <2>6, HalfOf
    <3>2. CASE a = 0
      <4>1. y = r
        BY <2>2, <2>3, <3>2
      <4> QED
        BY <2>6, <3>1, <3>2, <4>1
    <3>3. CASE a = 1
      <4>1. y = h + r /\ y >= h
        BY <2>2, <2>3, <3>3
      <4>2. y - h = r
        BY <2>2, <2>3, <4>1
      <4> QED
        BY <3>1, <3>3, <4>1, <4>2
    <3> QED
      BY <2>4, <3>2, <3>3
  <2>8. rev[m][y] = 2 * rev[h][y % h] + y \div h
    <3>1. y \in 0..h * 2 - 1
      BY <2>2, <2>6
    <3>2. Folded(h)
      BY <2>1, RevFolded
    <3> QED
      BY <2>1, <3>1, <3>2 DEF Folded
  <2>9. rev[m][y] = x
    BY <2>4, <2>5, <2>7, <2>8
  <2> QED
    BY <1>3, <2>9 DEF y
<1> QED
  BY <1>4, <1>5

LEMMA RevZero ==
    ASSUME NEW n, Power(n)
    PROVE  rev[n][0] = 0
<1> DEFINE S == {x \in Nat : Power(x) /\ rev[x][0] # 0}
<1> SUFFICES ASSUME S # {} PROVE FALSE
  BY DEF Power
<1> DEFINE m == Min(S)
<1>1. m \in S /\ \A z \in S : m <= z
  <2>1. S \in SUBSET Nat
    OBVIOUS
  <2> HIDE DEF S
  <2> QED
    BY <2>1, LeastOf
<1> HIDE DEF m
<1>2. Power(m) /\ m \in Nat \ {0} /\ rev[m][0] # 0 /\ rev[m] \in [0..m - 1 -> 0..m - 1]
  BY <1>1, RevType DEF Power
<1>3. m # 1
  <2> SUFFICES ASSUME m = 1 PROVE FALSE
    OBVIOUS
  <2>1. rev[m][0] \in 0..0
    BY <1>2
  <2> QED
    BY <1>2, <2>1
<1> DEFINE h == m \div 2
<1>4. Power(h) /\ m = h * 2
  BY <1>2, <1>3, PowerHalved
<1> HIDE DEF h
<1>5. h \in Nat \ {0} /\ h < m
  <2>1. h \in Nat \ {0}
    BY <1>4 DEF Power
  <2> QED
    BY <1>4, <2>1
<1>6. rev[h][0] = 0
  BY <1>1, <1>2, <1>4, <1>5
<1>7. rev[m][0] = (0 % 2) * h + rev[h][0 \div 2]
  <2> DEFINE o == 0
  <2>1. o \in 0..h * 2 - 1
    BY <1>5
  <2> HIDE DEF o
  <2>2. rev[h * 2][o] = (o % 2) * h + rev[h][o \div 2]
    BY <1>4, <2>1, RevLow
  <2> QED
    BY <1>4, <2>2 DEF o
<1>8. 0 % 2 = 0 /\ 0 \div 2 = 0
  OBVIOUS
<1>9. rev[m][0] = 0 * h + 0
  BY <1>6, <1>7, <1>8
<1> QED
  BY <1>2, <1>5, <1>9

-----------------------------------------------------------------------------
(* The scan.                                                               *)

\* In a table of size n, the cursor v has not passed the bucket of the hash h.
After(h, v, n) == rev[n][h % n] >= rev[n][v % n]

\* The order is the same whatever the size, as long as the cursor has no bit
\* above it.
LEMMA AfterHalf ==
    ASSUME NEW n, Power(n), NEW h \in Nat, NEW v \in Nat
    PROVE  /\ After(h, v, n * 2) => After(h, v, n)
           /\ v < n /\ After(h, v, n) => After(h, v, n * 2)
<1> DEFINE m == n * 2
           x == h % m
           y == v % m
           p == rev[n][h % n]
           q == rev[n][v % n]
<1>1. n \in Nat \ {0} /\ rev[n] \in [0..n - 1 -> 0..n - 1] /\ Folded(n)
  BY RevType, RevFolded DEF Power
<1>2. /\ h % n \in 0..n - 1 /\ v % n \in 0..n - 1
      /\ x \in 0..n * 2 - 1 /\ y \in 0..n * 2 - 1
      /\ x % n = h % n /\ y % n = v % n
  BY <1>1, TwiceOf
<1>3. p \in 0..n - 1 /\ q \in 0..n - 1
  <2> DEFINE a == h % n
             b == v % n
  <2>1. a \in 0..n - 1 /\ b \in 0..n - 1
    BY <1>2
  <2> HIDE DEF a, b
  <2>2. rev[n][a] \in 0..n - 1 /\ rev[n][b] \in 0..n - 1
    BY <1>1, <2>1
  <2> QED
    BY <2>2 DEF a, b
<1>4. rev[m][x] = 2 * p + x \div n /\ rev[m][y] = 2 * q + y \div n
  <2> HIDE DEF x, y
  <2>1. rev[n * 2][x] = 2 * rev[n][x % n] + x \div n
    BY <1>1, <1>2 DEF Folded
  <2>2. rev[n * 2][y] = 2 * rev[n][y % n] + y \div n
    BY <1>1, <1>2 DEF Folded
  <2> QED
    BY <1>2, <2>1, <2>2
<1>5. x \div n \in {0, 1} /\ y \div n \in {0, 1} /\ (v < n => y \div n = 0)
  <2>1. v < n => y = v
    <3> SUFFICES ASSUME v < n PROVE y = v
      OBVIOUS
    <3>1. m \in Nat \ {0} /\ v < m /\ v < m * 2
      BY <1>1
    <3> HIDE DEF m
    <3> QED
      BY <3>1, HalfOf
  <2> HIDE DEF x, y, m
  <2>2. x \in Nat /\ x < n * 2 /\ y \in Nat /\ y < n * 2
    BY <1>1, <1>2
  <2>3. /\ x < n => x \div n = 0
        /\ x >= n => x \div n = 1
    BY <1>1, <2>2, HalfOf
  <2>4. /\ y < n => y \div n = 0
        /\ y >= n => y \div n = 1
    BY <1>1, <2>2, HalfOf
  <2>5. (x < n \/ x >= n) /\ (y < n \/ y >= n)
    BY <1>1, <2>2
  <2> QED
    BY <2>1, <2>3, <2>4, <2>5
<1>6. After(h, v, n) <=> p >= q
  BY DEF After
<1>7. After(h, v, n * 2) <=> rev[m][x] >= rev[m][y]
  BY DEF After
<1> DEFINE s == x \div n
           t == y \div n
<1>8. After(h, v, n * 2) <=> 2 * p + s >= 2 * q + t
  BY <1>4, <1>7
<1>9. s \in {0, 1} /\ t \in {0, 1} /\ (v < n => t = 0)
  BY <1>5
<1> HIDE DEF p, q, s, t
<1> QED
  BY <1>3, <1>6, <1>8, <1>9

LEMMA AfterDown ==
    ASSUME NEW n, Power(n), NEW m, Power(m), n <= m, NEW h \in Nat, NEW v \in Nat, After(h, v, m)
    PROVE  After(h, v, n)
<1> SUFFICES ASSUME ~After(h, v, n) PROVE FALSE
  OBVIOUS
<1> DEFINE S == {x \in Nat : Power(x) /\ n <= x /\ After(h, v, x)}
           x == Min(S)
<1>0. n \in Nat \ {0} /\ m \in S
  BY DEF Power
<1>1. x \in S /\ \A z \in S : x <= z
  <2>1. S \in SUBSET Nat
    OBVIOUS
  <2> HIDE DEF S
  <2> QED
    BY <1>0, <2>1, LeastOf
<1> HIDE DEF x
<1>2. Power(x) /\ x \in Nat \ {0} /\ n <= x /\ After(h, v, x)
  BY <1>1 DEF Power
<1>3. x # n
  BY <1>2
<1> DEFINE g == x \div 2
<1>4. Power(g) /\ x = g * 2
  <2>1. x # 1
    BY <1>0, <1>2, <1>3
  <2> QED
    BY <1>2, <2>1, PowerHalved
<1> HIDE DEF g
<1>5. g \in Nat \ {0} /\ n <= g /\ g < x
  <2>1. g \in Nat \ {0}
    BY <1>4 DEF Power
  <2>2. n * 2 <= x
    <3>1. n < x
      BY <1>0, <1>2, <1>3
    <3> QED
      BY <1>2, <3>1, PowersApart
  <2> QED
    BY <1>0, <1>4, <2>1, <2>2
<1>6. After(h, v, g)
  BY <1>2, <1>4, AfterHalf
<1>7. g \in S
  BY <1>4, <1>5, <1>6
<1> QED
  BY <1>1, <1>2, <1>5, <1>7

LEMMA AfterUp ==
    ASSUME NEW n, Power(n), NEW m, Power(m), n <= m, NEW h \in Nat, NEW v \in Nat, v < n, After(h, v, n)
    PROVE  After(h, v, m)
<1> SUFFICES ASSUME ~After(h, v, m) PROVE FALSE
  OBVIOUS
<1> DEFINE S == {x \in Nat : Power(x) /\ n <= x /\ ~After(h, v, x)}
           x == Min(S)
<1>0. n \in Nat \ {0} /\ m \in S
  BY DEF Power
<1>1. x \in S /\ \A z \in S : x <= z
  <2>1. S \in SUBSET Nat
    OBVIOUS
  <2> HIDE DEF S
  <2> QED
    BY <1>0, <2>1, LeastOf
<1> HIDE DEF x
<1>2. Power(x) /\ x \in Nat \ {0} /\ n <= x /\ ~After(h, v, x)
  BY <1>1 DEF Power
<1>3. x # n
  BY <1>2
<1> DEFINE g == x \div 2
<1>4. Power(g) /\ x = g * 2
  <2>1. x # 1
    BY <1>0, <1>2, <1>3
  <2> QED
    BY <1>2, <2>1, PowerHalved
<1> HIDE DEF g
<1>5. g \in Nat \ {0} /\ n <= g /\ g < x
  <2>1. g \in Nat \ {0}
    BY <1>4 DEF Power
  <2>2. n * 2 <= x
    <3>1. n < x
      BY <1>0, <1>2, <1>3
    <3> QED
      BY <1>2, <3>1, PowersApart
  <2> QED
    BY <1>0, <1>4, <2>1, <2>2
<1>6. ~After(h, v, g)
  <2>1. v < g
    BY <1>0, <1>5
  <2> QED
    BY <1>2, <1>4, <2>1, AfterHalf
<1>7. g \in S
  BY <1>4, <1>5, <1>6
<1> QED
  BY <1>1, <1>2, <1>5, <1>7

\* The scan has not come to the bucket of h: in a table with room for the
\* cursor, and so in each.
NotYet(h, v) == \E m : Power(m) /\ v < m /\ After(h, v, m)

LEMMA AfterAny ==
    ASSUME NEW n, Power(n), NEW h \in Nat, NEW v \in Nat, NotYet(h, v)
    PROVE  After(h, v, n)
<1>1. PICK m : Power(m) /\ v < m /\ After(h, v, m)
  BY DEF NotYet
<1>2. n \in Nat /\ m \in Nat
  BY <1>1 DEF Power
<1>3. CASE n <= m
  BY <1>1, <1>3, AfterDown
<1>4. CASE m <= n
  BY <1>1, <1>4, AfterUp
<1> QED
  BY <1>2, <1>3, <1>4

LEMMA NotYetFirst ==
    ASSUME NEW h \in Nat
    PROVE  NotYet(h, 0)
<1> DEFINE n == 1
<1>1. Power(n) /\ 0 < n /\ n \in Nat \ {0}
  BY DEF Power
<1>2. rev[n] \in [0..n - 1 -> 0..n - 1] /\ rev[n][0] = 0
  BY <1>1, RevType, RevZero
<1>3. h % n = 0 /\ 0 % n = 0
  OBVIOUS
<1> HIDE DEF n
<1>4. After(h, 0, n)
  BY <1>2, <1>3 DEF After
<1> QED
  BY <1>1, <1>4 DEF NotYet

\* What the cursor has not come to and does not stand at comes later; the scan
\* is not at its end then.
LEMMA CursorNext ==
    ASSUME NEW n, Power(n), NEW h \in Nat, NEW v \in Nat, NotYet(h, v), h % n # v % n
    PROVE  NextCursor(v, n) # 0 /\ NotYet(h, NextCursor(v, n))
<1> DEFINE x == v % n
           z == h % n
           a == rev[n][x]
           b == rev[n][z]
           y == rev[n][(a + 1) % n]
<1>0. n \in Nat \ {0}
  BY DEF Power
<1>1. rev[n] \in [0..n - 1 -> 0..n - 1] /\ Reversed(n) /\ rev[n][0] = 0
  BY RevType, RevTwice, RevZero
<1>2. x \in 0..n - 1 /\ z \in 0..n - 1 /\ x # z
  <2>1. x \in 0..n - 1
    BY <1>0
  <2>2. z \in 0..n - 1
    BY <1>0
  <2> QED
    BY <2>1, <2>2
<1>3. b >= a
  BY AfterAny DEF After
<1>4. NextCursor(v, n) = y
  BY DEF NextCursor
<1> HIDE DEF x, z
<1>5. a \in 0..n - 1 /\ b \in 0..n - 1
  BY <1>1, <1>2
<1>6. a # b
  <2>1. rev[n][a] = x /\ rev[n][b] = z
    BY <1>2, <1>1 DEF Reversed
  <2> HIDE DEF a, b
  <2> QED
    BY <1>2, <2>1
<1> DEFINE c == a + 1
<1>7. c \in 0..n - 1 /\ c # 0 /\ b >= c /\ c % n = c
  <2> HIDE DEF a, b
  <2>1. c \in 0..n - 1 /\ c # 0 /\ b >= c
    BY <1>0, <1>3, <1>5, <1>6
  <2>2. c \in Nat /\ c < n * 2 /\ c < n
    <3> HIDE DEF c
    <3> QED
      BY <1>0, <2>1
  <2> HIDE DEF c
  <2> QED
    BY <1>0, <2>1, <2>2, HalfOf
<1>8. y = rev[n][c]
  BY <1>7
<1> HIDE DEF y, c, a
<1>9. y \in 0..n - 1 /\ rev[n][y] = c
  <2>1. rev[n][rev[n][c]] = c
    BY <1>1, <1>7 DEF Reversed
  <2>2. rev[n][c] \in 0..n - 1
    BY <1>1, <1>7
  <2> QED
    BY <1>8, <2>1, <2>2
<1>10. y # 0
  BY <1>1, <1>7, <1>9
<1>11. y % n = y
  <2>1. y \in Nat /\ y < n * 2 /\ y < n
    BY <1>0, <1>9
  <2> QED
    BY <1>0, <2>1, HalfOf
<1>12. After(h, y, n)
  <2>1. rev[n][h % n] = b /\ rev[n][y % n] = c
    BY <1>9, <1>11 DEF z
  <2> QED
    BY <1>7, <2>1 DEF After
<1>13. NotYet(h, y)
  <2>1. y < n
    BY <1>0, <1>9
  <2> QED
    BY <1>12, <2>1 DEF NotYet
<1> QED
  BY <1>4, <1>10, <1>13

\* The tables that hold everything, in the order of their size.
LEMMA SizesFine ==
    ASSUME NEW dd, DictFine(dd), Content(dd) # {}
    PROVE  /\ Power(Small(dd).size) /\ TableFine(Small(dd))
           /\ dictIsRehashing(dd) => /\ Power(Large(dd).size) /\ TableFine(Large(dd))
                                     /\ Small(dd).size <= Large(dd).size
                                     /\ Content(dd) = Chained(Small(dd)) \cup Chained(Large(dd))
           /\ ~dictIsRehashing(dd) => Content(dd) = Chained(Small(dd))
<1>1. /\ TableFine(dd.ht[0]) /\ (dd.ht[0].size = 0 \/ Power(dd.ht[0].size)) /\ dd.ht[0].size \in Nat
      /\ TableFine(dd.ht[1]) /\ (dd.ht[1].size = 0 \/ Power(dd.ht[1].size)) /\ dd.ht[1].size \in Nat
  BY TablesFine DEF DictFine
<1>2. Content(dd) = Chained(dd.ht[0]) \cup Chained(dd.ht[1])
  BY DEF Content
<1>3. CASE ~dictIsRehashing(dd)
  <2>1. Small(dd) = dd.ht[0]
    BY <1>3 DEF Small
  <2>2. dd.ht[1].size = 0
    BY <1>3 DEF DictFine
  <2>3. Chained(dd.ht[1]) = {}
    BY <1>1, <2>2, NothingChained
  <2>4. dd.ht[0].size # 0
    BY <1>1, <1>2, <2>3, NothingChained
  <2> QED
    BY <1>1, <1>2, <1>3, <2>1, <2>3, <2>4
<1>4. CASE dictIsRehashing(dd)
  <2>1. Power(dd.ht[0].size) /\ Power(dd.ht[1].size)
    BY <1>1, <1>4 DEF DictFine
  <2>2. CASE dd.ht[0].size > dd.ht[1].size
    <3>1. Small(dd) = dd.ht[1] /\ Large(dd) = dd.ht[0]
      BY <1>4, <2>2 DEF Small, Large
    <3> QED
      BY <1>1, <1>2, <1>4, <2>1, <2>2, <3>1
  <2>3. CASE ~(dd.ht[0].size > dd.ht[1].size)
    <3>1. Small(dd) = dd.ht[0] /\ Large(dd) = dd.ht[1]
      BY <2>3 DEF Small, Large
    <3> QED
      BY <1>1, <1>2, <1>4, <2>1, <2>3, <3>1
  <2> QED
    BY <2>2, <2>3
<1> QED
  BY <1>3, <1>4

\* An entry is in the bucket of its hash.
LEMMA HashBucket ==
    ASSUME NEW t, TableFine(t), Power(t.size), NEW e \in Chained(t)
    PROVE  /\ Hash[e.key] % t.size \in 0..t.size - 1
           /\ e \in ToSet(t.table[Hash[e.key] % t.size])
<1> DEFINE b == Hash[e.key] % t.size
<1>1. t \in Table /\ t.size \in Nat \ {0}
  BY DEF TableFine, Power
<1>2. e \in Entries
  BY <1>1, ChainedType
<1>3. e.key \in Keys
  BY <1>2, EntryType
<1>4. Index(e.key, t) = b /\ b \in 0..t.size - 1
  BY <1>1, <1>3, IndexType
<1> HIDE DEF b
<1>5. e \in ToSet(t.table[b])
  BY <1>4, InBucket
<1> QED
  BY <1>4, <1>5 DEF b

\* What a call emits of the larger table.
LEMMA EmittedAre ==
    ASSUME NEW dd, NEW v
    PROVE  /\ ToSet(Small(dd).table[v % Small(dd).size]) \subseteq Emitted(dd, v)
           /\ dictIsRehashing(dd) =>
                \A b \in v % Large(dd).size..Large(dd).size - 1 :
                    b % Small(dd).size = v % Small(dd).size => ToSet(Large(dd).table[b]) \subseteq Emitted(dd, v)
<1> DEFINE n == Small(dd).size
           m == Large(dd).size
           s == ToSet(Small(dd).table[v % n])
           X == {b \in v % m..m - 1 : b % n = v % n}
<1>1. /\ dictIsRehashing(dd) => Emitted(dd, v) = s \cup UNION {ToSet(Large(dd).table[b]) : b \in X}
      /\ ~dictIsRehashing(dd) => Emitted(dd, v) = s \cup {}
  BY DEF Emitted
<1>2. \A b \in v % m..m - 1 : b % n = v % n => b \in X
  OBVIOUS
<1> HIDE DEF X, s, n, m
<1>3. s \subseteq Emitted(dd, v)
  BY <1>1
<1>4. ASSUME dictIsRehashing(dd), NEW b \in v % m..m - 1, b % n = v % n
      PROVE  ToSet(Large(dd).table[b]) \subseteq Emitted(dd, v)
  <2>1. b \in X
    BY <1>2, <1>4
  <2> QED
    BY <1>1, <1>4, <2>1
<1> QED
  BY <1>3, <1>4 DEF n, m, s

\* Two buckets of a table are expansions of the same bucket, the one is below
\* the cursor and not passed by it: the table is four times as large.
LEMMA ExpansionAhead ==
    ASSUME NEW n, Power(n), NEW m, Power(m), n <= m, NEW h \in Nat, NEW v \in Nat,
           NotYet(h, v), h % n = v % n, h % m < v % m
    PROVE  v >= n /\ m >= 4 * n
<1>1. n \in Nat \ {0} /\ m \in Nat \ {0}
  BY DEF Power
<1>2. (h % m) % n = h % n /\ (v % m) % n = v % n
  BY BucketWithin
<1>3. h % m \in 0..m - 1 /\ v % m \in 0..m - 1
  BY <1>1
<1>4. v >= n
  <2> SUFFICES ASSUME v < n PROVE FALSE
    BY <1>1
  <2> DEFINE x == h % m
             y == v % m
  <2>1. y = v /\ v % n = v
    <3>1. v < m /\ v < m * 2 /\ v < n * 2
      BY <1>1
    <3>2. v % m = v
      BY <1>1, <3>1, HalfOf
    <3>3. v % n = v
      BY <1>1, <3>1, HalfOf
    <3> QED
      BY <3>2, <3>3
  <2>2. x \in Nat /\ x < y /\ x % n = v
    BY <1>2, <1>3, <2>1
  <2> HIDE DEF x, y
  <2>3. x < n /\ x < n * 2
    BY <1>1, <2>1, <2>2
  <2>4. x % n = x
    BY <1>1, <2>2, <2>3, HalfOf
  <2> QED
    BY <2>1, <2>2, <2>4
<1>5. m # n
  <2> SUFFICES ASSUME m = n PROVE FALSE
    OBVIOUS
  <2>1. h % m = v % m
    OBVIOUS
  <2> QED
    BY <1>3, <2>1
<1>6. n < m /\ n * 2 <= m
  <2>1. n < m
    BY <1>1, <1>5
  <2> QED
    BY <2>1, PowersApart
<1>7. m # n * 2
  <2> SUFFICES ASSUME m = n * 2 PROVE FALSE
    OBVIOUS
  <2> DEFINE r == v % n
             x == h % m
             y == v % m
  <2>1. r \in 0..n - 1 /\ (x = r \/ x = r + n) /\ (y = r \/ y = r + n)
    <3>1. h % (n * 2) = h % n \/ h % (n * 2) = (h % n) + n
      BY <1>1, TwiceOf
    <3>2. v % (n * 2) = v % n \/ v % (n * 2) = (v % n) + n
      BY <1>1, TwiceOf
    <3>3. v % n \in 0..n - 1
      BY <1>1
    <3> QED
      BY <3>1, <3>2, <3>3
  <2>2. x < y
    OBVIOUS
  <2> HIDE DEF r, x, y
  <2>3. x = r /\ y = r + n
    BY <1>1, <2>1, <2>2
  <2>4. x \div n = 0 /\ x % n = r
    <3>1. x \in Nat /\ x < n /\ x < n * 2
      BY <1>1, <2>1, <2>3
    <3> QED
      BY <1>1, <2>3, <3>1, HalfOf
  <2>5. y \div n = 1 /\ y % n = r
    <3>1. y \in Nat /\ y >= n /\ y < n * 2 /\ y - n = r
      BY <1>1, <2>1, <2>3
    <3> QED
      BY <1>1, <3>1, HalfOf
  <2>6. rev[n * 2][x] = 2 * rev[n][r] + 0 /\ rev[n * 2][y] = 2 * rev[n][r] + 1
    <3>1. Folded(n)
      BY RevFolded
    <3>2. x \in 0..n * 2 - 1 /\ y \in 0..n * 2 - 1
      BY <1>1, <2>1, <2>3
    <3>3. rev[n * 2][x] = 2 * rev[n][x % n] + x \div n
      BY <3>1, <3>2 DEF Folded
    <3>4. rev[n * 2][y] = 2 * rev[n][y % n] + y \div n
      BY <3>1, <3>2 DEF Folded
    <3> QED
      BY <2>4, <2>5, <3>3, <3>4
  <2>7. rev[n][r] \in 0..n - 1
    <3>1. rev[n] \in [0..n - 1 -> 0..n - 1]
      BY RevType
    <3> QED
      BY <2>1, <3>1
  <2>8. rev[m][x] >= rev[m][y]
    BY AfterAny DEF After, x, y
  <2> DEFINE p == rev[n][r]
  <2>9. p \in Int /\ 2 * p + 0 >= 2 * p + 1
    BY <2>6, <2>7, <2>8
  <2> HIDE DEF p
  <2> QED
    BY <2>9
<1>8. 4 * n <= m
  <2> DEFINE k == n * 2
  <2>1. Power(k) /\ k < m /\ k \in Nat
    BY <1>1, <1>6, <1>7, PowerDoubled
  <2>2. k * 2 <= m
    BY <2>1, PowersApart
  <2> QED
    BY <1>1, <2>2
<1> QED
  BY <1>1, <1>4, <1>8

\* What a call does not emit of what it has still to emit is not in the bucket
\* of the cursor.
LEMMA ScanEmits ==
    ASSUME NEW dd, DictFine(dd), NEW e \in Content(dd), NEW v \in Nat, NotYet(Hash[e.key], v),
           ~(v >= Small(dd).size /\ Large(dd).size >= 4 * Small(dd).size),
           \A f \in Emitted(dd, v) : f.key # e.key
    PROVE  Power(Small(dd).size) /\ Hash[e.key] % Small(dd).size # v % Small(dd).size
<1> DEFINE s == Small(dd)
           l == Large(dd)
           n == s.size
           m == l.size
           h == Hash[e.key]
<1>1. /\ Power(n) /\ TableFine(s)
      /\ dictIsRehashing(dd) => /\ Power(m) /\ TableFine(l) /\ n <= m
                                /\ Content(dd) = Chained(s) \cup Chained(l)
      /\ ~dictIsRehashing(dd) => Content(dd) = Chained(s)
  <2>1. Content(dd) # {}
    OBVIOUS
  <2> QED
    BY <2>1, SizesFine
<1>2. e \notin Emitted(dd, v)
  OBVIOUS
<1>3. /\ ToSet(s.table[v % n]) \subseteq Emitted(dd, v)
      /\ dictIsRehashing(dd) =>
           \A b \in v % m..m - 1 : b % n = v % n => ToSet(l.table[b]) \subseteq Emitted(dd, v)
  BY EmittedAre
<1>4. h \in Nat
  <2>1. e \in Entries
    BY TablesFine
  <2> QED
    BY <2>1, EntryType
<1> SUFFICES ASSUME h % n = v % n PROVE FALSE
  BY <1>1
<1>5. e \notin Chained(s)
  <2> SUFFICES ASSUME e \in Chained(s) PROVE FALSE
    OBVIOUS
  <2>1. e \in ToSet(s.table[h % n])
    <3> HIDE DEF s
    <3> QED
      BY <1>1, HashBucket
  <2> QED
    BY <1>2, <1>3, <2>1
<1>6. dictIsRehashing(dd) /\ e \in Chained(l) /\ Power(m) /\ n <= m /\ TableFine(l)
  BY <1>1, <1>5
<1>7. h % m \in 0..m - 1 /\ e \in ToSet(l.table[h % m])
  <2> HIDE DEF l
  <2> QED
    BY <1>6, HashBucket
<1>8. (h % m) % n = v % n
  <2> DEFINE x == h
  <2>1. x \in Nat /\ x % n = v % n
    BY <1>4
  <2> HIDE DEF n, m, x
  <2>2. (x % m) % n = x % n
    BY <1>1, <1>6, <2>1, BucketWithin
  <2> QED
    BY <2>1, <2>2 DEF x
<1>9. h % m < v % m
  <2> SUFFICES ASSUME ~(h % m < v % m) PROVE FALSE
    OBVIOUS
  <2> DEFINE b == h % m
             y == v % m
  <2>1. y \in Nat /\ b \in 0..m - 1 /\ ~(b < y) /\ m \in Nat
    <3>1. m \in Nat \ {0}
      BY <1>6 DEF Power
    <3> HIDE DEF m
    <3> QED
      BY <1>7, <3>1
  <2>2. b \in y..m - 1
    <3> HIDE DEF b, y, m
    <3> QED
      BY <2>1
  <2>3. ToSet(l.table[b]) \subseteq Emitted(dd, v)
    <3>1. b % n = v % n
      BY <1>8
    <3> HIDE DEF b
    <3> QED
      BY <1>3, <1>6, <2>2, <3>1
  <2> QED
    BY <1>2, <1>7, <2>3
<1>10. v >= n /\ m >= 4 * n
  <2> DEFINE x == h
  <2>1. x \in Nat /\ NotYet(x, v) /\ x % n = v % n /\ x % m < v % m
    BY <1>4, <1>9
  <2> HIDE DEF n, m, x
  <2> QED
    BY <1>1, <1>6, <2>1, ExpansionAhead
<1> QED
  BY <1>10

LEMMA SizeCounts ==
    ASSUME NEW dd, DictFine(dd), Content(dd) # {}
    PROVE  dictSize(dd) # 0
<1>1. dictSize(dd) = Cardinality(Content(dd)) /\ IsFiniteSet(Content(dd))
  BY AllCounted, PrintOf DEF dictSize
<1>2. Cardinality(Content(dd)) # 0
  BY <1>1, FS_EmptySet
<1> QED
  BY <1>1, <1>2

-----------------------------------------------------------------------------
(* What a scan owes is there, and the scan has not come to it.             *)

ScanWay(sc, ks, w) ==
    /\ sc.running <=> sc.v # 0
    /\ sc.running /\ sc.owed => w \in ks /\ (~sc.midway => NotYet(Hash[w], sc.v))
    /\ ~sc.running /\ ~sc.midway => ~sc.owed

ScanInv == watched \in Keys /\ ScanWay(scan, KeysIn(map), watched)

LEMMA ScanInit == DictInit => ScanInv
<1> SUFFICES ASSUME DictInit PROVE ScanInv
  OBVIOUS
<1>1. ~scan.running /\ scan.v = 0 /\ ~scan.owed /\ ~scan.midway
  BY DEF DictInit, NoScan
<1>2. watched \in Keys
  BY DEF DictInit
<1> QED
  BY <1>1, <1>2 DEF ScanInv, ScanWay

LEMMA ScanKept ==
    ASSUME ScanInv, scan' = scan, watched' = watched, KeysIn(map) \subseteq KeysIn(map')
    PROVE  ScanInv'
BY DEF ScanInv, ScanWay

LEMMA ScanForgets ==
    ASSUME DictInv, ScanInv, NEW ks, Forget(ks)
    PROVE  ScanInv'
<1> DEFINE o == scan.owed /\ watched \notin ks
<1>1. scan' = [scan EXCEPT !.owed = o] /\ watched' = watched
  BY DEF Forget
<1>2. KeysIn(map') = KeysIn(map) \ ks
  BY MapDropped DEF Forget, DictInv, Represents
<1> HIDE DEF o
<1>3. /\ scan'.running = scan.running /\ scan'.v = scan.v
      /\ scan'.midway = scan.midway /\ scan'.owed = o
  BY <1>1 DEF DictInv, ScanFine
<1>4. o => scan.owed /\ watched \notin ks
  BY DEF o
<1> QED
  BY <1>1, <1>2, <1>3, <1>4 DEF ScanInv, ScanWay

LEMMA ScanGoes ==
    ASSUME DictInv, ScanInv, DictScan
    PROVE  ScanInv'
<1> DEFINE n == Small(d).size
           m == Large(d).size
           v == IF dictSize(d) = 0 THEN 0 ELSE NextCursor(scan.v, n)
           due == IF scan.running THEN scan.owed ELSE watched \in Present
           left == dictSize(d) = 0 \/ \A e \in Emitted(d, scan.v) : e.key # watched
           mid == scan.running /\ (scan.midway \/ (scan.v >= n /\ m >= 4 * n))
<1>1. scan' = [running |-> v # 0, v |-> v, midway |-> mid, owed |-> due /\ left]
  BY DEF DictScan
<1>2. map' = map /\ watched' = watched /\ watched \in Keys /\ ScanWay(scan, KeysIn(map), watched)
  BY DEF DictScan, ScanInv
<1>3. DictFine(d) /\ Content(d) = MapOf(map) /\ scan.v \in Nat
  BY DEF DictInv, Represents, ScanFine
<1> DEFINE h == Hash[watched]
<1>4. ASSUME due
      PROVE  /\ watched \in KeysIn(map)
             /\ ~mid => NotYet(h, scan.v) /\ (scan.running => ~(scan.v >= n /\ m >= 4 * n))
  <2>1. CASE scan.running
    BY <1>2, <1>4, <2>1 DEF ScanWay
  <2>2. CASE ~scan.running
    <3>1. watched \in KeysIn(map)
      BY <1>4, <2>2, PresentKeys
    <3>2. scan.v = 0
      BY <1>2, <2>2 DEF ScanWay
    <3>3. NotYet(h, 0)
      BY <1>2, HashAssumption, NotYetFirst
    <3> QED
      BY <2>2, <3>1, <3>2, <3>3
  <2> QED
    BY <2>1, <2>2
<1>5. ASSUME due, left
      PROVE  watched \in KeysIn(map) /\ (~mid => v # 0 /\ NotYet(h, v))
  <2> DEFINE e == [key |-> watched, val |-> map[watched]]
  <2>1. e \in Content(d) /\ e.key = watched
    BY <1>3, <1>4, <1>5, MapEntry
  <2> HIDE DEF e
  <2>2. dictSize(d) # 0
    <3>1. Content(d) # {}
      BY <2>1
    <3> QED
      BY <1>3, <3>1, SizeCounts
  <2>3. \A f \in Emitted(d, scan.v) : f.key # e.key
    BY <1>5, <2>1, <2>2
  <2>4. ASSUME ~mid PROVE v # 0 /\ NotYet(h, v)
    <3>1. NotYet(Hash[e.key], scan.v)
      BY <1>4, <1>5, <2>1, <2>4
    <3>2. Power(n) /\ n \in Nat \ {0}
      <4>1. Content(d) # {}
        BY <2>1
      <4>2. Power(n)
        BY <1>3, <4>1, SizesFine
      <4> QED
        BY <4>2 DEF Power
    <3>3. ~(scan.v >= n /\ m >= 4 * n)
      <4>1. CASE scan.running
        BY <1>4, <1>5, <2>4, <4>1
      <4>2. CASE ~scan.running
        <5>1. scan.v = 0
          BY <1>2, <4>2 DEF ScanWay
        <5> HIDE DEF n
        <5> QED
          BY <3>2, <5>1
      <4> QED
        BY <4>1, <4>2
    <3>4. Hash[e.key] % n # scan.v % n
      BY <1>3, <2>1, <2>3, <3>1, <3>3, ScanEmits
    <3>5. Hash[e.key] = h /\ h \in Nat
      BY <1>2, <2>1, HashAssumption
    <3>6. v = NextCursor(scan.v, n)
      BY <2>2
    <3> DEFINE c == scan.v
    <3>7. c \in Nat /\ NotYet(h, c) /\ h % n # c % n
      BY <1>3, <3>1, <3>4, <3>5
    <3> HIDE DEF n, h, c
    <3>8. NextCursor(c, n) # 0 /\ NotYet(h, NextCursor(c, n))
      BY <3>2, <3>5, <3>7, CursorNext
    <3> QED
      BY <3>6, <3>8 DEF c
  <2> QED
    BY <1>4, <1>5, <2>4
<1> HIDE DEF v, due, left, mid, h
<1>6. /\ scan'.running <=> v # 0
      /\ scan'.v = v
      /\ scan'.midway <=> mid
      /\ scan'.owed <=> due /\ left
  BY <1>1
<1>7. ScanWay(scan', KeysIn(map), watched)
  <2>1. Hash[watched] = h
    BY DEF h
  <2> QED
    BY <1>5, <1>6, <2>1 DEF ScanWay
<1> QED
  BY <1>2, <1>7 DEF ScanInv

LEMMA ScanInvKept == DictInv /\ ScanInv /\ [DictNext]_dictVars => ScanInv'
<1> SUFFICES ASSUME DictInv, ScanInv, [DictNext]_dictVars PROVE ScanInv'
  OBVIOUS
<1>0. map \in MapType
  BY DEF DictInv, Represents
<1>1. ASSUME NEW k \in Keys, NEW v \in Vals, Add(k, v) PROVE ScanInv'
  <2>1. KeysIn([map EXCEPT ![k] = v]) = KeysIn(map) \cup {k}
    BY <1>0, MapSet
  <2>2. scan' = scan /\ watched' = watched /\ (map' = map \/ map' = [map EXCEPT ![k] = v])
    BY <1>1 DEF Add, Aside
  <2> QED
    BY <2>1, <2>2, ScanKept
<1>2. ASSUME NEW k \in Keys, NEW v \in Vals, Replace(k, v) PROVE ScanInv'
  <2>1. KeysIn([map EXCEPT ![k] = v]) = KeysIn(map) \cup {k}
    BY <1>0, MapSet
  <2>2. scan' = scan /\ watched' = watched /\ map' = [map EXCEPT ![k] = v]
    BY <1>2 DEF Replace, Aside
  <2> QED
    BY <2>1, <2>2, ScanKept
<1>3. ASSUME NEW k \in Keys, Delete(k) PROVE ScanInv'
  <2> DEFINE ks == IF Has(Find(d), k) THEN {k} ELSE {}
  <2>1. Forget(ks)
    BY <1>3 DEF Delete
  <2> HIDE DEF ks
  <2> QED
    BY <2>1, ScanForgets
<1>4. ASSUME scan' = scan, watched' = watched, map' = map PROVE ScanInv'
  BY <1>4, ScanKept
<1>5. ASSUME NEW k \in Keys, Fetch(k) PROVE ScanInv'
  BY <1>4, <1>5 DEF Fetch, Aside
<1>6. CASE RandomKey
  BY <1>4, <1>6 DEF RandomKey, Aside
<1>7. ASSUME NEW count \in 1..2, SomeKeys(count) PROVE ScanInv'
  BY <1>4, <1>7 DEF SomeKeys, Aside
<1>8. ASSUME NEW n \in Sizes, Expand(n) PROVE ScanInv'
  BY <1>4, <1>8 DEF Expand, Resized
<1>9. CASE Resize
  BY <1>4, <1>9 DEF Resize, Resized
<1>10. ASSUME NEW n \in 1..2, Rehash(n) PROVE ScanInv'
  BY <1>4, <1>10 DEF Rehash
<1>11. ASSUME NEW b \in BOOLEAN, SetResize(b) PROVE ScanInv'
  BY <1>4, <1>11 DEF SetResize, Aside
<1>12. CASE DictEmpty
  <2>1. Forget(Keys)
    BY <1>12 DEF DictEmpty
  <2> QED
    BY <2>1, ScanForgets
<1>13. ASSUME NEW safe \in BOOLEAN, GetIterator(safe) PROVE ScanInv'
  BY <1>4, <1>13 DEF GetIterator
<1>14. CASE IterNext
  BY <1>4, <1>14 DEF IterNext
<1>15. CASE Release
  BY <1>4, <1>15 DEF Release
<1>16. CASE DictScan
  BY <1>16, ScanGoes
<1>17. CASE UNCHANGED dictVars
  BY <1>4, <1>17 DEF dictVars
<1> QED
  BY <1>1, <1>2, <1>3, <1>5, <1>6, <1>7, <1>8, <1>9, <1>10, <1>11, <1>12, <1>13, <1>14, <1>15,
     <1>16, <1>17 DEF DictNext

\* A scan returns every element that is there from its first call to its last, while the table
\* grows, shrinks and is rehashed between the calls, unless one of its calls after the first met,
\* with a cursor that has bits above the smaller table, a larger one of at least four times the
\* size (dict.c:861-920).
THEOREM ScanCompleteCorrect == DictSpec => []ScanComplete
<1>1. DictInit => DictInv /\ ScanInv
  BY InitRight, ScanInit
<1>2. DictInv /\ ScanInv /\ [DictNext]_dictVars => (DictInv /\ ScanInv)'
  BY NextKeeps, ScanInvKept
<1>3. DictInv /\ ScanInv => ScanComplete
  BY DEF ScanInv, ScanWay, ScanComplete
<1> QED
  BY <1>1, <1>2, <1>3, PTL DEF DictSpec

==============================================================================
