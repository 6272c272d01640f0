-------------------------------- MODULE Dict --------------------------------
(***************************************************************************)
(* dict.c: a hash table with chains that grows and shrinks while it is in  *)
(* use.  A resize allocates ht[1]; most calls then move one bucket of      *)
(* ht[0], until ht[1] takes its place.  The server links the dictionary    *)
(* and has no caller for it, so that any sequence of calls is possible;    *)
(* one caller holds at most one iterator and one scan at a time.           *)
(***************************************************************************)
EXTENDS Integers, SequencesExt, FiniteSetsExt

CONSTANTS
    Keys, Vals,
    Missing,        \* NULL
    Hash,           \* Hash[k]: what the type's hash function returns
    InitialSize,    \* DICT_HT_INITIAL_SIZE
    ForceRatio,     \* dict_force_resize_ratio
    EmptyVisits,    \* the empty buckets a rehash step may visit (10)
    Sizes           \* bound: the sizes callers ask dictExpand for

ASSUME HashAssumption == Hash \in [Keys -> Nat] /\ Missing \notin Keys \cup Vals
\* DICT_HT_INITIAL_SIZE is a power of two: no odd number but 1 divides it.
ASSUME SizeAssumption ==
    /\ InitialSize \in Nat \ {0} /\ \A q \in 2..InitialSize : InitialSize % q = 0 => q % 2 = 0
    /\ ForceRatio \in Nat /\ EmptyVisits \in Nat \ {0} /\ Sizes \subseteq Nat

VARIABLES
    d,      \* the dict: ht[0], ht[1], rehashidx, iterators, dict_can_resize
    iter,   \* the iterator, with the history of what it handed out
    scan,   \* the cursor of dictScan, with the history of what it emitted
    \* The remaining variables record history; no call tests them.
    map,    \* what the calls put into the dictionary
    watched,\* the key, any one, whose way through the iterations is recorded
    agree,  \* the last call answered what a map would
    spoiled \* dictEmpty was called under a safe iterator

dictVars == <<d, iter, scan, map, watched, agree, spoiled>>

-----------------------------------------------------------------------------
(* Tables.  A bucket is the sequence of its chain, the head first.         *)

\* What zcalloc and _dictReset leave.
NewTable(n) == [size |-> n, used |-> 0, table |-> [i \in 0..n - 1 |-> <<>>]]

\* h & sizemask
Index(k, t) == Hash[k] % t.size

dictIsRehashing(dd) == dd.rehashidx # -1

\* Mistake: the new table is forgotten.
TablesOld(dd) == {0}

\* The tables a call looks at: ht[1] only during rehashing.
Tables(dd) == IF dictIsRehashing(dd) THEN {0, 1} ELSE {0}

Chained(t) == UNION {ToSet(t.table[i]) : i \in DOMAIN t.table}
dictSize(dd) == dd.ht[0].used + dd.ht[1].used

\* The chain a lookup of k walks in one table, and the entry it finds.
Chain(dd, i, k) == IF dd.ht[i].size = 0 THEN <<>> ELSE dd.ht[i].table[Index(k, dd.ht[i])]
Holds(dd, i, k) == \E e \in ToSet(Chain(dd, i, k)) : e.key = k
Has(dd, k) == \E i \in Tables(dd) : Holds(dd, i, k)
Lookup(dd, k) ==
    IF ~Has(dd, k) THEN Missing
    ELSE LET i == CHOOSE i \in Tables(dd) : Holds(dd, i, k)
         IN (CHOOSE e \in ToSet(Chain(dd, i, k)) : e.key = k).val

\* entry->next = table[index]; table[index] = entry
Push(t, e) == [t EXCEPT !.table[Index(e.key, t)] = <<e>> \o @, !.used = @ + 1]

\* The chain that k belongs to, changed.
ChangeChain(t, k, Op(_)) == [t EXCEPT !.table[Index(k, t)] = Op(@)]

-----------------------------------------------------------------------------
(* Resizing.                                                               *)

\* _dictNextPower: the smallest power of two that is enough.
NextPower(n) ==
    LET p[i \in Nat] == IF i >= n THEN i ELSE p[i * 2] IN p[InitialSize]

\* dictExpand refuses a size that is too small or no change.
CanExpand(dd, n) ==
    ~dictIsRehashing(dd) /\ dd.ht[0].used <= n /\ NextPower(n) # dd.ht[0].size

dictExpand(dd, n) ==
    IF ~CanExpand(dd, n) THEN dd
    ELSE IF dd.ht[0].size = 0 THEN [dd EXCEPT !.ht[0] = NewTable(NextPower(n))]
    ELSE [dd EXCEPT !.ht[1] = NewTable(NextPower(n)), !.rehashidx = 0]

\* The chain of bucket b goes.
Emptied(t, b) == [t EXCEPT !.table[b] = <<>>, !.used = @ - Len(t.table[b])]

\* Mistake: the bucket the chain goes to is computed with the old mask.
MoveBucketOldMask(dd, b) ==
    [dd EXCEPT !.ht[0] = Emptied(@, b), !.rehashidx = b + 1,
               !.ht[1] = [dd.ht[1] EXCEPT !.table[b % dd.ht[1].size] = dd.ht[0].table[b] \o @,
                                          !.used = @ + Len(dd.ht[0].table[b])]]

\* The entries of a chain, one after the other.
PushAll(t, chain) ==
    LET st[i \in 0..Len(chain)] == IF i = 0 THEN t ELSE Push(st[i - 1], chain[i])
    IN st[Len(chain)]

\* One bucket goes to ht[1], which reverses its chain.
MoveBucket(dd, b) ==
    [dd EXCEPT !.ht[0] = Emptied(@, b), !.ht[1] = PushAll(@, dd.ht[0].table[b]), !.rehashidx = b + 1]

\* The outer loop's body; st.stop is "return 1" out of the inner loop.
RehashBucket(st) ==
    LET dd == st.d
        full == {i \in dd.rehashidx..dd.ht[0].size - 1 : dd.ht[0].table[i] # <<>>}
        empty == Min(full) - dd.rehashidx
    IN IF st.stop \/ dd.ht[0].used = 0 THEN st
       ELSE IF empty >= st.visits
              THEN [st EXCEPT !.d.rehashidx = @ + st.visits, !.stop = TRUE]
              ELSE [st EXCEPT !.d = MoveBucket(dd, Min(full)), !.visits = @ - empty]

dictRehash(dd, n) ==
    LET st[i \in 0..n] == IF i = 0 THEN [d |-> dd, visits |-> n * EmptyVisits, stop |-> FALSE]
                          ELSE RehashBucket(st[i - 1])
        moved == st[n].d
    IN IF ~dictIsRehashing(dd) THEN dd
       ELSE IF st[n].stop \/ moved.ht[0].used # 0 THEN moved
       ELSE [moved EXCEPT !.ht[0] = moved.ht[1], !.ht[1] = NewTable(0), !.rehashidx = -1]

\* Mistake: the iterators are not looked at.
RehashStepAlways(dd) == dictRehash(dd, 1)

\* _dictRehashStep
RehashStep(dd) == IF dd.iterators = 0 THEN dictRehash(dd, 1) ELSE dd

\* _dictExpandIfNeeded
ExpandIfNeeded(dd) ==
    LET t == dd.ht[0] IN
    IF dictIsRehashing(dd) THEN dd
    ELSE IF t.size = 0 THEN dictExpand(dd, InitialSize)
    ELSE IF t.used >= t.size /\ (dd.can_resize \/ t.used \div t.size > ForceRatio)
      THEN dictExpand(dd, t.used * 2)
      ELSE dd

-----------------------------------------------------------------------------
(* Adding, changing, removing and finding.                                 *)

\* dictAddRaw with the value set by dictAdd: _dictKeyIndex expands the table
\* before it looks for the key.
AddEntry(dd, k, v) ==
    LET x == ExpandIfNeeded(RehashStep(dd))
        i == IF dictIsRehashing(x) THEN 1 ELSE 0
    IN IF Has(x, k) THEN x ELSE [x EXCEPT !.ht[i] = Push(@, [key |-> k, val |-> v])]

\* dictFind: a step of rehashing, unless there is no table at all.
Find(dd) == IF dd.ht[0].size = 0 THEN dd ELSE RehashStep(dd)

SetVal(dd, k, v) ==
    LET i == CHOOSE i \in Tables(dd) : Holds(dd, i, k)
        set(chain) == [j \in DOMAIN chain |-> IF chain[j].key = k THEN [chain[j] EXCEPT !.val = v]
                                              ELSE chain[j]]
    IN [dd EXCEPT !.ht[i] = ChangeChain(dd.ht[i], k, set)]

Unlink(dd, k) ==
    LET i == CHOOSE i \in Tables(dd) : Holds(dd, i, k)
        drop(chain) == RemoveAt(chain, CHOOSE j \in DOMAIN chain : chain[j].key = k)
    IN [dd EXCEPT !.ht[i] = [ChangeChain(dd.ht[i], k, drop) EXCEPT !.used = @ - 1]]

-----------------------------------------------------------------------------
(* The calls.  What an iteration does is recorded for one watched key.     *)
(* owed: the key was there when the iteration began, has not been removed  *)
(* and not been handed out; given: it has been handed out.                 *)

NoIter == [open |-> FALSE, safe |-> FALSE, table |-> 0, index |-> -1, next |-> Missing,
           fingerprint |-> <<>>, owed |-> FALSE, given |-> FALSE, twice |-> FALSE,
           done |-> FALSE, lost |-> FALSE]
NoScan == [running |-> FALSE, v |-> 0, owed |-> FALSE, midway |-> FALSE]

Started(it) == ~(it.index = -1 /\ it.table = 0)

\* An iterator whose iteration is given up: what remains is its release.
Lose(it) == IF Started(it) THEN [NoIter EXCEPT !.open = TRUE, !.safe = it.safe, !.index = 0,
                                               !.lost = TRUE]
            ELSE it

DictInit ==
    /\ d = [ht |-> [i \in {0, 1} |-> NewTable(0)], rehashidx |-> -1, iterators |-> 0,
            can_resize |-> TRUE]
    /\ map = [k \in Keys |-> Missing] /\ agree = TRUE /\ watched \in Keys
    /\ iter = NoIter /\ scan = NoScan /\ spoiled = FALSE

\* The keys a map would hold.
Present == {k \in Keys : map[k] # Missing}

\* What a map would answer is what the call has answered.
Answer(right) == agree' = right
Aside == UNCHANGED <<iter, scan, watched, spoiled>>

\* The entries of the keys ks are freed.  An iterator that has saved one of
\* them as its next must not be used again; one that is not safe must not see
\* any removal.
Forget(ks) ==
    /\ iter' = IF iter.next \in ks \/ (~iter.safe /\ ks # {}) THEN Lose(iter)
               ELSE [iter EXCEPT !.owed = @ /\ watched \notin ks,
                                 !.given = @ /\ watched \notin ks]
    /\ scan' = [scan EXCEPT !.owed = @ /\ watched \notin ks]
    /\ UNCHANGED watched
    /\ map' = [k \in Keys |-> IF k \in ks THEN Missing ELSE map[k]]

\* dictAdd: the key is looked for after the step of rehashing.
Add(k, v) ==
    LET there == Has(ExpandIfNeeded(RehashStep(d)), k)
    IN /\ d' = AddEntry(d, k, v)
       /\ map' = IF there THEN map ELSE [map EXCEPT ![k] = v]
       /\ Answer(there = (k \in Present))
       /\ Aside

\* dictReplace: a key that is there is looked up again, which rehashes once
\* more.
Replace(k, v) ==
    LET there == Has(ExpandIfNeeded(RehashStep(d)), k)
        found == Find(AddEntry(d, k, v))
    IN /\ d' = IF there THEN SetVal(found, k, v) ELSE AddEntry(d, k, v)
       /\ map' = [map EXCEPT ![k] = v]
       /\ Answer(there = (k \in Present))
       /\ Aside

\* dictGenericDelete
Delete(k) ==
    LET there == Has(Find(d), k)
    IN /\ d' = IF there THEN Unlink(Find(d), k) ELSE Find(d)
       /\ Forget(IF there THEN {k} ELSE {})
       /\ Answer(there = (k \in Present))
       /\ UNCHANGED spoiled

\* dictFetchValue
Fetch(k) ==
    /\ d' = Find(d)
    /\ Answer(Lookup(d', k) = map[k])
    /\ UNCHANGED map /\ Aside

\* dictGetRandomKey takes a random entry of the first random bucket that is not
\* empty, where it looks in ht[0] from rehashidx on.
RandomKey ==
    LET from(i) == IF i = 0 /\ dictIsRehashing(d') THEN d'.rehashidx ELSE 0
    IN /\ dictSize(d) # 0
       /\ d' = RehashStep(d)
       /\ Answer(Present = {e.key : e \in UNION {UNION {ToSet(d'.ht[i].table[b]) :
                             b \in from(i)..d'.ht[i].size - 1} : i \in Tables(d')}})
       /\ UNCHANGED map /\ Aside

\* dictGetSomeKeys: a step of rehashing for each key asked for.  Which keys it
\* samples is left open.
SomeKeys(count) ==
    LET step[i \in 0..count] == IF i = 0 THEN d ELSE RehashStep(step[i - 1])
    IN /\ d' = step[Min({count, dictSize(d)})]
       /\ UNCHANGED <<map, agree>> /\ Aside

\* dictExpand called by the user, and dictResize.
Resized(dd) ==
    /\ d' = dd
    /\ iter' = IF iter.safe THEN iter ELSE Lose(iter)
    /\ UNCHANGED <<map, watched, agree, scan, spoiled>>
Expand(n) == CanExpand(d, n) /\ Resized(dictExpand(d, n))
Resize ==
    /\ d.can_resize /\ ~dictIsRehashing(d)
    /\ Resized(dictExpand(d, Max({d.ht[0].used, InitialSize})))

\* dictRehash called by the user, or by dictRehashMilliseconds: the iterators
\* are not looked at.
Rehash(n) ==
    /\ dictIsRehashing(d)
    /\ d' = dictRehash(d, n)
    /\ iter' = Lose(iter)
    /\ UNCHANGED <<map, watched, agree, scan, spoiled>>

\* dictEnableResize and dictDisableResize
SetResize(b) == d' = [d EXCEPT !.can_resize = b] /\ UNCHANGED <<map, agree>> /\ Aside

\* dictEmpty: both tables go, and the count of iterators is set to 0.
DictEmpty ==
    /\ ~spoiled
    /\ d' = [d EXCEPT !.ht = [i \in {0, 1} |-> NewTable(0)], !.rehashidx = -1, !.iterators = 0]
    /\ Forget(Keys)
    /\ spoiled' = (iter.open /\ iter.safe /\ Started(iter))
    /\ UNCHANGED agree

\* dictGetIterator and dictGetSafeIterator
GetIterator(safe) ==
    /\ ~iter.open /\ ~scan.running /\ ~spoiled
    /\ iter' = [NoIter EXCEPT !.open = TRUE, !.safe = safe]
    /\ UNCHANGED <<d, map, watched, agree, scan, spoiled>>

\* The tables' addresses are taken to be reused, so that they add nothing.
Fingerprint(dd) == [i \in {0, 1} |-> <<dd.ht[i].size, dd.ht[i].used>>]

\* The first bucket with a chain behind the iterator's position, or nothing.
\* ht[1] follows ht[0] if the table is being rehashed at that time.
NextBucket(dd, it) ==
    LET full(i, from) == {b \in from..dd.ht[i].size - 1 : dd.ht[i].table[b] # <<>>}
        here == full(it.table, it.index + 1)
        there == IF it.table = 0 /\ dictIsRehashing(dd) THEN full(1, 0) ELSE {}
    IN IF here # {} THEN {<<it.table, Min(here)>>}
       ELSE IF there # {} THEN {<<1, Min(there)>>}
       ELSE {}

\* entry->next of the entry of k, Missing at the end of its chain.
Successor(dd, k) ==
    LET keys(i) == [j \in DOMAIN Chain(dd, i, k) |-> Chain(dd, i, k)[j].key]
        i == CHOOSE i \in {0, 1} : Contains(keys(i), k)
        at == CHOOSE j \in DOMAIN keys(i) : keys(i)[j] = k
    IN IF at < Len(keys(i)) THEN keys(i)[at + 1] ELSE Missing

\* The iterator hands out the entry of k.
HandOut(it, k) ==
    [it EXCEPT !.next = Successor(d, k), !.owed = @ /\ k # watched,
               !.given = @ \/ k = watched, !.twice = @ \/ (k = watched /\ it.given)]

\* dictNext: the first call registers the iterator.  After NULL has been
\* returned, where the iterator stands does not matter any more.
IterNext ==
    LET first == ~Started(iter)
        it == IF ~first THEN iter
              ELSE [iter EXCEPT !.owed = watched \in Present,
                                !.fingerprint = IF iter.safe THEN <<>> ELSE Fingerprint(d)]
        after == NextBucket(d, it)
    IN /\ iter.open /\ ~iter.done /\ ~iter.lost
       /\ d' = IF first /\ iter.safe THEN [d EXCEPT !.iterators = @ + 1] ELSE d
       /\ iter' = IF it.next # Missing THEN HandOut(it, it.next)
                  ELSE IF after = {}
                    THEN [it EXCEPT !.done = TRUE, !.table = 1, !.index = 0, !.given = FALSE]
                  ELSE LET to == CHOOSE to \in after : TRUE
                       IN HandOut([it EXCEPT !.table = to[1], !.index = to[2]],
                                  Head(d.ht[to[1]].table[to[2]]).key)
       /\ UNCHANGED <<map, watched, agree, scan, spoiled>>

\* dictReleaseIterator: an assertion that fails ends the program; after a loss
\* both outcomes are possible.
Release ==
    /\ iter.open
    /\ (Started(iter) /\ ~iter.safe) => (iter.lost \/ iter.fingerprint = Fingerprint(d))
    /\ d' = IF Started(iter) /\ iter.safe THEN [d EXCEPT !.iterators = @ - 1] ELSE d
    /\ iter' = NoIter
    /\ UNCHANGED <<map, watched, agree, scan, spoiled>>

-----------------------------------------------------------------------------
(* dictScan: the cursor counts in reversed bit order.                      *)

\* rev over the bits of a table of size n (a power of two).
rev[n \in Nat \ {0}] ==
    [v \in 0..n - 1 |-> IF n = 1 THEN 0 ELSE (v % 2) * (n \div 2) + rev[n \div 2][v \div 2]]

\* Mistake: the cursor counts up from the low bits.
NextCursorPlain(v, n) == (v + 1) % n

\* v |= ~m0, then reverse, increment, reverse: the carry runs through the bits
\* above the mask and leaves them zero.
NextCursor(v, n) == rev[n][(rev[n][v % n] + 1) % n]

\* The tables in the order of their size.
Small(dd) == IF dictIsRehashing(dd) /\ dd.ht[0].size > dd.ht[1].size THEN dd.ht[1] ELSE dd.ht[0]
Large(dd) == IF dd.ht[0].size > dd.ht[1].size THEN dd.ht[0] ELSE dd.ht[1]

\* The buckets one call emits: that of the cursor in the smaller table, and its
\* expansions in the larger one, from the one the cursor has reached.
Emitted(dd, v) ==
    LET n == Small(dd).size
        m == Large(dd).size
        expansions == {b \in v % m..m - 1 : b % n = v % n}
    IN ToSet(Small(dd).table[v % n])
       \cup (IF dictIsRehashing(dd) THEN UNION {ToSet(Large(dd).table[b]) : b \in expansions}
             ELSE {})

\* A call with cursor 0 begins a scan, a returned cursor 0 ends it.
DictScan ==
    LET owed == IF scan.running THEN scan.owed ELSE watched \in Present
        n == Small(d).size
        v == IF dictSize(d) = 0 THEN 0 ELSE NextCursor(scan.v, n)
    IN /\ ~iter.open
       /\ scan' = [running |-> v # 0, v |-> v,
                   midway |-> scan.running /\ (scan.midway \/ (scan.v >= n /\ Large(d).size >= 4 * n)),
                   owed |-> owed /\ (dictSize(d) = 0 \/
                                     \A e \in Emitted(d, scan.v) : e.key # watched)]
       /\ UNCHANGED <<d, map, watched, agree, iter, spoiled>>

-----------------------------------------------------------------------------

DictNext ==
    \/ \E k \in Keys : \/ \E v \in Vals : Add(k, v) \/ Replace(k, v)
                       \/ Delete(k) \/ Fetch(k)
    \/ RandomKey
    \/ \E count \in 1..2 : SomeKeys(count)
    \/ \E n \in Sizes : Expand(n)
    \/ Resize
    \/ \E n \in 1..2 : Rehash(n)
    \/ \E b \in BOOLEAN : SetResize(b)
    \/ DictEmpty
    \/ \E safe \in BOOLEAN : GetIterator(safe)
    \/ IterNext
    \/ Release
    \/ DictScan

DictSpec == DictInit /\ [][DictNext]_dictVars

-----------------------------------------------------------------------------

\* The counters count the entries in the chains.
Entries == [key : Keys, val : Vals]
DictTypeOK ==
    /\ \A i \in {0, 1} :
         /\ d.ht[i].size \in Nat /\ d.ht[i].used = Cardinality(Chained(d.ht[i]))
         /\ d.ht[i].table \in [0..d.ht[i].size - 1 -> Seq(Entries)]
    /\ d.rehashidx \in -1..d.ht[0].size /\ d.iterators \in Int /\ d.can_resize \in BOOLEAN
    /\ iter.next \in Keys \cup {Missing} /\ iter.table \in {0, 1} /\ scan.v \in Nat

\* Where the entries of k are: table, bucket, place in the chain.
AllPlaces ==
    UNION {UNION {{<<i, b, j>> : j \in DOMAIN d.ht[i].table[b]} : b \in DOMAIN d.ht[i].table} : i \in {0, 1}}
Places(k) == {p \in AllPlaces : d.ht[p[1]].table[p[2]][p[3]].key = k}

\* With the types: every entry is in the bucket a lookup of its key searches, and there is one
\* for a key; there is nothing in ht[0] below rehashidx, where dictGetRandomKey
\* and dictGetSomeKeys do not look (dict.c:631, 711); ht[1] is there exactly while
\* the table is rehashed.
EntriesFound ==
    /\ DictTypeOK
    /\ \A k \in Keys :
         /\ Cardinality(Places(k)) <= 1
         /\ \A p \in Places(k) : /\ p[2] = Index(k, d.ht[p[1]])
                                 /\ p[1] = 0 => p[2] >= d.rehashidx
    /\ dictIsRehashing(d) <=> d.ht[1].size > 0

\* Rehashing stands still for exactly the safe iterators in use.
IteratorsCounted == d.iterators = IF iter.open /\ iter.safe /\ Started(iter) THEN 1 ELSE 0

\* An iterator that has reached its end has handed out each key that was there all
\* the time, and none twice.  A safe one, although the dictionary was changed and
\* a resize may have begun, unless the caller rehashed explicitly (dict.c:300) or
\* dictEmpty once set the count of iterators to 0 under an iterator, whose release
\* leaves it at -1 (dict.c:989, 612); one that is not safe, if the assertion of
\* dict.c:614 holds at the end, unless keys were removed or the caller resized or
\* rehashed, which can bring the sizes and counters back to what they were.
IterationComplete ==
    /\ ~spoiled => IteratorsCounted
    /\ iter.done /\ (IF iter.safe THEN ~spoiled ELSE iter.fingerprint = Fingerprint(d))
         => ~iter.owed /\ ~iter.twice

\* A scan returns every element that is there from its first call to its last,
\* while the table grows, shrinks and is rehashed between the calls.
ScanReturnsAll == ~scan.running => ~scan.owed

\* It does so unless a cursor with bits above the smaller of two tables met a
\* larger one of at least four times the size: the loop of dict.c:894-906 takes
\* the expansions counting up from the cursor, but the cursor, whose order is
\* reversed, has left some of the lower ones for later.
ScanComplete == ~scan.running /\ ~scan.midway => ~scan.owed

\* The dictionary is a map: a lookup finds what the calls have put there,
\* whatever was moved in the meantime, every call answers as a map would, and
\* dictGetRandomKey can return each key that is there, and no other.
IsMap == agree /\ \A k \in Keys : Lookup(d, k) = map[k]
=============================================================================
