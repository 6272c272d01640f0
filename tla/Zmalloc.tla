------------------------------- MODULE Zmalloc -------------------------------
(***************************************************************************)
(* The allocator's account of used memory.  Every block has a header with  *)
(* its size, as on Linux with the C library's malloc.  No caller enables   *)
(* zmalloc_thread_safe, so that used_memory is loaded and stored by        *)
(* whichever threads allocate and free.                                    *)
(***************************************************************************)
EXTENDS Integers, Sequences, FiniteSets, Functions

CONSTANTS
    Users,          \* the threads
    Blocks,         \* the addresses malloc returns
    Word,           \* sizeof(long), which is sizeof(size_t)
    MaxSize,        \* bound: the largest size asked for
    MaxCalls        \* bound: the calls made

ASSUME ZmallocAssumption ==
    /\ IsFiniteSet(Users) /\ IsFiniteSet(Blocks)
    /\ Word \in Nat \ {0} /\ MaxSize \in Nat /\ MaxCalls \in Nat

VARIABLES
    used_memory,
    header,     \* header[b]: the size in front of an allocated block
    todo,       \* todo[t]: what thread t still has to add to used_memory
    loaded,     \* loaded[t]: <<n>> once it has loaded n for that
    calls,
    overlapped  \* history: two updates have been under way at once

zmallocVars == <<used_memory, header, todo, loaded, calls, overlapped>>

None == -1
PREFIX_SIZE == Word

\* update_zmalloc_stat_alloc and _free round up to whole words.
Rounded(n) == IF n % Word = 0 THEN n ELSE n + Word - (n % Word)

ZmallocInit ==
    /\ used_memory = 0 /\ calls = 0 /\ overlapped = FALSE
    /\ header = [b \in Blocks |-> None]
    /\ todo = [t \in Users |-> <<>>] /\ loaded = [t \in Users |-> <<>>]

Call(t, b, size, updates) ==
    /\ todo[t] = <<>> /\ calls < MaxCalls
    /\ calls' = calls + 1
    /\ header' = [header EXCEPT ![b] = size]
    /\ todo' = [todo EXCEPT ![t] = updates]
    /\ UNCHANGED <<used_memory, loaded, overlapped>>

\* zmalloc and zcalloc; zrealloc of NULL.
Allocate(t, b, size) ==
    /\ header[b] = None
    /\ Call(t, b, size, <<Rounded(size + PREFIX_SIZE)>>)

\* Mistake: the old block is counted with its header, the new one without.
ReallocatePrefixed(t, b, size) ==
    /\ header[b] # None
    /\ Call(t, b, size, <<-Rounded(header[b] + PREFIX_SIZE), Rounded(size)>>)

\* zrealloc: both updates leave the headers out.
Reallocate(t, b, size) ==
    /\ header[b] # None
    /\ Call(t, b, size, <<-Rounded(header[b]), Rounded(size)>>)

\* zfree; no other thread has the block.
Free(t, b) ==
    /\ header[b] # None
    /\ Call(t, b, None, <<-Rounded(header[b] + PREFIX_SIZE)>>)

Load(t) ==
    /\ todo[t] # <<>> /\ loaded[t] = <<>>
    /\ loaded' = [loaded EXCEPT ![t] = <<used_memory>>]
    /\ overlapped' = (overlapped \/ \E o \in Users : loaded[o] # <<>>)
    /\ UNCHANGED <<used_memory, header, todo, calls>>

Store(t) ==
    /\ loaded[t] # <<>>
    /\ used_memory' = Head(loaded[t]) + Head(todo[t])
    /\ todo' = [todo EXCEPT ![t] = Tail(@)]
    /\ loaded' = [loaded EXCEPT ![t] = <<>>]
    /\ UNCHANGED <<header, calls, overlapped>>

ZmallocNext == \E t \in Users :
    \/ Load(t) \/ Store(t)
    \/ \E b \in Blocks : Free(t, b) \/ \E n \in 1..MaxSize : Allocate(t, b, n) \/ Reallocate(t, b, n)

ZmallocSpec == ZmallocInit /\ [][ZmallocNext]_zmallocVars

-----------------------------------------------------------------------------

zmalloc_size(b) == Rounded(header[b]) + PREFIX_SIZE

\* zmalloc_used_memory is the sum of what zmalloc_size says of the blocks when no
\* thread is changing it, unless two have changed it at once (zmalloc.c:89, 100).
Accounted ==
    (\A t \in Users : todo[t] = <<>>) /\ ~overlapped
      => used_memory = SumFunction([b \in Blocks |-> IF header[b] = None THEN 0 ELSE zmalloc_size(b)])
=============================================================================
