------------------------------- MODULE AeLoop -------------------------------
(***************************************************************************)
(* ae.c and ae_epoll.c: one event loop as its own thread sees it.  An      *)
(* iteration asks epoll, calls the handlers of what has fired, and then    *)
(* those of the timers that are due.  A handler may create and delete file *)
(* and time events itself, its own and those that are still to be served.  *)
(***************************************************************************)
EXTENDS Integers, SequencesExt, FiniteSetsExt

CONSTANTS
    SetSizes,       \* the set sizes asked for, the first of them at creation
    SharedFds,      \* the descriptors with one handler for both directions
    Second,         \* clock ticks in a second
    Asked,          \* bound: the directions asked for, for each descriptor
    HandlerOps,     \* bound: the operations of one handler
    Delays,         \* bound: the delays of the timers
    MaxTimers,      \* bound: the time events created in all
    MaxClock        \* bound: the clock

ASSUME SetSizeAssumption == SetSizes \in Seq(Nat \ {0}) /\ SetSizes # <<>>
ASSUME SecondAssumption == Second \in Nat \ {0}

VARIABLES
    ev,     \* setsize, maxfd and the masks of the events
    epoll,  \* what the kernel has been asked to report
    timers, \* the list of time events, timeEventNextId and lastTime
    clock,  \* the time of day, in ticks: the epoch's first second is over
    at,     \* where the thread is in the iteration
    seen    \* history: what the iteration owes, what its handlers have created,
            \* and the timers that were due when the pass began

aeVars == <<ev, epoll, timers, clock, at, seen>>

Bits == {"readable", "writable"}
Fds == 0..Max(ToSet(SetSizes)) - 1
NoCall == <<>>

ASSUME AskedAssumption == Asked \in [Fds -> SUBSET Bits]
ASSUME BoundAssumption == /\ MaxClock \in Nat /\ MaxClock >= Second
                          /\ HandlerOps \in Nat /\ Delays \subseteq Nat

-----------------------------------------------------------------------------

\* aeCreateEventLoop
AeInit ==
    /\ ev = [setsize |-> Head(SetSizes), maxfd |-> -1, mask |-> [fd \in Fds |-> {}]]
    /\ epoll = [fd \in Fds |-> {}]
    /\ timers = [list |-> <<>>, nextId |-> 0, lastTime |-> 1]
    /\ clock = Second
    /\ at = [pc |-> "idle", fired |-> <<>>, rfired |-> FALSE, call |-> NoCall, ops |-> HandlerOps,
             until |-> 0, maxId |-> -1, te |-> 0]
    /\ seen = [owed |-> {}, fresh |-> {}, due |-> {}]

\* The greatest descriptor with an event, -1 if there is none.
Highest(mask) == Max({fd \in Fds : mask[fd] # {}} \cup {-1})

\* Mistake: the next lower descriptor is taken to have an event.
DroppedOneDown(e, fd, bits) ==
    LET mask == [e.mask EXCEPT ![fd] = @ \ bits]
    IN [e EXCEPT !.mask = mask, !.maxfd = IF fd = @ /\ mask[fd] = {} THEN fd - 1 ELSE @]

\* The search downwards of aeDeleteFileEvent.
Dropped(e, fd, bits) ==
    LET mask == [e.mask EXCEPT ![fd] = @ \ bits]
    IN [e EXCEPT !.mask = mask, !.maxfd = IF fd = @ /\ mask[fd] = {} THEN Highest(mask) ELSE @]

(* What a handler, or beforesleep between two iterations, may do.          *)
MayAct == at.ops > 0 /\ (at.call # NoCall \/ at.pc = "idle")
Acted == at' = [at EXCEPT !.ops = @ - 1]

CreateFileEvent(fd, bits) ==
    /\ MayAct /\ fd < ev.setsize /\ Acted
    /\ epoll' = [epoll EXCEPT ![fd] = ev.mask[fd] \cup bits]
    /\ ev' = [ev EXCEPT !.mask[fd] = @ \cup bits, !.maxfd = Max({@, fd})]
    /\ seen' = [seen EXCEPT !.fresh = @ \cup ({fd} \X bits)]
    /\ UNCHANGED <<timers, clock>>

DeleteFileEvent(fd, bits) ==
    /\ MayAct /\ fd < ev.setsize /\ ev.mask[fd] # {} /\ Acted
    /\ epoll' = [epoll EXCEPT ![fd] = ev.mask[fd] \ bits]
    /\ ev' = Dropped(ev, fd, bits)
    /\ seen' = [seen EXCEPT !.owed = @ \ ({fd} \X bits), !.fresh = @ \ ({fd} \X bits)]
    /\ UNCHANGED <<timers, clock>>

\* aeResizeSetSize, which a handler of an iteration must not call: the fired
\* events are reallocated.
ResizeSetSize(n) ==
    /\ MayAct /\ at.pc = "idle" /\ n # ev.setsize /\ ev.maxfd < n /\ Acted
    /\ ev' = [ev EXCEPT !.setsize = n,
                        !.mask = [fd \in Fds |-> IF fd \in ev.maxfd + 1..n - 1 THEN {} ELSE @[fd]]]
    /\ UNCHANGED <<epoll, timers, clock, seen>>

\* A timer goes to the head of the list.
CreateTimeEvent(delay) ==
    /\ MayAct /\ timers.nextId < MaxTimers /\ Acted
    /\ timers' = [timers EXCEPT !.nextId = @ + 1,
                    !.list = <<[id |-> timers.nextId, when |-> clock + delay]>> \o @]
    /\ UNCHANGED <<ev, epoll, clock, seen>>

\* The search of aeDeleteTimeEvent, which ends at the first timer with the id.
Without(list, id) == RemoveFirstMatch(list, LAMBDA t : t.id = id)

\* A handler deletes another timer than the one it serves.
DeleteTimeEvent(id) ==
    /\ MayAct /\ at.call # <<id>> /\ Acted
    /\ timers' = [timers EXCEPT !.list = Without(@, id)]
    /\ seen' = [seen EXCEPT !.due = @ \ {id}]
    /\ UNCHANGED <<ev, epoll, clock>>

-----------------------------------------------------------------------------
(* aeProcessEvents, the file events.                                       *)

\* Mistake: the second that was borrowed for the rest is not taken off.
TimeoutNoBorrow(when) ==
    LET borrow == IF when % Second < clock % Second THEN 1 ELSE 0
        sec == (when \div Second) - (clock \div Second)
    IN (Max({sec, 0}) + borrow) * Second + (when % Second) - (clock % Second)

\* The time epoll_wait may take, computed from the nearest timer: seconds and
\* ticks apart, the seconds not below zero.
Timeout(when) ==
    LET borrow == IF when % Second < clock % Second THEN 1 ELSE 0
        sec == (when \div Second) - (clock \div Second) - borrow
    IN (Max({sec, 0}) + borrow) * Second + (when % Second) - (clock % Second)

Nearest == Min({timers.list[i].when : i \in DOMAIN timers.list})

\* The call of epoll_wait; -1 is no limit.
Poll ==
    /\ at.pc = "idle"
    /\ at' = [at EXCEPT !.pc = "wait", !.until = IF timers.list = <<>> THEN -1
                                                 ELSE clock + Timeout(Nearest)]
    /\ UNCHANGED <<ev, epoll, timers, clock, seen>>

\* epoll_wait returns some of what was asked for, in any order.  An error or a
\* hangup, which is reported unasked, counts as writable.
PollReturns ==
    /\ at.pc = "wait"
    /\ \E ready \in [{fd \in Fds : epoll[fd] # {}} -> SUBSET Bits] :
         LET fds == {fd \in DOMAIN ready : ready[fd] # {}} IN
         /\ fds = {} => at.until # -1 /\ clock >= at.until
         /\ \A fd \in fds : ready[fd] \subseteq epoll[fd] \cup {"writable"}
         /\ \E order \in SetToSeqs(fds) :
              at' = [at EXCEPT !.pc = "fired", !.rfired = FALSE, !.until = 0, !.ops = 0,
                               !.fired = [i \in DOMAIN order |-> [fd |-> order[i], mask |-> ready[order[i]]]]]
         /\ seen' = [seen EXCEPT !.owed = UNION {{fd} \X (ready[fd] \cap ev.mask[fd]) : fd \in fds},
                                 !.fresh = {}]
    /\ UNCHANGED <<ev, epoll, timers, clock>>

\* Mistake: what has fired is served.
StillWantedFired(e, bit) == bit \in e.mask
\* fe->mask & mask & bit, asked anew before each call.
StillWanted(e, bit) == bit \in e.mask \cap ev.mask[e.fd]

Enter(e, bit) ==
    /\ at' = [at EXCEPT !.call = <<e.fd, bit>>, !.ops = HandlerOps, !.rfired = bit = "readable",
                        !.fired = IF bit = "readable" THEN @ ELSE Tail(@)]
    /\ seen' = [seen EXCEPT !.owed = @ \ IF e.fd \in SharedFds THEN {e.fd} \X Bits ELSE {<<e.fd, bit>>}]

\* The body of the loop over what has fired: the readable handler first, then
\* the writable one, unless it is the same and has been called.
ServeFired ==
    /\ at.pc = "fired" /\ at.call = NoCall /\ at.fired # <<>>
    /\ LET e == Head(at.fired) IN
       IF ~at.rfired /\ StillWanted(e, "readable") THEN Enter(e, "readable")
       ELSE IF StillWanted(e, "writable") /\ ~(at.rfired /\ e.fd \in SharedFds) THEN Enter(e, "writable")
       ELSE at' = [at EXCEPT !.fired = Tail(@), !.rfired = FALSE] /\ UNCHANGED seen
    /\ UNCHANGED <<ev, epoll, timers, clock>>

HandlerReturns ==
    /\ at.pc = "fired" /\ at.call # NoCall
    /\ at' = [at EXCEPT !.call = NoCall, !.ops = 0]
    /\ UNCHANGED <<ev, epoll, timers, clock, seen>>

-----------------------------------------------------------------------------
(* processTimeEvents.                                                      *)

\* A clock that went back makes every timer due: the seconds become 0, the
\* rest stays.
BeginTimers ==
    LET back == clock \div Second < timers.lastTime
        list == [i \in DOMAIN timers.list |->
                   [timers.list[i] EXCEPT !.when = IF back THEN @ % Second ELSE @]]
    IN /\ at.pc = "fired" /\ at.call = NoCall /\ at.fired = <<>>
       /\ timers' = [timers EXCEPT !.list = list, !.lastTime = clock \div Second]
       /\ at' = [at EXCEPT !.pc = "timers", !.maxId = timers.nextId - 1, !.te = 1]
       /\ seen' = [seen EXCEPT !.due = {t.id : t \in {u \in ToSet(list) : back \/ u.when <= clock}}]
       /\ UNCHANGED <<ev, epoll, clock>>

Eligible(t) == t.id <= at.maxId /\ t.when <= clock

\* The loop's body at te.
VisitTimer ==
    /\ at.pc = "timers" /\ at.call = NoCall /\ at.te <= Len(timers.list)
    /\ LET t == timers.list[at.te] IN
       IF Eligible(t)
         THEN /\ at' = [at EXCEPT !.call = <<t.id>>, !.ops = HandlerOps]
              /\ seen' = [seen EXCEPT !.due = @ \ {t.id}]
         ELSE at' = [at EXCEPT !.te = @ + 1] /\ UNCHANGED seen
    /\ UNCHANGED <<ev, epoll, timers, clock>>

\* Mistake: the list is followed from where it was.
AfterCall == at.te + 1
\* After a call the list is walked from its head again.
Restart == 1

\* A handler returns a delay, or AE_NOMORE (0 here).
TimerReturns(delay) ==
    /\ at.pc = "timers" /\ at.call # NoCall
    /\ LET id == at.call[1]
           again == [i \in DOMAIN timers.list |->
                       IF timers.list[i].id = id
                         THEN [timers.list[i] EXCEPT !.when = clock + delay]
                         ELSE timers.list[i]]
       IN timers' = [timers EXCEPT !.list = IF delay = 0 THEN Without(@, id) ELSE again]
    /\ at' = [at EXCEPT !.call = NoCall, !.ops = 0, !.te = Restart]
    /\ UNCHANGED <<ev, epoll, clock, seen>>

EndTimers ==
    /\ at.pc = "timers" /\ at.call = NoCall /\ at.te > Len(timers.list)
    /\ at' = [at EXCEPT !.pc = "idle", !.ops = HandlerOps, !.te = 0, !.maxId = -1]
    /\ UNCHANGED <<ev, epoll, timers, clock, seen>>

-----------------------------------------------------------------------------

\* The time passes, or is set back by a second; what was due need not be then.
Tick ==
    /\ clock < MaxClock /\ clock' = clock + 1
    /\ UNCHANGED <<ev, epoll, timers, at, seen>>
SetBack ==
    /\ clock >= 2 * Second /\ clock' = clock - Second
    /\ seen' = [seen EXCEPT !.due = {}]
    /\ UNCHANGED <<ev, epoll, timers, at>>

AeNext ==
    \/ \E fd \in Fds : \E bits \in (SUBSET Asked[fd]) \ {{}} : CreateFileEvent(fd, bits) \/ DeleteFileEvent(fd, bits)
    \/ \E n \in ToSet(SetSizes) : ResizeSetSize(n)
    \/ \E delay \in Delays : CreateTimeEvent(delay) \/ TimerReturns(delay)
    \/ TimerReturns(0)
    \/ \E i \in DOMAIN timers.list : DeleteTimeEvent(timers.list[i].id)
    \/ Poll \/ PollReturns \/ ServeFired \/ HandlerReturns
    \/ BeginTimers \/ VisitTimer \/ EndTimers
    \/ Tick \/ SetBack

AeSpec == AeInit /\ [][AeNext]_aeVars

-----------------------------------------------------------------------------

\* maxfd, on which aeResizeSetSize and the test of ae.c:376 rely, is the greatest
\* descriptor with an event, and the kernel is asked for exactly the events that
\* have a handler, whatever the handlers have created and deleted.
AeTypeOK ==
    /\ ev.mask \in [Fds -> SUBSET Bits] /\ ev.setsize \in ToSet(SetSizes)
    /\ ev.maxfd = Highest(ev.mask) /\ ev.maxfd < ev.setsize
    /\ epoll = ev.mask
    /\ \A i \in DOMAIN at.fired : at.fired[i].fd \in Fds
    /\ at.pc \in {"idle", "wait", "fired", "timers"} /\ clock \in Second..MaxClock

\* A handler is called for an event that has fired and that no earlier handler
\* of the iteration has deleted (ae.c:424), once if it serves both directions,
\* or for one that was created in the same iteration for a descriptor that had
\* fired; and what has fired and was not deleted has been served in the end.
ServedWhatFired ==
    /\ [][at.pc = "fired" /\ at'.call # at.call /\ at'.call # NoCall
            => at'.call \in seen.owed \cup seen.fresh]_aeVars
    /\ [](at.pc = "timers" => seen.owed = {})

\* One pass calls every timer that was due when it began, all of them if the
\* clock had gone back since the last pass (ae.c:286-308), unless a handler has
\* deleted it or the clock is set back meanwhile; timers that the handlers
\* create wait for the next pass, so that they do not keep the pass going
\* (ae.c:321-330).
DueTimersRun ==
    /\ at.pc = "idle" => seen.due = {}
    /\ at.pc = "timers" /\ Len(at.call) = 1 => at.call[1] <= at.maxId

\* epoll_wait is given the very time to the nearest timer, seconds and rest
\* apart, while that timer is not overdue (ae.c:389-400).
SleepsToNearest ==
    [][Poll /\ timers.list # <<>> /\ Nearest >= clock => at'.until = Nearest]_aeVars

=============================================================================
