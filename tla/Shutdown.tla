------------------------------ MODULE Shutdown -------------------------------
(***************************************************************************)
(* How the processes start and end.  The master catches SIGINT and SIGCHLD *)
(* and writes a byte for each into a socketpair that its main loop reads;  *)
(* the workers inherit that handler, and Ctrl+C reaches the whole process  *)
(* group.  A SIGINT byte makes the master send SIGTERM to the workers, a   *)
(* SIGCHLD byte makes it wait for all of them, and then it stops its       *)
(* reactor threads and exits.                                              *)
(***************************************************************************)
EXTENDS Integers, Sequences, FiniteSets

CONSTANTS
    Workers,        \* 1..workerNum
    Pollers,        \* 1..reactorNum, the reactor threads
    MaxInts,        \* bound: how often Ctrl+C is pressed
    MaxForkFails,   \* bound: how many fork() fail
    MaxCrashes      \* bound: how many workers end by themselves

ASSUME ShutdownAssumption ==
    /\ Workers = 1..Cardinality(Workers) /\ Pollers = 1..Cardinality(Pollers)
    /\ Workers # {} /\ Pollers # {} /\ IsFiniteSet(Pollers)

VARIABLES
    worker,     \* how far a worker has come
    stopW,      \* worker->el->stop
    signals,    \* signals[w]: signals that have reached w and are not handled yet
    recorded,   \* the workers whose pid servG->workers holds; the others' is -1
    master,     \* the step of the master's main thread
    next,       \* its loop counter
    pending,    \* signals that have reached the master and are not handled yet
    sigPipe,    \* bytes in the socketpair
    batch,      \* bytes that onSignEvent has received and still goes through
    mainStop,   \* mainReactor->eventLoop->stop
    poller,     \* how far a reactor thread has come
    stopP,      \* its eventLoop->stop
    cancelled,  \* threads with a pthread_cancel under way
    mutex,      \* the reactor that has locked r_mutex of a worker, or Unlocked
    freed,      \* how often a reactor's loop was deleted
    \* The remaining variables record history; no action tests them but for bounds.
    ints, failed, crashes, lost, killedAll

processVars == <<worker, stopW, signals>>
masterVars == <<recorded, master, next, batch, mainStop>>
pollerVars == <<poller, stopP, cancelled, mutex, freed>>
historyVars == <<ints, failed, crashes, lost, killedAll>>
shutdownVars == <<processVars, masterVars, pending, sigPipe, pollerVars, historyVars>>

Unlocked == 0
Live == {"born", "armed", "ready", "test", "drowsy", "asleep"}
Alive(w) == worker[w] \in Live
Children == {w \in Workers : Alive(w) \/ worker[w] = "zombie"}

\* Every pid is written by createWorkerProcess before anything reads it.
ShutdownInit ==
    /\ worker = [w \in Workers |-> "none"] /\ stopW = [w \in Workers |-> FALSE]
    /\ signals = [w \in Workers |-> {}]
    /\ recorded = {} /\ master = "fork" /\ next = 1 /\ batch = <<>> /\ mainStop = FALSE
    /\ pending = {} /\ sigPipe = <<>>
    /\ poller = [p \in Pollers |-> "none"] /\ stopP = [p \in Pollers |-> FALSE]
    /\ cancelled = {} /\ mutex = Unlocked /\ freed = [p \in Pollers |-> 0]
    /\ ints = 0 /\ failed = 0 /\ crashes = 0 /\ lost = FALSE /\ killedAll = FALSE

-----------------------------------------------------------------------------
(* Starting.                                                               *)

\* createWorkerProcess: a worker is forked with the master's handlers.
Fork ==
    /\ master = "fork" /\ next \in Workers
    /\ worker' = [worker EXCEPT ![next] = "born"]
    /\ recorded' = recorded \cup {next}
    /\ next' = next + 1
    /\ UNCHANGED <<stopW, signals, master, batch, mainStop, pending, sigPipe, pollerVars, historyVars>>

\* fork() fails: pid = -1, and the loop goes on.
ForkFails ==
    /\ master = "fork" /\ next \in Workers /\ failed < MaxForkFails
    /\ failed' = failed + 1
    /\ next' = next + 1
    /\ UNCHANGED <<processVars, recorded, master, batch, mainStop, pending, sigPipe, pollerVars,
                   ints, crashes, lost, killedAll>>

\* createReactorThreads, and the wait in which the threads create their loops;
\* then the main loop runs.
StartReactors ==
    /\ master = "fork" /\ next \notin Workers
    /\ poller' = [p \in Pollers |-> "begun"]
    /\ master' = "loop"
    /\ UNCHANGED <<processVars, recorded, next, batch, mainStop, pending, sigPipe, stopP, cancelled,
                   mutex, freed, historyVars>>

\* runWorkerProcess installs its handlers, creates its loop and enters aeMain,
\* which forgets an aeStop that came before.
ArmSignals(w) ==
    /\ worker[w] = "born" /\ worker' = [worker EXCEPT ![w] = "armed"]
    /\ UNCHANGED <<stopW, signals, masterVars, pending, sigPipe, pollerVars, historyVars>>

CreateLoop(w) ==
    /\ worker[w] = "armed" /\ worker' = [worker EXCEPT ![w] = "ready"]
    /\ UNCHANGED <<stopW, signals, masterVars, pending, sigPipe, pollerVars, historyVars>>

EnterMain(w) ==
    /\ worker[w] = "ready" /\ worker' = [worker EXCEPT ![w] = "test"]
    /\ stopW' = [stopW EXCEPT ![w] = FALSE]
    /\ lost' = (lost \/ stopW[w])
    /\ UNCHANGED <<signals, masterVars, pending, sigPipe, pollerVars, ints, failed, crashes, killedAll>>

-----------------------------------------------------------------------------
(* A worker runs and ends.                                                 *)

\* The loop tests stop; then it calls epoll_wait, without a timeout.
TestStop(w) ==
    /\ worker[w] = "test" /\ ~stopW[w] /\ worker' = [worker EXCEPT ![w] = "drowsy"]
    /\ UNCHANGED <<stopW, signals, masterVars, pending, sigPipe, pollerVars, historyVars>>

Sleep(w) ==
    /\ worker[w] = "drowsy" /\ worker' = [worker EXCEPT ![w] = "asleep"]
    /\ UNCHANGED <<stopW, signals, masterVars, pending, sigPipe, pollerVars, historyVars>>

\* A message of the master or a timer.
Wake(w) ==
    /\ worker[w] = "asleep" /\ worker' = [worker EXCEPT ![w] = "test"]
    /\ UNCHANGED <<stopW, signals, masterVars, pending, sigPipe, pollerVars, historyVars>>

\* The end of a process: its parent gets SIGCHLD.
Ends(w) ==
    /\ worker' = [worker EXCEPT ![w] = "zombie"]
    /\ signals' = [signals EXCEPT ![w] = {}]
    /\ pending' = pending \cup {"chld"}

Exit(w) ==
    /\ worker[w] = "test" /\ stopW[w] /\ Ends(w)
    /\ UNCHANGED <<stopW, masterVars, sigPipe, pollerVars, historyVars>>

Crash(w) ==
    /\ Alive(w) /\ crashes < MaxCrashes /\ Ends(w)
    /\ crashes' = crashes + 1
    /\ UNCHANGED <<stopW, masterVars, sigPipe, pollerVars, ints, failed, lost, killedAll>>

\* A handler that has run ends epoll_wait, SA_RESTART or not.
Interrupted(w) == IF worker[w] = "asleep" THEN "test" ELSE worker[w]

\* masterSignalHandler, in a worker: it writes into the master's socketpair.
InheritedInt(w) ==
    /\ Alive(w) /\ "int" \in signals[w]
    /\ signals' = [signals EXCEPT ![w] = @ \ {"int"}]
    /\ worker' = [worker EXCEPT ![w] = Interrupted(w)]
    /\ sigPipe' = Append(sigPipe, "int")
    /\ UNCHANGED <<stopW, masterVars, pending, pollerVars, historyVars>>

\* SIGTERM of a worker that has not installed childTermHandler yet.
TermKills(w) ==
    /\ worker[w] = "born" /\ "term" \in signals[w] /\ Ends(w)
    /\ UNCHANGED <<stopW, masterVars, sigPipe, pollerVars, historyVars>>

\* childTermHandler before there is a loop: worker->el is what zmalloc has left
\* there, and the store into it crashes or does nothing.
TermUnready(w) ==
    /\ worker[w] = "armed" /\ "term" \in signals[w]
    /\ \/ Ends(w) /\ UNCHANGED lost
       \/ /\ signals' = [signals EXCEPT ![w] = @ \ {"term"}]
          /\ lost' = TRUE /\ UNCHANGED <<worker, pending>>
    /\ UNCHANGED <<stopW, masterVars, sigPipe, pollerVars, ints, failed, crashes, killedAll>>

\* childTermHandler: aeStop.
TermStops(w) ==
    /\ Alive(w) /\ worker[w] \notin {"born", "armed"} /\ "term" \in signals[w]
    /\ signals' = [signals EXCEPT ![w] = @ \ {"term"}]
    /\ stopW' = [stopW EXCEPT ![w] = TRUE]
    /\ worker' = [worker EXCEPT ![w] = Interrupted(w)]
    /\ UNCHANGED <<masterVars, pending, sigPipe, pollerVars, historyVars>>

-----------------------------------------------------------------------------
(* The master.                                                             *)

\* Ctrl+C reaches every process of the group.
CtrlC ==
    /\ ints < MaxInts /\ master # "exit"
    /\ ints' = ints + 1
    /\ pending' = pending \cup {"int"}
    /\ signals' = [w \in Workers |-> IF Alive(w) THEN signals[w] \cup {"int"} ELSE {}]
    /\ UNCHANGED <<worker, stopW, masterVars, sigPipe, pollerVars, failed, crashes, lost, killedAll>>

\* masterSignalHandler, on whichever thread.
MasterSignal(sig) ==
    /\ sig \in pending /\ master # "exit"
    /\ pending' = pending \ {sig}
    /\ sigPipe' = Append(sigPipe, sig)
    /\ UNCHANGED <<processVars, masterVars, pollerVars, historyVars>>

\* onSignEvent receives every byte there is and goes through them in order.
RecvSignals ==
    /\ master = "loop" /\ sigPipe # <<>>
    /\ batch' = sigPipe /\ sigPipe' = <<>> /\ master' = "bytes"
    /\ UNCHANGED <<processVars, recorded, next, mainStop, pending, pollerVars, historyVars>>

\* SIGINT: kill(pid, SIGTERM) for every worker; with pid -1 that is every process.
KillWorkers ==
    LET all == recorded # Workers
        hit == {w \in Workers : Alive(w) /\ (all \/ w \in recorded)}
    IN /\ master = "bytes" /\ batch # <<>> /\ Head(batch) = "int"
       /\ signals' = [w \in Workers |-> IF w \in hit THEN signals[w] \cup {"term"} ELSE signals[w]]
       /\ killedAll' = (killedAll \/ all)
       /\ batch' = Tail(batch)
       /\ UNCHANGED <<worker, stopW, recorded, master, next, mainStop, pending, sigPipe, pollerVars,
                      ints, failed, crashes, lost>>

StartWaiting ==
    /\ master = "bytes" /\ batch # <<>> /\ Head(batch) = "chld"
    /\ master' = "waiting"
    /\ UNCHANGED <<processVars, recorded, next, batch, mainStop, pending, sigPipe, pollerVars, historyVars>>

\* Mistake: the pid of a worker that has ended is kept.
ReapOnly ==
    /\ master = "waiting"
    /\ \E w \in Workers : worker[w] = "zombie" /\ worker' = [worker EXCEPT ![w] = "reaped"]
    /\ UNCHANGED <<stopW, signals, recorded, master, next, batch, mainStop, pending, sigPipe,
                   pollerVars, historyVars>>

\* waitpid returns a child that has ended.
Reap ==
    /\ master = "waiting"
    /\ \E w \in Workers : /\ worker[w] = "zombie"
                          /\ worker' = [worker EXCEPT ![w] = "reaped"]
                          /\ recorded' = recorded \ {w}
    /\ UNCHANGED <<stopW, signals, master, next, batch, mainStop, pending, sigPipe, pollerVars, historyVars>>

\* Mistake: waitpid is called with WNOHANG, as the comment before it says.
NoHang ==
    /\ master = "waiting" /\ \A w \in Workers : worker[w] # "zombie"
    /\ mainStop' = TRUE /\ master' = "bytes" /\ batch' = Tail(batch)
    /\ UNCHANGED <<processVars, recorded, next, pending, sigPipe, pollerVars, historyVars>>

\* Mistake: the loop is not stopped.
NotStopped ==
    /\ master = "waiting" /\ Children = {}
    /\ master' = "bytes" /\ batch' = Tail(batch)
    /\ UNCHANGED <<processVars, recorded, next, mainStop, pending, sigPipe, pollerVars, historyVars>>

\* waitpid has no child left to wait for: the main loop is stopped.
NoChild ==
    /\ master = "waiting" /\ Children = {}
    /\ mainStop' = TRUE /\ master' = "bytes" /\ batch' = Tail(batch)
    /\ UNCHANGED <<processVars, recorded, next, pending, sigPipe, pollerVars, historyVars>>

EndSignals ==
    /\ master = "bytes" /\ batch = <<>>
    /\ master' = IF mainStop THEN "stop" ELSE "loop"
    /\ UNCHANGED <<processVars, recorded, next, batch, mainStop, pending, sigPipe, pollerVars, historyVars>>

-----------------------------------------------------------------------------
(* The reactor threads, and stopReactorThread.                             *)

\* reactorThreadRun enters aeMain, which sets stop = 0.
EnterPoller(p) ==
    /\ poller[p] = "begun" /\ poller' = [poller EXCEPT ![p] = "test"]
    /\ stopP' = [stopP EXCEPT ![p] = FALSE]
    /\ UNCHANGED <<processVars, masterVars, pending, sigPipe, cancelled, mutex, freed, historyVars>>

TestStopP(p) ==
    /\ poller[p] = "test"
    /\ poller' = [poller EXCEPT ![p] = IF stopP[p] THEN "left" ELSE "asleep"]
    /\ UNCHANGED <<processVars, masterVars, pending, sigPipe, stopP, cancelled, mutex, freed, historyVars>>

\* A client, or a worker's end of the socketpair.
Event(p) ==
    /\ poller[p] = "asleep" /\ p \notin cancelled
    /\ poller' = [poller EXCEPT ![p] = "serving"]
    /\ UNCHANGED <<processVars, masterVars, pending, sigPipe, stopP, cancelled, mutex, freed, historyVars>>

\* The handlers of clients and of the worker's answers return.
Serve(p) ==
    /\ poller[p] = "serving" /\ poller' = [poller EXCEPT ![p] = "test"]
    /\ UNCHANGED <<processVars, masterVars, pending, sigPipe, stopP, cancelled, mutex, freed, historyVars>>

\* onMasterPipeWritable locks r_mutex of a worker, writes and unlocks it,
BeginDrain(p) ==
    /\ poller[p] = "serving" /\ poller' = [poller EXCEPT ![p] = "locking"]
    /\ UNCHANGED <<processVars, masterVars, pending, sigPipe, stopP, cancelled, mutex, freed, historyVars>>

Lock(p) ==
    /\ poller[p] = "locking" /\ mutex = Unlocked
    /\ poller' = [poller EXCEPT ![p] = "draining"] /\ mutex' = p
    /\ UNCHANGED <<processVars, masterVars, pending, sigPipe, stopP, cancelled, freed, historyVars>>

Unlock(p) ==
    /\ poller[p] = "draining"
    /\ poller' = [poller EXCEPT ![p] = "test"] /\ mutex' = Unlocked
    /\ UNCHANGED <<processVars, masterVars, pending, sigPipe, stopP, cancelled, freed, historyVars>>

\* or returns with r_mutex locked when the write fails.
DrainFails(p) ==
    /\ poller[p] = "draining" /\ poller' = [poller EXCEPT ![p] = "test"]
    /\ UNCHANGED <<processVars, masterVars, pending, sigPipe, stopP, cancelled, mutex, freed, historyVars>>

\* A thread that has left aeMain deletes its loop.
DeleteOwnLoop(p) ==
    /\ poller[p] = "left" /\ poller' = [poller EXCEPT ![p] = "ended"]
    /\ freed' = [freed EXCEPT ![p] = @ + 1]
    /\ UNCHANGED <<processVars, masterVars, pending, sigPipe, stopP, cancelled, mutex, historyVars>>

\* epoll_wait, the handlers' reads and writes, that under r_mutex too, and the
\* close() that begins aeDeleteEventLoop are cancellation points;
\* pthread_mutex_lock is none.
Cancel(p) ==
    /\ p \in cancelled /\ poller[p] \in {"asleep", "serving", "draining", "left"}
    /\ poller' = [poller EXCEPT ![p] = "ended"]
    /\ UNCHANGED <<processVars, masterVars, pending, sigPipe, stopP, cancelled, mutex, freed, historyVars>>

StopPollers ==
    /\ master = "stop" /\ stopP' = [p \in Pollers |-> TRUE]
    /\ master' = "cancel" /\ next' = 1
    /\ UNCHANGED <<processVars, recorded, batch, mainStop, pending, sigPipe, poller, cancelled, mutex, freed, historyVars>>

CancelNext ==
    /\ master = "cancel" /\ next \in Pollers
    /\ cancelled' = cancelled \cup {next} /\ master' = "join"
    /\ UNCHANGED <<processVars, recorded, next, batch, mainStop, pending, sigPipe, poller, stopP, mutex, freed, historyVars>>

\* Mistake: the thread is not joined.
NoJoin ==
    /\ master = "join"
    /\ next' = next + 1 /\ master' = "cancel"
    /\ UNCHANGED <<processVars, recorded, batch, mainStop, pending, sigPipe, pollerVars, historyVars>>

Join ==
    /\ master = "join" /\ poller[next] = "ended"
    /\ next' = next + 1 /\ master' = "cancel"
    /\ UNCHANGED <<processVars, recorded, batch, mainStop, pending, sigPipe, pollerVars, historyVars>>

\* The rest of stopReactorThread and of destroyServer.
DeleteLoops ==
    /\ master = "cancel" /\ next \notin Pollers
    /\ freed' = [p \in Pollers |-> freed[p] + 1]
    /\ master' = "exit"
    /\ UNCHANGED <<processVars, recorded, next, batch, mainStop, pending, sigPipe, poller, stopP, cancelled, mutex, historyVars>>

-----------------------------------------------------------------------------

WorkerStep(w) ==
    ArmSignals(w) \/ CreateLoop(w) \/ EnterMain(w) \/ TestStop(w) \/ Sleep(w) \/ Exit(w)
WorkerSignal(w) == InheritedInt(w) \/ TermKills(w) \/ TermUnready(w) \/ TermStops(w)
MasterStep ==
    \/ Fork \/ StartReactors \/ RecvSignals \/ KillWorkers \/ StartWaiting \/ Reap \/ NoChild
    \/ EndSignals \/ StopPollers \/ CancelNext \/ Join \/ DeleteLoops
PollerStep(p) ==
    \/ EnterPoller(p) \/ TestStopP(p) \/ Serve(p) \/ BeginDrain(p) \/ Lock(p) \/ Unlock(p) \/ DrainFails(p)
    \/ DeleteOwnLoop(p) \/ Cancel(p)

ShutdownNext ==
    \/ MasterStep \/ ForkFails \/ CtrlC
    \/ \E sig \in {"int", "chld"} : MasterSignal(sig)
    \/ \E w \in Workers : WorkerStep(w) \/ WorkerSignal(w) \/ Wake(w) \/ Crash(w)
    \/ \E p \in Pollers : PollerStep(p) \/ Event(p)

ShutdownSpec == ShutdownInit /\ [][ShutdownNext]_shutdownVars

\* Every process and thread runs, and signals are delivered; nothing makes a
\* client, a message or the user come.
ShutdownFairness ==
    /\ WF_shutdownVars(MasterStep)
    /\ \A sig \in {"int", "chld"} : WF_shutdownVars(MasterSignal(sig))
    /\ \A w \in Workers : WF_shutdownVars(WorkerStep(w)) /\ WF_shutdownVars(WorkerSignal(w))
    /\ \A p \in Pollers : WF_shutdownVars(PollerStep(p))

FairShutdownSpec == ShutdownSpec /\ ShutdownFairness

-----------------------------------------------------------------------------

\* With the types: a recorded pid is that of a child that has not been reaped, so
\* that SIGTERM cannot reach a process that was given the number of a dead worker
\* (aeserver.c:73, 91).
ShutdownTypeOK ==
    /\ worker \in [Workers -> Live \cup {"none", "zombie", "reaped"}]
    /\ signals \in [Workers -> SUBSET {"int", "term"}]
    /\ recorded \subseteq Children
    /\ next \in Nat /\ pending \subseteq {"int", "chld"}
    /\ batch \in Seq({"int", "chld"}) /\ sigPipe \in Seq({"int", "chld"})

\* A Ctrl+C ends the workers of this server and nobody else ("master kill all the
\* clild now", aeserver.c:88).
NeverKillsAll == ~killedAll

\* The master takes its threads, buffers and the shared memory away only when no
\* worker is left (aeserver.c:65, 834-869).
WorkersGoneFirst == master \in {"stop", "cancel", "join", "exit"} => Children = {}

\* The master deletes a reactor's loop only when the thread that runs it has ended,
\* and when the master exits none is left (aeserver.c:704, 771-793).
LoopsReleased ==
    \A p \in Pollers : /\ freed[p] > 0 => poller[p] = "ended"
                       /\ master = "exit" => freed[p] > 0

\* A worker that sleeps although it has been told to stop: SIGTERM came between
\* its test and epoll_wait.
Overslept(w) == worker[w] = "asleep" /\ stopW[w]

\* A reactor that waits for an r_mutex that nobody will unlock: the write under it
\* failed, or its thread was cancelled in it.
Stuck(p) == poller[p] = "locking" /\ mutex # Unlocked /\ poller[mutex] # "draining"

\* After Ctrl+C the master exits ("You can exit program by Ctrl+C", aeserver.c:449)
\* but for five causes, each found in the code: no worker was forked, so that none
\* ends (aeserver.c:65, 94), one has ended by itself, so that the master waits for
\* the others and reads no signal any more (65), a worker has lost its SIGTERM
\* while it started (ae.c:485), one oversleeps (ae.c:486), or a reactor is stuck
\* in pthread_mutex_lock, which pthread_cancel does not end, so that the master
\* joins it for ever (aeserver.c:661-668, 774).
ExitsOnCtrlC ==
    [](ints > 0 => <>(master = "exit" \/ [](\/ failed = Cardinality(Workers) \/ crashes > 0 \/ lost
                                            \/ \E w \in Workers : Overslept(w)
                                            \/ \E p \in Pollers : Stuck(p))))
=============================================================================
