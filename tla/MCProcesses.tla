----------------------------- MODULE MCProcesses -----------------------------
(***************************************************************************)
(* Instances of the modules in which processes or threads of one share     *)
(* state.  A behaviour drives one of them, its subject; the variables of   *)
(* the other stay as they are created.                                     *)
(***************************************************************************)
EXTENDS Shutdown, Zmalloc

VARIABLE subject

ProcInit ==
    /\ subject \in {"shutdown", "zmalloc"}
    /\ ShutdownInit /\ ZmallocInit

ProcNext ==
    /\ \/ subject = "shutdown" /\ ShutdownNext /\ UNCHANGED zmallocVars
       \/ subject = "zmalloc" /\ ZmallocNext /\ UNCHANGED shutdownVars
    /\ UNCHANGED subject

ProcSpec ==
    /\ ProcInit /\ [][ProcNext]_<<subject, shutdownVars, zmallocVars>>
    /\ ShutdownFairness
==============================================================================
