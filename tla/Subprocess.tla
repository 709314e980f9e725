----------------------------- MODULE Subprocess -----------------------------
(***************************************************************************)
(* The child process of ipc/subprocess.cpp, in its POSIX form: the parent  *)
(* spawns it, asks whether it runs, waits for it, kills it or forgets it.  *)
(* A process that has ended is a zombie until waitpid() reaps it; after    *)
(* that its pid is free for any other process.  Arguments, paths and stdio *)
(* are left out.                                                           *)
(***************************************************************************)
EXTENDS Integers

VARIABLES
    child,      \* "none", "running", "zombie" or "reaped"
    handle,     \* handle.native is not null
    waited,     \* what wait_process() has returned: "nothing", "code" or "error"
    stray       \* a signal was sent to a pid that is no longer the child's

procVars == <<child, handle, waited, stray>>

ProcInit ==
    /\ child = "none"
    /\ handle = FALSE
    /\ waited = "nothing"
    /\ stray = FALSE

SpawnProcess ==
    /\ child = "none"
    /\ child' = "running"
    /\ handle' = TRUE
    /\ UNCHANGED <<waited, stray>>

\* The child exits, crashes, or is killed from outside.
Exits ==
    /\ child = "running"
    /\ child' = "zombie"
    /\ UNCHANGED <<handle, waited, stray>>

\* process_running(): waitpid(WNOHANG) reaps a child that has ended, and the handle stays
\* valid.  Asked again, waitpid() fails.
Running == handle /\ child = "running" /\ UNCHANGED procVars

NotRunning ==
    /\ handle /\ child \in {"zombie", "reaped"}
    /\ child' = "reaped"
    /\ UNCHANGED <<handle, waited, stray>>

\* wait_process() blocks while the child runs.
WaitProcess ==
    \/ /\ handle /\ child = "zombie"
       /\ child' = "reaped"
       /\ handle' = FALSE
       /\ waited' = "code"
       /\ UNCHANGED stray
    \/ /\ handle /\ child = "reaped"
       /\ waited' = "error"
       /\ UNCHANGED <<child, handle, stray>>

\* terminate_process(): kill(), then waitpid() without a look at its answer.  A reaped
\* child's pid belongs to nobody, and kill() fails, or to another process.
TerminateProcess ==
    \/ /\ handle /\ child \in {"running", "zombie"}
       /\ child' = "reaped"
       /\ handle' = FALSE
       /\ UNCHANGED <<waited, stray>>
    \/ handle /\ child = "reaped" /\ UNCHANGED procVars
    \/ /\ handle /\ child = "reaped"
       /\ stray' = TRUE
       /\ handle' = FALSE
       /\ UNCHANGED <<child, waited>>

CloseProcess ==
    /\ handle
    /\ handle' = FALSE
    /\ UNCHANGED <<child, waited, stray>>

=============================================================================
