---------------------------- MODULE ProcessGroup ----------------------------
(***************************************************************************)
(* The process group of one playground instance: a set of labelled workers *)
(* that is closed as one unit, and the termination of the OS processes the *)
(* service workers supervise (killProcessOrGroup,                          *)
(* components/playground-ng/kill_unix.go).                                 *)
(*                                                                         *)
(* A service worker supervises one externally spawned program.  The        *)
(* program may run behind a shell wrapper, so its process tree is a        *)
(* "main" process, whose pid the worker knows, and possibly a "child".     *)
(* On Linux the main process is started as the leader of a process group   *)
(* of its own; elsewhere it may share the group of the playground.         *)
(* killProcessOrGroup is two system calls, getpgid and kill, and the tree  *)
(* may change between them.                                                *)
(*                                                                         *)
(* Add, Close and Wait are specified by the design document only; they are *)
(* taken as atomic.  Errors returned by workers are left out: Wait is      *)
(* modelled up to the moment it returns.                                   *)
(***************************************************************************)
EXTENDS Naturals, FiniteSets

CONSTANTS
    Services,   \* labels of the workers that supervise an OS process
    Tasks,      \* labels of the workers that are goroutines only
    Callers,    \* the tasks that call Close or Wait
    StopSignal  \* the signal a service worker sends (SIGTERM, SIGKILL)

ASSUME
    /\ IsFiniteSet(Services) /\ IsFiniteSet(Tasks) /\ IsFiniteSet(Callers)
    /\ Services \cap Tasks = {}
    /\ StopSignal \in Nat

Labels == Services \cup Tasks

VARIABLES
    worker,   \* per label: absent, refused, running, stopping or exited
    closing,  \* Close has been called
    call,     \* per caller: idle, closing, waiting, closed or waited
    tree,     \* per service: the processes of its tree that are alive
    pid,      \* per service: 0 while no process was started, else its pid
    leads,    \* per service: its main process leads a group of its own
    kill,     \* per service: where its worker is in killProcessOrGroup
    found     \* per service: getpgid found the main process alive

pgVars == <<worker, closing, call, tree, pid, leads, kill, found>>

osVars == <<tree, pid, leads, kill, found>>

WorkerStates == {"absent", "refused", "running", "stopping", "exited"}
CallStates   == {"idle", "closing", "waiting", "closed", "waited"}
KillStates   == {"idle", "getpgid", "group", "single", "done"}
Trees        == SUBSET {"main", "child"}

-----------------------------------------------------------------------------
(* killProcessOrGroup *)

\* ESRCH of getpgid; no process group has id 0.
NoSuchProcess == 0

\* syscall.Getpgid(pid): the group of a leader is its own pid.
Getpgid(s) ==
    CASE "main" \notin tree[s] -> NoSuchProcess
      [] leads[s]              -> pid[s]
      [] OTHER                 -> pid[s] + 1

\* The early return: nothing to signal.
KillIsNoop(p, sig) == p <= 0 \/ sig = 0

KillTargetAlwaysPid(p, pgid) == "single"

KillTargetAlwaysGroup(p, pgid) == "group"

\* The whole group is signalled only when the target leads it.
KillTarget(p, pgid) ==
    IF pgid # NoSuchProcess /\ pgid = p THEN "group" ELSE "single"

\* kill(-pid): every member of the group named pid; ESRCH if there is none.
SignalGroup(s) == IF leads[s] THEN {} ELSE tree[s]

\* kill(pid)
SignalPid(s) == tree[s] \ {"main"}

KillEnter(s) ==
    /\ worker[s] = "stopping" /\ kill[s] = "idle"
    /\ kill' = [kill EXCEPT ![s] =
                   IF KillIsNoop(pid[s], StopSignal) THEN "done" ELSE "getpgid"]
    /\ UNCHANGED <<worker, closing, call, tree, pid, leads, found>>

KillLookup(s) ==
    /\ kill[s] = "getpgid"
    /\ kill' = [kill EXCEPT ![s] = KillTarget(pid[s], Getpgid(s))]
    /\ found' = [found EXCEPT ![s] = Getpgid(s) # NoSuchProcess]
    /\ UNCHANGED <<worker, closing, call, tree, pid, leads>>

KillSignal(s) ==
    /\ kill[s] \in {"group", "single"}
    /\ tree' = [tree EXCEPT ![s] =
                   IF kill[s] = "group" THEN SignalGroup(s) ELSE SignalPid(s)]
    /\ kill' = [kill EXCEPT ![s] = "done"]
    /\ UNCHANGED <<worker, closing, call, pid, leads, found>>

-----------------------------------------------------------------------------
(* The OS processes, on their own. *)

\* The wrapper starts the program proper; the child inherits the group.
Fork(s) ==
    /\ "main" \in tree[s] /\ "child" \notin tree[s]
    /\ tree' = [tree EXCEPT ![s] = @ \cup {"child"}]
    /\ UNCHANGED <<worker, closing, call, pid, leads, kill, found>>

\* A process exits by itself.
ProcessExits(s) ==
    /\ \E m \in tree[s] : tree' = [tree EXCEPT ![s] = @ \ {m}]
    /\ UNCHANGED <<worker, closing, call, pid, leads, kill, found>>

-----------------------------------------------------------------------------
(* The group. *)

AddIgnoresClosing(l, started, leader) ==
    /\ worker[l] = "absent"
    /\ worker' = [worker EXCEPT ![l] = "running"]
    /\ IF l \in Services
       THEN /\ pid'   = [pid   EXCEPT ![l] = IF started THEN 1 ELSE 0]
            /\ tree'  = [tree  EXCEPT ![l] = IF started THEN {"main"} ELSE {}]
            /\ leads' = [leads EXCEPT ![l] = leader]
       ELSE UNCHANGED <<pid, tree, leads>>
    /\ UNCHANGED <<closing, call, kill, found>>

\* Add(label, worker): refused once the group is closing.  The worker of a
\* service starts its program, which may fail; which pid it gets does not
\* matter, the trees are told apart by their service.
Add(l, started, leader) ==
    IF closing
    THEN /\ worker[l] = "absent"
         /\ worker' = [worker EXCEPT ![l] = "refused"]
         /\ UNCHANGED <<closing, call, osVars>>
    ELSE AddIgnoresClosing(l, started, leader)

\* Close(): the first call tells every worker to stop; every call waits.
Close(c) ==
    /\ call[c] = "idle"
    /\ call' = [call EXCEPT ![c] = "closing"]
    /\ closing' = TRUE
    /\ worker' = IF closing THEN worker
                 ELSE [l \in Labels |->
                          IF worker[l] = "running" THEN "stopping" ELSE worker[l]]
    /\ UNCHANGED osVars

Wait(c) ==
    /\ call[c] = "idle"
    /\ call' = [call EXCEPT ![c] = "waiting"]
    /\ UNCHANGED <<worker, closing, osVars>>

\* Close and Wait return when no worker is left.
Returns(c) ==
    /\ call[c] \in {"closing", "waiting"}
    /\ \A l \in Labels : worker[l] \notin {"running", "stopping"}
    /\ call' = [call EXCEPT ![c] = IF call[c] = "closing" THEN "closed" ELSE "waited"]
    /\ UNCHANGED <<worker, closing, osVars>>

\* The worker of a service returns when its main process is gone: by
\* itself, or after killProcessOrGroup when it was told to stop.
ServiceReturns(s) ==
    /\ worker[s] \in {"running", "stopping"}
    /\ "main" \notin tree[s]
    /\ worker[s] = "stopping" => kill[s] = "done"
    /\ worker' = [worker EXCEPT ![s] = "exited"]
    /\ UNCHANGED <<closing, call, osVars>>

\* A goroutine worker returns, told to stop or by itself.
TaskReturns(l) ==
    /\ worker[l] \in {"running", "stopping"}
    /\ worker' = [worker EXCEPT ![l] = "exited"]
    /\ UNCHANGED <<closing, call, osVars>>

-----------------------------------------------------------------------------

PGInit ==
    /\ worker  = [l \in Labels |-> "absent"]
    /\ closing = FALSE
    /\ call    = [c \in Callers |-> "idle"]
    /\ tree    = [s \in Services |-> {}]
    /\ pid     = [s \in Services |-> 0]
    /\ leads   = [s \in Services |-> FALSE]
    /\ kill    = [s \in Services |-> "idle"]
    /\ found   = [s \in Services |-> FALSE]

ServiceStep(s) ==
    \/ KillEnter(s) \/ KillLookup(s) \/ KillSignal(s)
    \/ ServiceReturns(s)

PGNext ==
    \/ \E l \in Labels, started, leader \in BOOLEAN : Add(l, started, leader)
    \/ \E c \in Callers : Close(c) \/ Wait(c) \/ Returns(c)
    \/ \E s \in Services : ServiceStep(s) \/ Fork(s) \/ ProcessExits(s)
    \/ \E l \in Tasks : TaskReturns(l)

\* Workers and callers are goroutines of a running program.
PGFairness ==
    /\ \A s \in Services : WF_pgVars(ServiceStep(s))
    /\ \A l \in Tasks    : WF_pgVars(worker[l] = "stopping" /\ TaskReturns(l))
    /\ \A c \in Callers  : WF_pgVars(Returns(c))

PGSpec == PGInit /\ [][PGNext]_pgVars /\ PGFairness

-----------------------------------------------------------------------------

PGTypeOK ==
    /\ worker \in [Labels -> WorkerStates]
    /\ closing \in BOOLEAN
    /\ call \in [Callers -> CallStates]
    /\ tree \in [Services -> Trees]
    /\ pid \in [Services -> Nat]
    /\ leads \in [Services -> BOOLEAN]
    /\ kill \in [Services -> KillStates]
    /\ found \in [Services -> BOOLEAN]

\* Once a Close has returned, no worker runs and no main process of a
\* service is alive, whenever workers were added and however many callers
\* closed: Add is refused as soon as the group is closing, and Close waits
\* for the workers it did not signal itself.
ClosedMeansReaped ==
    (\E c \in Callers : call[c] = "closed") =>
        /\ \A l \in Labels : worker[l] \notin {"running", "stopping"}
        /\ \A s \in Services : "main" \notin tree[s]

\* killProcessOrGroup leaves no detached child behind: when getpgid found
\* the main process of a service alive and leading its group, nothing of
\* the service's tree is alive once its worker has returned, even if the
\* main process exited or forked between getpgid and kill.
NoOrphanAfterGroupKill ==
    \A s \in Services :
        leads[s] /\ found[s] /\ worker[s] = "exited" => tree[s] = {}

\* Close does not hang: a worker told to stop gets its process killed, also
\* a process that does not lead a group, and returns.
CloseReturns ==
    \A c \in Callers : call[c] = "closing" ~> call[c] = "closed"

=============================================================================
