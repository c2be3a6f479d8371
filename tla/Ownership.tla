----------------------------- MODULE Ownership -----------------------------
(***************************************************************************)
(* What the runtime file protocol promises about one data directory, with  *)
(* the files and the probes left out: a claim either makes its caller the  *)
(* one holder of the directory or is refused; the holder may publish the   *)
(* endpoint of its command server and withdraws it when it shuts down; a   *)
(* wait reports "stopped" only while nobody holds the directory; what a    *)
(* dead holder leaves behind may be swept away, the endpoint of a live     *)
(* holder may not.  Every claim returns.                                   *)
(*                                                                         *)
(* RuntimeFiles implements this specification where a claim races with the *)
(* death of the holder; see ImplementsOwnership there for the mapping.     *)
(***************************************************************************)
CONSTANTS
    Procs,  \* the processes that call claim or wait
    None    \* no endpoint

VARIABLES
    phase,     \* per process: idle, claiming, holding, closing, refused,
               \* released, waiting, stopped, timeout or dead
    endpoint   \* the process whose command server the directory names

ownVars == <<phase, endpoint>>

Holders == {p \in Procs : phase[p] \in {"holding", "closing"}}

Move(p, from, to) ==
    /\ phase[p] = from
    /\ phase' = [phase EXCEPT ![p] = to]

-----------------------------------------------------------------------------

StartClaim(p) == Move(p, "idle", "claiming") /\ UNCHANGED endpoint

\* The exclusive claim: granted only while nobody holds the directory.
Acquire(p) ==
    /\ Holders = {}
    /\ Move(p, "claiming", "holding")
    /\ UNCHANGED endpoint

\* AlreadyInUse, or an I/O error: a claim may always be refused.
Refuse(p) == Move(p, "claiming", "refused") /\ UNCHANGED endpoint

\* The Port record is created after readiness, by the holder.
Publish(p) ==
    /\ phase[p] = "holding"
    /\ endpoint' = p
    /\ UNCHANGED phase

\* Shutdown starts by removing the Port record, whose ever it is.
Withdraw(p) ==
    /\ Move(p, "holding", "closing")
    /\ endpoint' = None

Release(p) ==
    /\ \E from \in {"holding", "closing"} : Move(p, from, "released")
    /\ UNCHANGED endpoint

StartWait(p) == Move(p, "idle", "waiting") /\ UNCHANGED endpoint

\* A wait says "stopped" only while nobody holds the directory.
Stopped(p) ==
    /\ Holders = {}
    /\ Move(p, "waiting", "stopped")
    /\ UNCHANGED endpoint

TimedOut(p) == Move(p, "waiting", "timeout") /\ UNCHANGED endpoint

\* Stale cleanup: an endpoint is removed only if it is not a holder's.
Sweep ==
    /\ endpoint \notin Holders \cup {None}
    /\ endpoint' = None
    /\ UNCHANGED phase

\* A process exits or is killed; what it published stays behind.
Die(p) ==
    /\ phase[p] \notin {"idle", "dead"}
    /\ phase' = [phase EXCEPT ![p] = "dead"]
    /\ UNCHANGED endpoint

-----------------------------------------------------------------------------

Init ==
    /\ phase = [p \in Procs |-> "idle"]
    /\ endpoint = None

Next ==
    \/ \E p \in Procs :
          \/ StartClaim(p) \/ Acquire(p) \/ Refuse(p)
          \/ Publish(p) \/ Withdraw(p) \/ Release(p)
          \/ StartWait(p) \/ Stopped(p) \/ TimedOut(p)
          \/ Die(p)
    \/ Sweep

\* A claim that is under way is answered.
Fairness == \A p \in Procs : WF_ownVars(Acquire(p) \/ Refuse(p))

Spec == Init /\ [][Next]_ownVars /\ Fairness

=============================================================================
