---------------------------- MODULE RuntimeFiles ----------------------------
(***************************************************************************)
(* The runtime file protocol of one playground data directory              *)
(* (components/playground-ng/daemon_files.go).                             *)
(*                                                                         *)
(* Independent OS processes agree on "who owns this data directory" and    *)
(* "is the owner alive" through two marker files, `pid` and `port`, and    *)
(* two liveness probes (kill(pid, 0) and an HTTP probe of the port).       *)
(* There is no lock: every decision is a read or a probe followed, some    *)
(* steps later, by a create or a remove.  Each system call and each probe  *)
(* is one step of this specification, so every interleaving of the calls   *)
(* of several processes is a behaviour.                                    *)
(*                                                                         *)
(* A process is one of                                                     *)
(*   - a launcher: claimPlaygroundPIDFile, then the command server's       *)
(*     life (listen, publish the port, shut down), then release;           *)
(*   - a client:   waitPlaygroundStopped.                                  *)
(* A process runs one of the two once; a new invocation is a new process.  *)
(***************************************************************************)
EXTENDS Naturals, FiniteSets, Sequences

CONSTANTS
    Procs,            \* the OS processes; a process is named by its pid
    None,             \* "no file", "no value"
    MaxDeaths,        \* bound on the number of processes that exit or crash
    MayStall,         \* TRUE: a process may pause longer than the grace
                      \* period (pidFileWriteGracePeriod) between two steps
    ForeignResponder, \* TRUE: a port nobody of ours listens on may be
                      \* answered by an unrelated program
    PidReuse,         \* TRUE: the OS may give a dead process's pid to an
                      \* unrelated process
    ClockMayStep      \* TRUE: the wall clock may be set back, so that the
                      \* modification time of a file lies in the future

ASSUME
    /\ IsFiniteSet(Procs) /\ Procs # {}
    /\ None \notin Procs
    /\ MaxDeaths \in Nat
    /\ {MayStall, ForeignResponder, PidReuse, ClockMayStep} \subseteq BOOLEAN

VARIABLES
    pidFile,     \* the `pid` file: None, or who created it and its content
    portFile,    \* the `port` file: None, or the process whose port it names
    pc,          \* where each process is in its call
    seenPid,     \* per process: the pid parsed by its last readPIDFile
    seenPort,    \* per process: the port returned by its last loadPort
    probeErr,    \* per process: the outcome of its last HTTP probe
    listening,   \* the processes whose command server accepts connections
    reusedPids,  \* pids of dead processes now held by unrelated processes
    deaths       \* number of processes that have exited or crashed

vars == <<pidFile, portFile, pc, seenPid, seenPort, probeErr,
          listening, reusedPids, deaths>>

-----------------------------------------------------------------------------
(* The files. *)

\* Content of the pid file.  claim writes the whole record with one write,
\* so a file is empty (created, not yet written) or holds the full record
\* of its creator.  An empty file is told apart by its age.
PidFileStates == {"empty_young", "empty_old", "full"}
PidFileValues == [by : Procs, st : PidFileStates]

PF == INSTANCE PidFile

\* The lines of the pid file; the time and the tag are the same for all.
Content ==
    IF pidFile.st = "full" THEN PF!WriteRecord(pidFile.by, "now", "tag") ELSE <<>>

\* readPIDFile: the file is absent, or its lines make a record, or they do
\* not ("missing pid field" for the empty file).
ReadPIDFile ==
    CASE pidFile = None                   -> "not_exist"
      [] PF!ReadLines(Content).err = None -> "parsed"
      [] OTHER                            -> "invalid"

\* The pid of the record read, if there is one.
ReadPID == IF ReadPIDFile = "parsed" THEN PF!ReadLines(Content).pid ELSE None

\* The ages os.Stat can report for the pid file, compared with the grace
\* period.  A record that an observer found unparsable a moment ago and that
\* is complete now was written within the grace period, unless the observer
\* stalled in between.  After a step of the clock the age of any file may be
\* negative.
PidFileAges ==
    (CASE pidFile.st = "empty_young" -> {"young"}
       [] pidFile.st = "empty_old"   -> {"old"}
       [] pidFile.st = "full"        -> {"young"} \cup
                                        (IF MayStall THEN {"old"} ELSE {}))
    \cup (IF ClockMayStep THEN {"negative"} ELSE {})

-----------------------------------------------------------------------------
(* The probes. *)

\* isPIDRunning: kill(pid, 0) succeeds, or fails with EPERM, for every pid
\* the OS knows, ours or not; ESRCH says the pid is free.
IsPIDRunning(q) == pc[q] # "dead" \/ q \in reusedPids

\* What GET /ping and GET /command can answer.
PingReplies    == {"pong", "other_200", "undecodable_200", "not_found",
                   "refused", "timeout"}
CommandReplies == {"method_not_allowed", "other_405", "other_status",
                   "undecodable", "refused", "timeout"}

\* probePlaygroundCommandServer: /ping first; when it is not there (any
\* status but 200, or a transport error before the deadline) fall back to
\* GET /command, which a command server refuses with 405.
ProbePlaygroundCommandServer(ping, cmd) ==
    CASE ping = "timeout"                        -> "timeout"
      [] ping = "pong"                           -> "ok"
      [] ping \in {"other_200", "undecodable_200"} -> "unexpected"
      [] OTHER ->
           CASE cmd = "method_not_allowed" -> "ok"
             [] cmd = "timeout"            -> "timeout"
             [] cmd = "refused"            -> "refused"
             [] OTHER                      -> "unexpected"

ProbeOutcomes == {"ok", "timeout", "refused", "unexpected"}

\* What the two endpoints of the port of process q answer: a live command
\* server answers /ping, or is too slow for the deadline; a port nobody
\* listens on refuses, unless an unrelated program has taken it.
Replies(q) ==
    IF q \in listening
    THEN {<<"pong", "method_not_allowed">>, <<"timeout", "timeout">>}
    ELSE {<<"refused", "refused">>} \cup
         (IF ForeignResponder
          THEN {<<"other_200", "other_status">>, <<"not_found", "other_status">>,
                <<"not_found", "timeout">>}
          ELSE {})

Probe(q) == {ProbePlaygroundCommandServer(r[1], r[2]) : r \in Replies(q)}

\* isTimeoutErr
IsTimeoutErr(o) == o = "timeout"

-----------------------------------------------------------------------------
(* Process states. *)

ClaimPcs  == {"c_read", "c_kill", "c_rmpid_stale", "c_rmport_stale",
              "c_stat", "c_port_invalid", "c_probe_invalid",
              "c_rmpid_invalid", "c_rmport_invalid",
              "c_port", "c_probe", "c_rmport",
              "create", "write", "undo"}
OwnerPcs  == {"owner", "listening", "ready", "stopping"}
WaitPcs   == {"w_read", "w_kill", "w_rmpid_stale",
              "w_stat", "w_port", "w_probe", "w_rmpid_invalid", "w_rmport_invalid",
              "w_deadline"}
FinalPcs  == {"failed", "released", "stopped", "timeout"}
AllPcs    == {"idle", "dead"} \cup ClaimPcs \cup OwnerPcs \cup WaitPcs \cup FinalPcs

Goto(p, from, to) ==
    /\ pc[p] = from
    /\ pc' = [pc EXCEPT ![p] = to]

Files  == <<pidFile, portFile>>
Locals == <<seenPid, seenPort, probeErr>>
Env    == <<listening, reusedPids, deaths>>

-----------------------------------------------------------------------------
(* claimPlaygroundPIDFile and cleanupStaleRuntimeFiles. *)

\* claimPlaygroundPIDFile is entered; its first call is the stale cleanup.
StartClaim(p) ==
    /\ Goto(p, "idle", "c_read")
    /\ UNCHANGED <<Files, Locals, Env>>

\* cleanupStaleRuntimeFiles reads the pid file and switches on the result.
CleanupReadPID(p) ==
    /\ pc[p] = "c_read"
    /\ seenPid' = [seenPid EXCEPT ![p] = ReadPID]
    /\ seenPort' = [seenPort EXCEPT ![p] = None]
    /\ probeErr' = [probeErr EXCEPT ![p] = None]
    /\ pc' = [pc EXCEPT ![p] =
                CASE ReadPIDFile = "parsed"    -> "c_kill"
                  [] ReadPIDFile = "invalid"   -> "c_stat"
                  [] ReadPIDFile = "not_exist" -> "c_port"]
    /\ UNCHANGED <<Files, Env>>

\* os.Remove of a marker file: by path, whatever the file is by now.
RemovePID(p, from, to) ==
    /\ Goto(p, from, to)
    /\ pidFile' = None
    /\ UNCHANGED <<portFile, Locals, Env>>

RemovePort(p, from, to) ==
    /\ Goto(p, from, to)
    /\ portFile' = None
    /\ UNCHANGED <<pidFile, Locals, Env>>

\* Mutated form: the "already running" error is swallowed and the claim
\* goes on to create the file.
CleanupCheckPIDSwallows(p) ==
    /\ pc[p] = "c_kill"
    /\ pc' = [pc EXCEPT ![p] =
                IF IsPIDRunning(seenPid[p]) THEN "create" ELSE "c_rmpid_stale"]
    /\ UNCHANGED <<Files, Locals, Env>>

\* A parsed record: its pid is probed; a running pid fails the claim.
CleanupCheckPID(p) ==
    /\ pc[p] = "c_kill"
    /\ pc' = [pc EXCEPT ![p] =
                IF IsPIDRunning(seenPid[p]) THEN "failed" ELSE "c_rmpid_stale"]
    /\ UNCHANGED <<Files, Locals, Env>>

\* The record's process is gone: the pid file, then the port file, are
\* removed and the cleanup returns nil.
CleanupRemoveStale(p) ==
    \/ RemovePID(p, "c_rmpid_stale", "c_rmport_stale")
    \/ RemovePort(p, "c_rmport_stale", "create")

\* Mutated form: the age of the unparsable file is not looked at.
CleanupStatNoGrace(p) ==
    /\ pc[p] = "c_stat"
    /\ pc' = [pc EXCEPT ![p] = IF pidFile = None THEN "c_port" ELSE "c_port_invalid"]
    /\ UNCHANGED <<Files, Locals, Env>>

\* An unparsable record: a file younger than the grace period, and not from
\* the future, is a claim in progress; a file gone meanwhile leaves only the
\* port to look at.
CleanupStat(p) ==
    /\ pc[p] = "c_stat"
    /\ \/ /\ pidFile = None
          /\ pc' = [pc EXCEPT ![p] = "c_port"]
       \/ /\ pidFile # None
          /\ \E age \in PidFileAges :
               pc' = [pc EXCEPT ![p] =
                        IF age = "young" THEN "failed" ELSE "c_port_invalid"]
    /\ UNCHANGED <<Files, Locals, Env>>

\* Unparsable and old: the port file is the safety net before the removal.
CleanupLoadPortInvalid(p) ==
    /\ pc[p] = "c_port_invalid"
    /\ seenPort' = [seenPort EXCEPT ![p] = portFile]
    /\ pc' = [pc EXCEPT ![p] =
                IF portFile = None THEN "c_rmpid_invalid" ELSE "c_probe_invalid"]
    /\ UNCHANGED <<Files, seenPid, probeErr, Env>>

CleanupProbeInvalid(p) ==
    /\ pc[p] = "c_probe_invalid"
    /\ \E o \in Probe(seenPort[p]) :
         /\ probeErr' = [probeErr EXCEPT ![p] = o]
         /\ pc' = [pc EXCEPT ![p] =
                     IF o = "ok" \/ IsTimeoutErr(o) THEN "failed"
                     ELSE "c_rmpid_invalid"]
    /\ UNCHANGED <<Files, seenPid, seenPort, Env>>

\* Unparsable, old, and no live server behind the port file: both files are
\* removed and the cleanup returns nil.
CleanupRemoveInvalid(p) ==
    \/ RemovePID(p, "c_rmpid_invalid", "c_rmport_invalid")
    \/ RemovePort(p, "c_rmport_invalid", "create")

\* Mutated form: the error of loadPort is not checked before the probe.
CleanupLoadPortUnchecked(p) ==
    /\ Goto(p, "c_port", "c_probe")
    /\ seenPort' = [seenPort EXCEPT ![p] = portFile]
    /\ UNCHANGED <<Files, seenPid, probeErr, Env>>

\* No pid file: a port file alone may still name a live command server.
CleanupLoadPort(p) ==
    /\ pc[p] = "c_port"
    /\ seenPort' = [seenPort EXCEPT ![p] = portFile]
    /\ pc' = [pc EXCEPT ![p] = IF portFile = None THEN "create" ELSE "c_probe"]
    /\ UNCHANGED <<Files, seenPid, probeErr, Env>>

\* Mutated form: an answering command server is taken for a stale port.
CleanupProbeAnswerIsStale(p) ==
    /\ pc[p] = "c_probe"
    /\ \E o \in Probe(seenPort[p]) :
         /\ probeErr' = [probeErr EXCEPT ![p] = o]
         /\ pc' = [pc EXCEPT ![p] = IF IsTimeoutErr(o) THEN "failed" ELSE "c_rmport"]
    /\ UNCHANGED <<Files, seenPid, seenPort, Env>>

\* The port answers or times out: in use.  Anything else, a refused
\* connection or an unexpected answer, lets the port file be removed.
CleanupProbe(p) ==
    /\ pc[p] = "c_probe"
    /\ \E o \in Probe(seenPort[p]) :
         /\ probeErr' = [probeErr EXCEPT ![p] = o]
         /\ pc' = [pc EXCEPT ![p] =
                     IF o = "ok" \/ IsTimeoutErr(o) THEN "failed" ELSE "c_rmport"]
    /\ UNCHANGED <<Files, seenPid, seenPort, Env>>

\* The port file of a dead server is removed; the cleanup returns nil.
CleanupRemovePort(p) == RemovePort(p, "c_rmport", "create")

\* Mutated form: the file is opened without O_EXCL.
CreatePIDFileNoExcl(p) ==
    /\ Goto(p, "create", "write")
    /\ pidFile' = [by |-> p, st |-> "empty_young"]
    /\ UNCHANGED <<portFile, Locals, Env>>

\* OpenFile(O_CREATE|O_EXCL) where no pid file is: the empty file is there.
CreatePIDFile(p) ==
    /\ Goto(p, "create", "write")
    /\ pidFile = None
    /\ pidFile' = [by |-> p, st |-> "empty_young"]
    /\ UNCHANGED <<portFile, Locals, Env>>

\* OpenFile(O_CREATE|O_EXCL) where a pid file is: EEXIST, and the claim goes
\* round its loop through the cleanup again.
CreateCollides(p) ==
    /\ Goto(p, "create", "c_read")
    /\ pidFile # None
    /\ UNCHANGED <<Files, Locals, Env>>

\* Mutated form: the record is written to the path, not to the descriptor.
WritePIDFileByPath(p) ==
    /\ pc[p] = "write"
    /\ \/ /\ pidFile' = [by |-> p, st |-> "full"]
          /\ pc' = [pc EXCEPT ![p] = "owner"]
       \/ /\ pc' = [pc EXCEPT ![p] = "undo"]
          /\ UNCHANGED pidFile
    /\ UNCHANGED <<portFile, Locals, Env>>

\* Fprintf and Close on the descriptor of the file this process created: the
\* record appears under the path only while that file is still linked there.
\* A failed write or close is undone by a remove.
WritePIDFile(p) ==
    /\ pc[p] = "write"
    /\ \/ /\ pidFile' = IF pidFile # None /\ pidFile.by = p
                        THEN [by |-> p, st |-> "full"] ELSE pidFile
          /\ pc' = [pc EXCEPT ![p] = "owner"]
       \/ /\ pc' = [pc EXCEPT ![p] = "undo"]
          /\ UNCHANGED pidFile
    /\ UNCHANGED <<portFile, Locals, Env>>

\* os.Remove(pidPath) after the failed write; the claim fails.
UndoPIDFile(p) == RemovePID(p, "undo", "failed")

\* The release function claim returned: os.Remove(pidPath).
Release(p) ==
    /\ pc[p] \in {"owner", "stopping"}
    /\ pc' = [pc EXCEPT ![p] = "released"]
    /\ pidFile' = None
    /\ UNCHANGED <<portFile, Locals, Env>>

-----------------------------------------------------------------------------
(* The owner's command server, as far as the files see it. *)

\* The server socket is bound before anything is published.
Listen(p) ==
    /\ Goto(p, "owner", "listening")
    /\ listening' = listening \cup {p}
    /\ UNCHANGED <<Files, Locals, reusedPids, deaths>>

\* The port file is written once startup output is flushed.
PublishPort(p) ==
    /\ Goto(p, "listening", "ready")
    /\ portFile' = p
    /\ UNCHANGED <<pidFile, Locals, Env>>

\* Shutdown closes the server and removes the port file.
StopServer(p) ==
    /\ pc[p] \in {"listening", "ready"}
    /\ pc' = [pc EXCEPT ![p] = "stopping"]
    /\ listening' = listening \ {p}
    /\ portFile' = None
    /\ UNCHANGED <<pidFile, Locals, reusedPids, deaths>>

-----------------------------------------------------------------------------
(* waitPlaygroundStopped. *)

StartWait(p) ==
    /\ Goto(p, "idle", "w_read")
    /\ UNCHANGED <<Files, Locals, Env>>

\* One round of the poll loop starts by reading the pid file; no file means
\* stopped.
WaitReadPID(p) ==
    /\ pc[p] = "w_read"
    /\ seenPid' = [seenPid EXCEPT ![p] = ReadPID]
    /\ seenPort' = [seenPort EXCEPT ![p] = None]
    /\ probeErr' = [probeErr EXCEPT ![p] = None]
    /\ pc' = [pc EXCEPT ![p] =
                CASE ReadPIDFile = "parsed"    -> "w_kill"
                  [] ReadPIDFile = "invalid"   -> "w_stat"
                  [] ReadPIDFile = "not_exist" -> "stopped"]
    /\ UNCHANGED <<Files, Env>>

\* Mutated form: the test of the liveness probe is inverted.
WaitCheckPIDInverted(p) ==
    /\ pc[p] = "w_kill"
    /\ pc' = [pc EXCEPT ![p] =
                IF IsPIDRunning(seenPid[p]) THEN "w_rmpid_stale" ELSE "w_deadline"]
    /\ UNCHANGED <<Files, Locals, Env>>

\* A parsed record whose pid is gone is removed (the pid file only).
WaitCheckPID(p) ==
    /\ pc[p] = "w_kill"
    /\ pc' = [pc EXCEPT ![p] =
                IF IsPIDRunning(seenPid[p]) THEN "w_deadline" ELSE "w_rmpid_stale"]
    /\ UNCHANGED <<Files, Locals, Env>>

WaitRemoveStale(p) == RemovePID(p, "w_rmpid_stale", "stopped")

\* Mutated form: the age of the unparsable file is not looked at.
WaitStatNoGrace(p) ==
    /\ pc[p] = "w_stat"
    /\ pc' = [pc EXCEPT ![p] = IF pidFile = None THEN "stopped" ELSE "w_port"]
    /\ UNCHANGED <<Files, Locals, Env>>

\* Mutated form: the round of a young file goes on without the deadline.
WaitStatSkipsDeadline(p) ==
    /\ pc[p] = "w_stat"
    /\ pc' = [pc EXCEPT ![p] = IF pidFile = None THEN "stopped" ELSE "w_read"]
    /\ UNCHANGED <<Files, Locals, Env>>

\* An unparsable record: gone meanwhile means stopped; not yet of the age of
\* the grace period, or from the future, means wait.
WaitStat(p) ==
    /\ pc[p] = "w_stat"
    /\ \/ /\ pidFile = None
          /\ pc' = [pc EXCEPT ![p] = "stopped"]
       \/ /\ pidFile # None
          /\ \E age \in PidFileAges :
               pc' = [pc EXCEPT ![p] =
                        IF age = "old" THEN "w_port" ELSE "w_deadline"]
    /\ UNCHANGED <<Files, Locals, Env>>

WaitLoadPort(p) ==
    /\ pc[p] = "w_port"
    /\ seenPort' = [seenPort EXCEPT ![p] = portFile]
    /\ pc' = [pc EXCEPT ![p] =
                IF portFile = None THEN "w_rmpid_invalid" ELSE "w_probe"]
    /\ UNCHANGED <<Files, seenPid, probeErr, Env>>

\* stillRunning: the port answers, or the probe timed out.
WaitProbe(p) ==
    /\ pc[p] = "w_probe"
    /\ \E o \in Probe(seenPort[p]) :
         /\ probeErr' = [probeErr EXCEPT ![p] = o]
         /\ pc' = [pc EXCEPT ![p] =
                     IF o = "ok" \/ IsTimeoutErr(o) THEN "w_deadline"
                     ELSE "w_rmpid_invalid"]
    /\ UNCHANGED <<Files, seenPid, seenPort, Env>>

\* Not stillRunning: both files are removed and the wait is over.
WaitRemoveInvalid(p) ==
    \/ RemovePID(p, "w_rmpid_invalid", "w_rmport_invalid")
    \/ RemovePort(p, "w_rmport_invalid", "stopped")

\* The deadline has passed: the wait fails.
WaitTimeout(p) ==
    /\ Goto(p, "w_deadline", "timeout")
    /\ UNCHANGED <<Files, Locals, Env>>

\* The deadline has not passed: sleep, then the next round.
WaitSleep(p) ==
    /\ Goto(p, "w_deadline", "w_read")
    /\ UNCHANGED <<Files, Locals, Env>>

-----------------------------------------------------------------------------
(* The environment. *)

\* The grace period of the empty pid file runs out.  Its creator writes the
\* record, or removes the file again, right after creating it, so this
\* happens to a live creator only if it stalls.
GraceElapses ==
    /\ pidFile # None /\ pidFile.st = "empty_young"
    /\ MayStall \/ pc[pidFile.by] \notin {"write", "undo"}
    /\ pidFile' = [pidFile EXCEPT !.st = "empty_old"]
    /\ UNCHANGED <<portFile, pc, Locals, Env>>

\* A process that has returned from its call exits.
Exit(p) ==
    /\ pc[p] \in FinalPcs
    /\ deaths < MaxDeaths
    /\ pc' = [pc EXCEPT ![p] = "dead"]
    /\ deaths' = deaths + 1
    /\ UNCHANGED <<Files, Locals, listening, reusedPids>>

\* A process is killed in the middle of what it does; its files stay.
Crash(p) ==
    /\ pc[p] \in ClaimPcs \cup OwnerPcs \cup WaitPcs
    /\ deaths < MaxDeaths
    /\ pc' = [pc EXCEPT ![p] = "dead"]
    /\ listening' = listening \ {p}
    /\ deaths' = deaths + 1
    /\ UNCHANGED <<Files, Locals, reusedPids>>

\* The pid of a dead process is given to an unrelated process.
ReusePID(q) ==
    /\ PidReuse
    /\ pc[q] = "dead" /\ q \notin reusedPids
    /\ reusedPids' = reusedPids \cup {q}
    /\ UNCHANGED <<Files, pc, Locals, listening, deaths>>

-----------------------------------------------------------------------------
(* The specification. *)

Init ==
    /\ pidFile = None
    /\ portFile = None
    /\ pc = [p \in Procs |-> "idle"]
    /\ seenPid = [p \in Procs |-> None]
    /\ seenPort = [p \in Procs |-> None]
    /\ probeErr = [p \in Procs |-> None]
    /\ listening = {}
    /\ reusedPids = {}
    /\ deaths = 0

Claim(p) ==
    \/ StartClaim(p)
    \/ CleanupReadPID(p) \/ CleanupCheckPID(p) \/ CleanupRemoveStale(p)
    \/ CleanupStat(p) \/ CleanupLoadPortInvalid(p) \/ CleanupProbeInvalid(p)
    \/ CleanupRemoveInvalid(p)
    \/ CleanupLoadPort(p) \/ CleanupProbe(p) \/ CleanupRemovePort(p)
    \/ CreatePIDFile(p) \/ CreateCollides(p)
    \/ WritePIDFile(p) \/ UndoPIDFile(p)

Serve(p) ==
    Listen(p) \/ PublishPort(p) \/ StopServer(p) \/ Release(p)

Wait(p) ==
    \/ StartWait(p)
    \/ WaitReadPID(p) \/ WaitCheckPID(p) \/ WaitRemoveStale(p)
    \/ WaitStat(p) \/ WaitLoadPort(p) \/ WaitProbe(p) \/ WaitRemoveInvalid(p)
    \/ WaitTimeout(p) \/ WaitSleep(p)

Next ==
    \/ \E p \in Procs : Claim(p) \/ Serve(p) \/ Wait(p)
    \/ \E p \in Procs : Exit(p) \/ Crash(p) \/ ReusePID(p)
    \/ GraceElapses

\* The OS schedules every live process, so a call that can take its next
\* step takes it.  Nothing forces a process to start, an owner to stop, a
\* process to die or the grace period to matter.  The deadline of a wait is
\* a time of day and a round of its loop sleeps 200 ms, so a wait that comes
\* to the deadline check again and again finds the deadline passed.
Fairness ==
    \A p \in Procs :
        /\ WF_vars(Claim(p) /\ pc[p] # "idle")
        /\ WF_vars(Wait(p) /\ pc[p] # "idle")
        /\ SF_vars(WaitTimeout(p))

Spec == Init /\ [][Next]_vars /\ Fairness

-----------------------------------------------------------------------------
(* Properties. *)

TypeOK ==
    /\ pidFile \in PidFileValues \cup {None}
    /\ portFile \in Procs \cup {None}
    /\ pc \in [Procs -> AllPcs]
    /\ seenPid \in [Procs -> Procs \cup {None}]
    /\ seenPort \in [Procs -> Procs \cup {None}]
    /\ probeErr \in [Procs -> ProbeOutcomes \cup {None}]
    /\ listening \subseteq Procs
    /\ reusedPids \subseteq Procs
    /\ deaths \in 0..MaxDeaths
    \* a probe is always of a pid or a port that was read
    /\ \A p \in Procs :
         /\ pc[p] \in {"c_kill", "w_kill"} => seenPid[p] \in Procs
         /\ pc[p] \in {"c_probe_invalid", "c_probe", "w_probe"}
              => seenPort[p] \in Procs

Owners == {p \in Procs : pc[p] \in OwnerPcs}

\* At most one claimant: no two live processes have both been told by
\* claimPlaygroundPIDFile that the data directory is theirs.
AtMostOneOwner == Cardinality(Owners) <= 1

\* From the return of claimPlaygroundPIDFile to the call of release, the pid
\* file is the owner's own complete record: no cleanup, no waiter and no
\* other claim has removed or replaced it.
OwnerHoldsRecord ==
    \A p \in Owners : pidFile = [by |-> p, st |-> "full"]

\* waitPlaygroundStopped returns nil only when no live process owns the
\* data directory at that moment.
StoppedMeansNoOwner ==
    [][\A p \in Procs :
          pc[p] \in WaitPcs /\ pc'[p] = "stopped" => Owners = {}]_vars

\* The refinement mapping: a process holds the directory from the return of
\* claimPlaygroundPIDFile to the call of release, and the endpoint the
\* directory names is what the port file says.
PhaseOf(p) ==
    CASE pc[p] \in ClaimPcs -> "claiming"
      [] pc[p] = "stopping" -> "closing"
      [] pc[p] \in OwnerPcs -> "holding"
      [] pc[p] \in WaitPcs  -> "waiting"
      [] pc[p] = "failed"   -> "refused"
      [] OTHER              -> pc[p]

Abstract == INSTANCE Ownership WITH
                phase    <- [p \in Procs |-> PhaseOf(p)],
                endpoint <- portFile

\* The protocol implements Ownership: whatever the cleanups, claims and
\* waits of several processes do to the two files in whatever order, seen
\* from outside a claim is granted only on a free directory, a wait reports
\* "stopped" only on a free directory, the port file of a live owner is
\* removed by nobody but the owner (the cleanup's removals by path hit stale
\* files only), and every claim returns.  It holds when the new owner races
\* with the death of the old one; with a third process see stale_race and
\* port_sweep.
ImplementsOwnership == Abstract!Spec

\* The PID record is write-once: a complete record is never replaced or
\* changed by a claim, it only ever disappears as a whole.
RecordWriteOnce ==
    [][pidFile # None /\ pidFile.st = "full"
          => pidFile' = pidFile \/ pidFile' = None]_vars

\* The port file is the ready signal of the owner that wrote it: while that
\* owner serves, no cleanup of another process takes it away.  The cleanup
\* probes the port it loaded and then removes the port file by path, which
\* by then may be the file of the next owner.
OwnerStaysDiscoverable ==
    [][\A p \in Procs :
          pc[p] = "ready" /\ pc'[p] = "ready" /\ portFile = p
             => portFile' = p]_vars

\* cleanupStaleRuntimeFiles never deletes under ambiguity: where the port
\* file is all there is, it removes it after a refused connection, never
\* after a timeout or an unexpected answer.
NoRemovalOnUnexpectedProbe ==
    [][\A p \in Procs :
          pc[p] = "c_rmport" /\ pc'[p] = "create"
             => probeErr[p] = "refused"]_vars

\* Every call of claimPlaygroundPIDFile returns: the create-cleanup loop
\* does not spin.
ClaimTerminates ==
    \A p \in Procs :
        pc[p] \in ClaimPcs ~> pc[p] \in OwnerPcs \cup FinalPcs \cup {"dead"}

\* Every call of waitPlaygroundStopped returns: each round of the poll loop,
\* whatever it found (a live pid, a reused pid, a young file whose writer is
\* dead, a port that answers or times out), ends at the deadline check.
WaitTerminates ==
    \A p \in Procs : pc[p] \in WaitPcs ~> pc[p] \in FinalPcs \cup {"dead"}

=============================================================================
