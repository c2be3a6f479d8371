--------------------------- MODULE ProgressEngine ---------------------------
(***************************************************************************)
(* The event engine of the progress UI (pkg/tuiv2/progress/state.go) and   *)
(* the plain renderer that prints from its state.                          *)
(*                                                                         *)
(* The engine is a deterministic fold of events into groups and tasks.     *)
(* What is not deterministic is its input: events are stamped by the       *)
(* goroutine that emits them and reach the engine in channel order, and a  *)
(* replayed event log may hold anything that decodes.  So every event and  *)
(* every time stamp is possible at every step.                             *)
(*                                                                         *)
(* Titles, meta and messages are members of Labels.  The group options     *)
(* showMeta, hideDetailsOnSuccess and sortTasksByTitle are updated by the  *)
(* same three lines each and are modelled by showMeta; likewise meta,      *)
(* hideIfFast and revealAfter follow message.  The speed estimate is a     *)
(* float of which only "known or not" is kept.                             *)
(***************************************************************************)
EXTENDS Integers, Sequences, FiniteSetsExt, Functions, TLC

CONSTANTS
    Ids,            \* the non-zero group and task ids events may carry
    Labels,         \* titles and messages
    Bytes,          \* values of Current and Total in progress events
    EventStatuses,  \* values of Status in task state events
    EventKinds,     \* values of Kind in task update events
    MaxTime,        \* time stamps are 1..MaxTime; 0 is the zero time.Time
    Counted,        \* the kinds of line whose printing is counted
    MaxPrinted,     \* lines of one kind per task are counted up to this
    None            \* a nil pointer field of an event

ASSUME /\ Ids \subseteq Nat \ {0} /\ IsFiniteSet(Ids)
       /\ Bytes \subseteq Int
       /\ MaxTime \in Nat \ {0}
       /\ MaxPrinted \in Nat \ {0}

VARIABLES
    engine,     \* the engineState: groups, groupByID, taskByID
    printed     \* how many lines of each kind the renderer wrote per task

engineVars == <<engine, printed>>

NoTime   == 0
Times    == 1..MaxTime
Active   == {"running", "retrying"}
Terminal == {"done", "error", "skipped", "canceled"}
Statuses == {"pending"} \cup Active \cup Terminal
Kinds    == {"generic", "download"}
LineKinds == {"start", "download_start", "retry", "error", "skipped", "canceled"}
StartLines == {"start", "download_start"}

OrNone(S) == S \cup {None}

\* Every event that decodes.  Id 0 is the omitted id.
Events ==
    LET ids == Ids \cup {0} IN
         [type : {"group_add"}, gid : ids, title : OrNone(Labels)]
    \cup [type : {"group_update"}, gid : ids, title : OrNone(Labels),
          showMeta : OrNone(BOOLEAN)]
    \cup [type : {"group_close"}, gid : ids, finished : OrNone(BOOLEAN)]
    \cup [type : {"task_add"}, gid : ids, tid : ids, pending : BOOLEAN]
    \cup [type : {"task_update"}, tid : ids, kind : OrNone(EventKinds),
          message : OrNone(Labels)]
    \cup [type : {"task_progress"}, tid : ids, current : OrNone(Bytes),
          total : OrNone(Bytes)]
    \cup [type : {"task_state"}, tid : ids, status : OrNone(EventStatuses),
          message : OrNone(Labels)]
    \cup [type : {"print_lines", "sync"}]

-----------------------------------------------------------------------------
(* Reading the state. *)

TasksOf(s, gid) == {s.taskByID[t] : t \in Range(s.groupByID[gid].tasks)}

HasActiveTask(s, gid) == \E t \in TasksOf(s, gid) : t.status \in Active

CanAutoSeal(s, gid) ==
    LET g == s.groupByID[gid] IN
    /\ ~g.sealed /\ g.closed /\ g.tasks # <<>>
    /\ ~HasActiveTask(s, gid)

Elapsed(s, gid, now) ==
    LET g       == s.groupByID[gid]
        lastEnd == Max({t.endAt : t \in TasksOf(s, gid)} \cup {NoTime})
        end     == IF g.closed /\ g.closedAt > lastEnd THEN g.closedAt ELSE lastEnd
    IN  CASE g.startedAt = NoTime                  -> 0
          [] HasActiveTask(s, gid) \/ end = NoTime -> now - g.startedAt
          [] OTHER                                 -> end - g.startedAt

HasRunning(s) ==
    \E gid \in DOMAIN s.groupByID :
        ~s.groupByID[gid].sealed /\ HasActiveTask(s, gid)

-----------------------------------------------------------------------------
(* Applying an event. *)

\* The guard of every group handler: the group is known and not sealed.
GroupIsOpen(s, gid) ==
    gid \in DOMAIN s.groupByID /\ ~s.groupByID[gid].sealed

\* Mutated form: the task of a sealed group still takes events.
TaskIsOpenIgnoresSeal(s, tid) == tid \in DOMAIN s.taskByID

\* The guard of every task handler: the task is known, its group not sealed.
TaskIsOpen(s, tid) ==
    tid \in DOMAIN s.taskByID /\ ~s.groupByID[s.taskByID[tid].g].sealed

StrOf(p) == IF p = None THEN "" ELSE p

ApplyGroupAdd(s, now, e) ==
    IF e.gid = 0 \/ e.gid \in DOMAIN s.groupByID THEN s
    ELSE [s EXCEPT
            !.groupByID = (e.gid :> [title |-> StrOf(e.title), showMeta |-> TRUE,
                                     startedAt |-> now, closedAt |-> NoTime,
                                     closed |-> FALSE, sealed |-> FALSE,
                                     tasks |-> <<>>]) @@ @,
            !.groups = Append(@, e.gid)]

ApplyGroupUpdate(s, e) ==
    IF ~GroupIsOpen(s, e.gid) THEN s
    ELSE [s EXCEPT
            !.groupByID[e.gid].title = IF e.title = None THEN @ ELSE e.title,
            !.groupByID[e.gid].showMeta = IF e.showMeta = None THEN @ ELSE e.showMeta]

\* Mutated form: the close does not record when it happened.
ApplyGroupCloseUntimed(s, now, e) ==
    CASE ~GroupIsOpen(s, e.gid) -> s
      [] e.finished = FALSE     -> [s EXCEPT !.groupByID[e.gid].sealed = TRUE]
      [] OTHER                  -> [s EXCEPT !.groupByID[e.gid].closed = TRUE]

\* Finished = false seals the group; otherwise the first close closes it.
ApplyGroupClose(s, now, e) ==
    CASE ~GroupIsOpen(s, e.gid)     -> s
      [] e.finished = FALSE         -> [s EXCEPT !.groupByID[e.gid].sealed = TRUE]
      [] s.groupByID[e.gid].closed  -> s
      [] OTHER -> [s EXCEPT !.groupByID[e.gid].closed = TRUE,
                            !.groupByID[e.gid].closedAt = now]

NewTask(gid, now, pending) ==
    [g |-> gid, kind |-> "generic", message |-> "",
     status  |-> IF pending THEN "pending" ELSE "running",
     startAt |-> IF pending THEN NoTime ELSE now,
     endAt |-> NoTime, current |-> 0, total |-> 0,
     speedKnown |-> FALSE, lastSpeedAt |-> NoTime, lastSpeedBytes |-> 0,
     plainStartPrinted |-> FALSE, downloadStartPrinted |-> FALSE]

\* Mutated form: a task id that is already known is added again.
ApplyTaskAddAgain(s, now, e) ==
    IF ~GroupIsOpen(s, e.gid) \/ e.tid = 0 THEN s
    ELSE [s EXCEPT
            !.taskByID = (e.tid :> NewTask(e.gid, now, e.pending)) @@ @,
            !.groupByID[e.gid].tasks = Append(@, e.tid)]

ApplyTaskAdd(s, now, e) ==
    IF ~GroupIsOpen(s, e.gid) \/ e.tid = 0 \/ e.tid \in DOMAIN s.taskByID THEN s
    ELSE [s EXCEPT
            !.taskByID = (e.tid :> NewTask(e.gid, now, e.pending)) @@ @,
            !.groupByID[e.gid].tasks = Append(@, e.tid),
            !.groupByID[e.gid].startedAt = IF @ = NoTime THEN now ELSE @]

ApplyTaskUpdate(s, e) ==
    IF ~TaskIsOpen(s, e.tid) THEN s
    ELSE [s EXCEPT
            !.taskByID[e.tid].kind =
                CASE e.kind = None       -> @
                  [] e.kind = "download" -> "download"
                  [] OTHER               -> "generic",
            !.taskByID[e.tid].message = IF e.message = None THEN @ ELSE e.message]

\* Mutated form: a negative value is stored as it is.
NonNegativeUnclamped(n) == n

NonNegative(n) == IF n < 0 THEN 0 ELSE n

\* The counters move while the task is not finished; the speed window is
\* restarted by the first sample, by a clock that did not advance and by a
\* counter that went back, and yields an estimate once a window has passed
\* (MinWindow ticks stand for the second of the code).
MinWindow == 1
ApplyTaskProgress(s, now, e) ==
    IF ~TaskIsOpen(s, e.tid) THEN s
    ELSE
      LET t0 == s.taskByID[e.tid]
          counting == t0.status \notin Terminal
          t  == [t0 EXCEPT
                   !.total   = IF e.total # None /\ counting
                               THEN NonNegative(e.total) ELSE @,
                   !.current = IF e.current # None /\ counting
                               THEN NonNegative(e.current) ELSE @]
          dt    == now - t.lastSpeedAt
          delta == t.current - t.lastSpeedBytes
          restart == [t EXCEPT !.lastSpeedAt = now, !.lastSpeedBytes = t.current]
      IN  [s EXCEPT !.taskByID[e.tid] =
             CASE t.status # "running" \/ t.kind # "download" -> t
               [] t.lastSpeedAt = NoTime \/ now <= t.lastSpeedAt -> restart
               [] delta < 0                                     -> restart
               [] dt >= MinWindow /\ delta > 0 -> [restart EXCEPT !.speedKnown = TRUE]
               [] OTHER                                         -> t]

\* Mutated form: nothing is stamped.
EnsureStartedNot(s, tid, now) == s

EnsureStarted(s, tid, now) ==
    [s EXCEPT
       !.taskByID[tid].startAt = IF @ = NoTime THEN now ELSE @,
       !.groupByID[s.taskByID[tid].g].startedAt = IF @ = NoTime THEN now ELSE @]

\* Which status a task in status "from" takes from an event.  Pending is
\* taken always, done only while active, the others unless finished.
Accepts(from, to) ==
    \/ to = "pending"
    \/ to = "done" /\ from \in Active
    \/ to \in {"running", "retrying", "error", "skipped", "canceled"}
          /\ from \notin Terminal

\* When a download finishes without an estimate, the average is one.
FinalSpeed(t, now) ==
    \/ t.speedKnown
    \/ /\ t.status \in Terminal /\ t.kind = "download"
       /\ t.startAt # NoTime /\ now > t.startAt
       /\ (IF t.total > 0 THEN t.total ELSE t.current) > 0

ApplyTaskState(s, now, e) ==
    IF \/ ~TaskIsOpen(s, e.tid)
       \/ e.status \notin Statuses
       \/ ~Accepts(s.taskByID[e.tid].status, e.status)
    THEN s
    ELSE
      LET s1 == [s EXCEPT
                   !.taskByID[e.tid].status = e.status,
                   !.taskByID[e.tid].endAt =
                       IF e.status \in Terminal THEN now ELSE @]
          s2 == IF e.status \in {"pending", "done"} THEN s1
                ELSE EnsureStarted(s1, e.tid, now)
          s3 == [s2 EXCEPT !.taskByID[e.tid].message =
                              IF e.message = None THEN @ ELSE e.message]
      IN  [s3 EXCEPT !.taskByID[e.tid].speedKnown = FinalSpeed(s3.taskByID[e.tid], now)]

ApplyEvent(s, now, e) ==
    CASE e.type = "group_add"     -> ApplyGroupAdd(s, now, e)
      [] e.type = "group_update"  -> ApplyGroupUpdate(s, e)
      [] e.type = "group_close"   -> ApplyGroupClose(s, now, e)
      [] e.type = "task_add"      -> ApplyTaskAdd(s, now, e)
      [] e.type = "task_update"   -> ApplyTaskUpdate(s, e)
      [] e.type = "task_progress" -> ApplyTaskProgress(s, now, e)
      [] e.type = "task_state"    -> ApplyTaskState(s, now, e)
      [] OTHER                    -> s

-----------------------------------------------------------------------------
(* The plain renderer: what it prints for an event, from the state the     *)
(* event left.  A result is the state (the renderer keeps its flags in the *)
(* task) and the line printed, if any.                                     *)

Silent(s) == [s |-> s, line |-> None]

MaybePrintGenericStart(s, tid, now) ==
    IF s.taskByID[tid].plainStartPrinted THEN Silent(s)
    ELSE [s |-> [s EXCEPT !.taskByID[tid].plainStartPrinted = TRUE,
                          !.taskByID[tid].startAt = IF @ = NoTime THEN now ELSE @],
          line |-> <<tid, "start">>]

\* Mutated form: the status of the task is not looked at.
MaybePrintDownloadStartAnyStatus(s, tid, now) ==
    LET t == s.taskByID[tid] IN
    IF t.downloadStartPrinted \/ t.kind # "download" THEN Silent(s)
    ELSE [s |-> [s EXCEPT !.taskByID[tid].downloadStartPrinted = TRUE,
                          !.taskByID[tid].startAt = IF @ = NoTime THEN now ELSE @],
          line |-> <<tid, "download_start">>]

MaybePrintDownloadStart(s, tid, now) ==
    LET t == s.taskByID[tid] IN
    IF t.downloadStartPrinted \/ t.kind # "download" \/ t.status # "running"
    THEN Silent(s)
    ELSE [s |-> [s EXCEPT !.taskByID[tid].downloadStartPrinted = TRUE,
                          !.taskByID[tid].startAt = IF @ = NoTime THEN now ELSE @],
          line |-> <<tid, "download_start">>]

\* printRetry, printError, printSkipped, printCanceled: one line each.
StatusLine == [retrying |-> "retry", error |-> "error",
               skipped |-> "skipped", canceled |-> "canceled"]

RenderEvent(s, now, e) ==
    CASE e.type = "task_update" /\ e.tid \in DOMAIN s.taskByID ->
            MaybePrintDownloadStart(s, e.tid, now)
      [] e.type = "task_state" /\ e.tid \in DOMAIN s.taskByID ->
            LET t == s.taskByID[e.tid] IN
            CASE t.status = "running" /\ t.kind = "download" ->
                    MaybePrintDownloadStart(s, e.tid, now)
              [] t.status = "running" -> MaybePrintGenericStart(s, e.tid, now)
              [] t.status \in DOMAIN StatusLine ->
                    [s |-> s, line |-> <<e.tid, StatusLine[t.status]>>]
              [] OTHER -> Silent(s)
      [] OTHER -> Silent(s)

-----------------------------------------------------------------------------
(* The specification: any event, stamped with any time. *)

Count(p, line) ==
    IF line \notin DOMAIN p \/ p[line] = MaxPrinted THEN p
    ELSE [p EXCEPT ![line] = @ + 1]

\* The engine half of processPlainEvent: apply, then render.
Process(now, e) ==
    LET r == RenderEvent(ApplyEvent(engine, now, e), now, e) IN
    /\ engine' = r.s
    /\ printed' = Count(printed, r.line)

EngineInit ==
    /\ engine = [groups |-> <<>>, groupByID |-> <<>>, taskByID |-> <<>>]
    /\ printed = [l \in Ids \X Counted |-> 0]

EngineNext == \E now \in Times, e \in Events : Process(now, e)

EngineSpec == EngineInit /\ [][EngineNext]_engineVars

-----------------------------------------------------------------------------
(* Properties. *)

GroupType ==
    [title : Labels \cup {""}, showMeta : BOOLEAN,
     startedAt : Times, closedAt : Times \cup {NoTime},
     closed : BOOLEAN, sealed : BOOLEAN, tasks : Seq(Ids)]

TaskType ==
    [g : Ids, kind : Kinds, message : Labels \cup {""}, status : Statuses,
     startAt : Times \cup {NoTime}, endAt : Times \cup {NoTime},
     current : Nat, total : Nat, speedKnown : BOOLEAN,
     lastSpeedAt : Times \cup {NoTime}, lastSpeedBytes : Nat,
     plainStartPrinted : BOOLEAN, downloadStartPrinted : BOOLEAN]

\* The state is well-formed; the byte counters and the start of the speed
\* window are never negative whatever applyTaskProgress is given.
EngineTypeOK ==
    /\ engine.groups \in Seq(Ids)
    /\ DOMAIN engine.groupByID \subseteq Ids
    /\ DOMAIN engine.taskByID \subseteq Ids
    /\ \A gid \in DOMAIN engine.groupByID : engine.groupByID[gid] \in GroupType
    /\ \A tid \in DOMAIN engine.taskByID : engine.taskByID[tid] \in TaskType
    /\ printed \in [Ids \X Counted -> 0..MaxPrinted]

\* The three indexes of engineState agree: the groups in creation order are
\* the keys of groupByID, and every task of taskByID stands exactly once in
\* the task list of the group it points to and in no other (applyGroupAdd
\* and applyTaskAdd are idempotent on ids they know).
IndexesAgree ==
    LET s == engine IN
    /\ Range(s.groups) = DOMAIN s.groupByID
    /\ Len(s.groups) = Cardinality(DOMAIN s.groupByID)
    /\ \A gid \in DOMAIN s.groupByID :
         LET ts == s.groupByID[gid].tasks IN
         /\ Len(ts) = Cardinality(Range(ts))
         /\ Range(ts) = {tid \in DOMAIN s.taskByID : s.taskByID[tid].g = gid}

FrozenPart(t) ==
    [f \in DOMAIN t \ {"plainStartPrinted", "downloadStartPrinted"} |-> t[f]]

\* A sealed group is a snapshot: no later event, of whatever kind, changes
\* the group, adds a task to it, or changes the status, times or counters of
\* one of its tasks (the sealed test of every apply function).
SealedIsFrozen ==
    [][\A gid \in DOMAIN engine.groupByID :
          engine.groupByID[gid].sealed =>
             /\ engine'.groupByID[gid] = engine.groupByID[gid]
             /\ \A tid \in Range(engine.groupByID[gid].tasks) :
                   FrozenPart(engine'.taskByID[tid]) = FrozenPart(engine.taskByID[tid])
      ]_engineVars

\* The times printError, printSkipped, printCanceled and elapsed subtract
\* are there: a task has an end time exactly when it is finished, and a
\* task that has left pending has a start time (applyTaskState stamps the
\* end with the status and calls ensureStarted where a task may finish
\* without ever having run).
FinishedTasksHaveTimes ==
    \A tid \in DOMAIN engine.taskByID :
        LET t == engine.taskByID[tid] IN
        /\ t.endAt # NoTime <=> t.status \in Terminal
        /\ t.status # "pending" => t.startAt # NoTime

\* The elapsed time of a group that can be sealed automatically does not
\* depend on when it is asked: elapsed ends at the close or at the last end
\* of a task, whichever is later (applyGroupClose records closedAt, and
\* canAutoSeal and elapsed agree on what "still running" means).
AutoSealElapsedIsFixed ==
    \A gid \in DOMAIN engine.groupByID :
        CanAutoSeal(engine, gid) =>
            \A n1, n2 \in Times :
                Elapsed(engine, gid, n1) = Elapsed(engine, gid, n2)

\* No task is announced after it has ended.  renderEvent looks at the status
\* the event left, not at whether applyTaskState took the event, so a Start
\* or an update of kind that arrives for a task that is done, failed,
\* skipped or canceled (also one canceled while pending, which never printed
\* a start line and has both flags clear) prints a start line unless the
\* engine refused the status and maybePrintDownloadStart tests it.  It holds
\* for what the handles emit; a replayed pending reopens the task.
NoStartAfterEnd ==
    [][\A tid \in DOMAIN engine.taskByID :
          engine.taskByID[tid].status \in Terminal =>
             \A k \in StartLines : printed'[<<tid, k>>] = printed[<<tid, k>>]
      ]_engineVars

\* A finished task stays finished: done, error, skipped and canceled are
\* final, as TestTaskCancelFromPending_IsTerminalAndBlocksStart says of
\* canceled and Start.
TerminalIsFinal ==
    [][\A tid \in DOMAIN engine.taskByID :
          engine.taskByID[tid].status \in Terminal
             => engine'.taskByID[tid].status = engine.taskByID[tid].status
      ]_engineVars

=============================================================================
