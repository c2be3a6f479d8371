# TLA+ models of tiup playground-ng and the tuiv2 progress engine

This directory holds the TLA+ specifications of the parts of this repository
whose correctness depends on the order in which several actors take their
steps: the marker files by which playground instances claim a data directory,
the event pipeline of the progress UI, and the shutdown of one instance (its
controller, its process group and the processes it kills).  `PROJECT.json` is the
machine-readable index (components, runs, the map from definitions to source
lines, findings, hazards); this file is the prose.

## 1. Inventory

### 1.1 Runtime file protocol - `src/components/playground-ng/daemon_files.go`

State: two files in the data directory.  `pid` holds `pid=`, `started_at=`,
`tag=` lines and is created with `O_EXCL`; `port` holds the port of the
command server.  Everything else is local to a call.

| operation | what it does |
|---|---|
| `readPIDFile` | parses the file; not-exist, parsed, or invalid (no positive `pid=`) |
| `isPIDRunning` | `kill(pid, 0)`; `EPERM` counts as running |
| `probePlaygroundCommandServer` | `GET /ping`, on anything but a 200 falls back to `GET /command` and takes a 405 for an old server |
| `cleanupStaleRuntimeFiles` | three branches (parsed record, invalid record, port file alone); removes what it finds stale, fails where an instance may be alive |
| `claimPlaygroundPIDFile` | cleanup, then loop: exclusive create, write, close; on `EEXIST` cleanup again; returns `release` |
| `waitPlaygroundStopped` | polls until the pid file is gone, its pid is dead, or it is invalid, old and unanswered; removes what it finds stale |

Actors: any number of `tiup playground-ng` processes started on the same tag
(starters), `stop` clients that wait, and the operating system (process
death, pid reuse, whoever listens on a port).  They interact only through the
two files, the pid table and the loopback port.

What is hard: every decision is taken on a file read some steps before the
file is removed *by path*; the grace period stands in for a lock between
create and write; the owner may die at any step; a pid or a port may mean
somebody else by the time it is probed.

Properties that should hold: one owner per data directory; an owner keeps its
record until it releases it; a wait returns success only when nobody owns the
directory; a complete record is never overwritten; nothing is removed on an
ambiguous probe; every claim returns.

### 1.2 Process kill - `src/components/playground-ng/kill_unix.go`

`killProcessOrGroup` signals the process group when the pid leads it,
otherwise the pid.  It has no state of its own, but it is two system calls,
and the process tree it is aimed at changes between them.

### 1.3 Progress event engine - `src/pkg/tuiv2/progress/state.go`

State (`engineState`): groups in creation order, each with title, tasks in
creation order, the flags `sealed` and `closed`, `startedAt` and
`closedAt`; tasks with status (pending, running, retrying, done, error,
skipped, canceled), `startAt`/`endAt`, byte counters and a speed estimate.

Operations: `applyEvent` dispatches on the event type to `applyGroupAdd`,
`applyGroupUpdate`, `applyGroupClose`, `applyTaskAdd`, `applyTaskUpdate`,
`applyTaskProgress`, `applyTaskState`; `hasRunning`, `canAutoSeal` and
`elapsed` are read by the renderer.

What is hard: events reach the engine in the order the UI's channel
delivers them, from tasks that several goroutines drive; a task state
event may arrive for a task or group the engine has never seen, after the
group was closed, or after the task finished.

Properties: a sealed group is immutable; a task has an end time exactly
when its status is final, and a start time once it has left pending; the
indexes `groups`, `groupByID`, `taskByID` and the task lists agree; the
elapsed time of a group that can be sealed is fixed.

### 1.4 Progress UI - `src/pkg/tuiv2/progress/ui.go`, the event, task, group and writer files

State (`UI`): the event channel `eventsCh` (4096 slots), `closeCh`, the
flag `closed`, the id counter `nextID`, the table of `Sync` waiters, the
line buffer of the writer, the event log; the renderer goroutine
(`runPlain`, or the Bubble Tea program in TTY mode) with its `engineState`.

Operations: `New`, `Group`, `Group.Task`/`TaskPending`, `Group.Close`,
`Group.Seal`, the task handle's `Start`, `Done`, `Error`, `Skip`, `Cancel`,
`Retrying`, `SetMeta`, `SetProgress`..., `PrintLines`, `Writer().Write`,
`Sync`, `Close`, `ReplayEvent`; inside, `emit`, `emitForced`, `runPlain`,
`processPlainEvent`, `fulfillSync`.

What is hard: `emit` checks `closed` and then selects between `closeCh`
and the channel send, so an emit races `Close`; `Sync` is a barrier that
must not return before every earlier event is rendered, and must return
when the UI closes under it; `Close` flushes the writer's partial line,
closes `closeCh` and waits for the renderer, which has to drain what is
still in the channel; a full channel blocks emitters.

Properties: what `Sync` promises (everything emitted before it is rendered
when it returns); no event is rendered twice or out of channel order; after
`Close` returns nothing is rendered any more; `Close` and `Sync` return.

### 1.5 Event log - `src/pkg/tuiv2/progress/eventlog.go`

`newEventLogSink` makes a sink for a writer and none for a nil writer;
`eventLogSink.write` appends one JSON line per event under a mutex and drops
the encoder's error.  `processPlainEvent` calls it first, for every event but
a `Sync` barrier, so an event is in the log when the barrier behind it is
answered.  In `ProgressUI` the log is the variable `eventLog`.

### 1.6 Renderers - plain and TTY

The plain renderer (text in `eventlog_test.go` of this snapshot) and the
Bubble Tea model (text in `ui_sync_test.go`) turn `engineState` into lines.
Of the plain renderer, which line `renderEvent` prints for an event and the
printed-once flags are in `ProgressEngine`; layout and wording are not
modelled.

### 1.7 Parts the specification names whose code is not in this snapshot

Process group (`spec.md` section 4.2), command protocol and controller
(4.3), target resolver (4.4), client commands (4.5).  Of these only tests
are under `src/`.  The modules for them are written from `spec.md` and
those tests and are marked `spec_modelled` in `PROJECT.json`.

## 2. Plan

| order | module | models | state of work |
|---|---|---|---|
| 1 | `RuntimeFiles` | 1.1, with the port file's writer from the specification | done |
| 2 | `ProgressEngine` | 1.3 and the plain renderer's decisions | done |
| 3 | `ProgressUI` | 1.4 with 1.5's ordering, ModePlain and ModeOff | done |
| 4 | `Ownership` (abstract) | what the file protocol promises: one holder, an endpoint only the holder withdraws, "stopped" only on a free directory, every claim answered; implemented by `RuntimeFiles` | done (section 3.6) |
| 5 | `ProcessGroup` | 1.2 from the source; `Add`, `Close`, `Wait` and the workers from `spec.md` 4.2 | done (section 6) |
| 6 | `Controller` | the single-goroutine loop of `spec.md` 4.3: requests, events, cancellation, drain before the completion signal | done (section 6) |
| 7 | `Instance` | composition of `ProcessGroup` and `Controller` with the command server as a worker: boot, serve, stop, exit | done (section 6) |
| 8 | `PidFile` | `readPIDFile` as a fold over lines against a reference definition | done (section 3.7) |
| 9 | target resolver, `ps`, `stop --all` | 4.4 and 4.5 of `spec.md` | not planned (section 8) |

The readiness order (`Sync`, then the port file) is a property of the UI and
is checked there (`SyncCoversEvents`, and `SyncCoversWrites` which the code
violates); in `Instance` the step that writes the port file stands for both.
The runs are kept to one question each; where the questions of two were
close they were merged (`ParserAgrees` rides on `takeover`).

## 3. `RuntimeFiles`

### 3.1 State and its correspondence

| variable | stands for |
|---|---|
| `pidFile` | the file at `dataDir/pid`: `None`, or `[by, st]` with `by` the process that created it and `st` one of `empty_young` (created, not yet written, younger than the grace period), `empty_old` (the same, older), `full` (the complete record) |
| `portFile` | the file at `dataDir/port`: `None` or the process whose command server it names |
| `pc[p]` | where process `p` is inside `claimPlaygroundPIDFile` (`c_...`, `create`, `write`, `undo`), as owner (`owner`, `listening`, `ready`, `stopping`), inside `waitPlaygroundStopped` (`w_...`), or returned (`failed`, `released`, `stopped`, `timeout`), or `dead` |
| `seenPid[p]`, `seenPort[p]`, `probeErr[p]` | the locals `pid`, `port`, `probeErr` of the call |
| `listening` | the processes whose command server accepts connections |
| `reusedPids` | dead processes whose pid the OS has given to somebody else |
| `deaths` | how many processes have died (bounded by `MaxDeaths`) |

A pid and a port are identified with the process they belong to: the parser
and the formatter of the files are abstracted to the three outcomes of
`readPIDFile`; what the properties tell apart is *whose* record it is.

An unparsable pid file is only ever the empty file between create and write,
or what a crash at that point leaves.  Its age is abstracted to young/old;
`GraceElapses` moves it from one to the other.  Unless `MayStall` is set this
happens only to a file whose creator is no longer between create and write:
the creator writes about fifty bytes right after the create, the grace period
is two seconds.  With `ClockMayStep` the age `os.Stat` reports may also be
negative (the clock was set back after the file was written): the cleanup
tests `age >= 0 && age < grace` and takes such a file for stale, the wait
tests `age >= grace` and takes it for young.

### 3.2 Actions

One action per system call that another process can observe or disturb; the
table in `PROJECT.json` (`map`) names the lines of each.  `CleanupRemoveStale`
and `CleanupRemoveInvalid` are two steps each (pid file, then port file), as
in the code.  `WritePIDFile` writes through the descriptor: the record lands
in the file at the path only if that file is still the one this process
created.  `Listen`, `PublishPort` and `StopServer` come from `spec.md` (4.3,
readiness ordering); `Exit`, `Crash`, `ReusePID` and `GraceElapses` are the
environment.

### 3.3 Runs

| run | bounds | checks | result |
|---|---|---|---|
| `claim_race` | 3 processes, nobody dies, no stall | `OwnerHoldsRecord`, `StoppedMeansNoOwner` | pass |
| `takeover` | 2 processes, 2 deaths, pid reuse, foreign program on a stale port; files of up to 3 lines | `OwnerHoldsRecord`, `ParserAgrees`, `StoppedMeansNoOwner`, `ClaimTerminates`, `ImplementsOwnership`, `WaitTerminates` | pass |
| `stalled` | 3 processes, 1 death, stalls past the grace period, a clock that may be set back, pid reuse, foreign responder | `TypeOK`, `RecordWriteOnce` | pass |
| `stale_race` | 3 processes, 1 death | `AtMostOneOwner` | violated |
| `port_sweep` | 3 processes, nobody dies, no stall | `OwnerStaysDiscoverable` | violated |
| `ambiguous_probe` | 2 processes, 1 death, foreign responder | `NoRemovalOnUnexpectedProbe` | violated |

`claim_race` shows that among live processes the protocol is sound:
`O_EXCL` lets one through, the others fail on the grace period or on the
winner's pid, and a waiter is not told "stopped" under a live owner.

`takeover` shows that with two processes crashes are handled: whatever a dead
owner leaves (empty file, full record, port file, reused pid, foreign
listener on its port), the survivor either takes over or fails, it does not
spin, and no live owner loses its record.  A wait returns as well
(`WaitTerminates`): while the record names a pid that an unrelated process
holds, or the file stays empty and young because its writer died, only the
deadline ends the loop, and every round comes to the deadline check.  With a
`continue` on the young branch in place of the fall-through the wait spins;
that is the mutant of this property.

`stale_race` shows what the third process breaks.  The shortest trace: `p1`
owns and `p2` starts a claim and reads `p1`'s record; `p1` releases and
exits; `p3` claims the now empty directory and becomes owner; `p2` finds
`p1` dead, removes "the" pid file, which is now `p3`'s, creates its own and
becomes owner too.  The same window exists in `waitPlaygroundStopped` (line
341): a `stop` that waits for `p1` removes the record of `p3` and reports
"stopped" while `p3` runs.  No run checks that: the passing runs take the
removals by path of lines 188 and 341 only where they are harmless
(`claim_race` has no death and never takes them, `takeover` has no third
process to claim in between), so `OwnerHoldsRecord` and
`StoppedMeansNoOwner` are claims about those two settings, and with three
processes and a death both are false of the code.

`port_sweep` shows the same kind of window on the port file, and it needs no
crash.  The shortest trace: `p1` owns and is ready; `p2` starts a claim
before `p1`'s pid file exists, so it takes the port-only branch and loads
`p1`'s port; `p1` shuts down in good order and removes both files; `p2`
probes the port and is refused; `p3` claims the free directory, listens and
publishes its port; `p2` removes "the" port file, which is now `p3`'s, and
then fails on `p3`'s pid file.  `p3` runs and holds the PID record, and a
client that resolves the instance by its Port record finds nothing.  Nobody
dies in this run, so `p2` has to be held up between its load and its remove
for as long as the shutdown of `p1` and the start of `p3` take.

`ambiguous_probe` shows that the port-only branch removes the port file
after any answer that is not a timeout, where `spec.md` (4.1) says to fail.

`stalled` admits a process that sleeps longer than two seconds between the
create and the write.  `OwnerHoldsRecord` does not hold then (the sleeper's
file is removed as stale and it still returns as owner); what the run checks
is what `O_EXCL` and the write through the descriptor still guarantee: a
complete record is never overwritten.  It is also the run that reaches the
branches that need an old invalid file beside a port file.  Neither
property flags the owner without a record; that outcome, after a stall or
after a file dated in the future, is described in section 7 and not checked
by a run.  The same holds for the remove after a failed write (line 278),
which hits another claimant's file only after such a stall.

### 3.4 Bounds

Three processes are the least that show the stale-record race and two are
enough for every branch of the takeover; `MaxDeaths` bounds the deaths so
that the state space is finite and at least one process stays alive to
observe.  `ClockMayStep` is set in `stalled` only: a negative age makes the
cleanup remove the file of a claimant that is between create and write, as
a stall does, and `OwnerHoldsRecord` is checked without either.  There is no
counter: a process makes one call of each kind
(claim, then serve and release, or wait) and the wait loop is a cycle in
`pc`.

### 3.5 Fairness

`Spec` asserts weak fairness of each process's claim steps and wait steps
once the call has started: the calls are straight-line code on an OS thread
with timeouts on every network operation (500 ms probe), so a call that can
take its next step does.  Nothing is assumed of starting a call, of an owner
stopping, of deaths, or of the grace period.  `ClaimTerminates` needs no
fairness of other processes.  For `waitPlaygroundStopped` the
specification asserts strong fairness of `WaitTimeout`: the deadline is a
time of day and a round of the loop sleeps 200 ms, so a wait that comes to
the deadline check again and again finds, after finitely many rounds, that
the deadline has passed.  Weak fairness would not do, as `WaitTimeout` is
enabled only at the check, which every round leaves again.

### 3.6 `Ownership` and the refinement

`Ownership` is the protocol seen from outside, written from `spec.md`: a
variable `phase` per process (idle, claiming, holding, closing, refused,
released, waiting, stopped, timeout, dead) and the `endpoint` the directory
names.  `Acquire` and `Stopped` are enabled only while nobody is holding or
closing; `Publish` and `Withdraw` are the holder's; `Sweep` removes an
endpoint that is not a holder's; `Die` leaves the endpoint behind.  Its
fairness says that a claim under way is answered.

`RuntimeFiles` instantiates it with

| abstract | detailed |
|---|---|
| `phase[p]` | `claiming` for every `pc` of the claim, `holding` for `owner`, `listening`, `ready`, `closing` for `stopping`, `waiting` for every `pc` of the wait, `refused` for `failed`, otherwise `pc[p]` |
| `endpoint` | `portFile` |

and `ImplementsOwnership` is the abstract specification under this mapping.
Steps on the pid file, reads, probes and the grace period are stuttering
steps of `Ownership`; a removal of the port file by a cleanup is a `Sweep`,
which is where a detailed step can fail to be an abstract one.  The property
contains the abstract fairness, so it is checked without symmetry.  It
holds in `takeover`; `ClaimTerminates` and `StoppedMeansNoOwner` follow from
it there and stay in the run as the statements a reader of the code looks
for.  With three processes
it fails in the two ways `stale_race` (`Acquire` beside a holder) and
`port_sweep` (`Sweep` of a holder's endpoint) show.

### 3.7 `PidFile`: the parser

`readPIDFile` (lines 46-94) is a loop over the lines of the file with four
ways out.  `PidFile` has it as a fold: `ReadLines(lines)` is
`FoldLeft(ParseLine, Start, lines)` followed by the test for a missing pid,
where `Start` is the zero record with `seenPID` false and `ParseLine` is one
round of the loop.  A line is a record of its key (`pid`, `started_at`,
`tag` or `other`, which stands for blank lines and unknown keys) and its
value: `Empty`, `Malformed` (what `strconv.Atoi` or `time.Parse` rejects)
or the value.  An early return is the `err` field, after which the fold
changes nothing.  `WriteRecord` is the three lines that the claim prints.

`RuntimeFiles` reads through it: `ReadPIDFile` is "not_exist" without a
file, and otherwise what `ReadLines` makes of `Content`, the lines the file
holds (none between the create and the write, the record after it);
`ReadPID` is the pid a reader then goes on with.

`ParserAgrees` (in `takeover`) compares the loop with a definition that has
no loop, `RecordOf`: the first rejected line decides the error; without
one, every field holds the last value given for it, and an empty `tag=`
line takes the tag back while an empty `started_at=` line leaves the time
alone.  It is checked for every file of at most three lines over two pids,
one time and one tag, 10 kinds of line, and, in every state, for the record
the owner wrote.  Three lines are the least for a field to be given, taken
back and given again, and for an error to come after a good pid.

## 4. `ProgressEngine`

### 4.1 State and its correspondence

`engine` is the `engineState` as one record, so that the apply functions are
operators from state to state, as they are methods on one struct in the code.

| field | stands for |
|---|---|
| `engine.groups` | `engineState.groups`, the group ids in creation order |
| `engine.groupByID[g]` | a `groupState`: `title`, `showMeta`, `startedAt`, `closedAt`, `closed`, `sealed`, and `tasks`, the ids of its tasks in creation order |
| `engine.taskByID[t]` | a `taskState`: its group `g`, `kind`, `message`, `status`, `startAt`, `endAt`, `current`, `total`, the speed window (`lastSpeedAt`, `lastSpeedBytes`), `speedKnown`, and the renderer's flags `plainStartPrinted` and `downloadStartPrinted` |
| `printed[<<t, k>>]` | how many lines of kind `k` the plain renderer has written for task `t` (a history variable, counted up to `MaxPrinted`) |

Time is `1..MaxTime`, `0` is the zero `time.Time`.  Titles, meta and
messages are members of `Labels`.  `showMeta`, `hideDetailsOnSuccess` and
`sortTasksByTitle` are set by the same three lines each and are one field of
the model; `meta`, `hideIfFast` and `revealAfter` follow `message` in the
same way.  Of the speed estimate, a float, the model keeps whether there is
one.

### 4.2 The step

`Process(now, e)` is the engine half of `processPlainEvent`:
`applyEvent`, then `renderEvent` on the state that leaves.  `EngineNext`
offers every event of `Events` with every time stamp at every step.  That
is the engine's real input: the stamp is taken by the emitting goroutine
before the channel send, so stamps need not increase in channel order; the
handles test only `ui.closed`, so events for finished tasks and sealed
groups keep arriving; and `ReplayEvent` passes on whatever a log line
decodes to, an id of zero or a status no handle emits included.

### 4.3 Runs

| run | bounds | checks | result |
|---|---|---|---|
| `engine_task` | one id, byte counts `-1` and `2`, every status a handle emits and an unknown one, every kind, two time stamps | `EngineTypeOK`, `FinishedTasksHaveTimes`, `AutoSealElapsedIsFixed`, `NoStartAfterEnd` | pass |
| `engine_groups` | two ids (used for groups and for tasks), one label, status `error`, one time stamp | `IndexesAgree`, `SealedIsFrozen` | pass |
| `replay_pending` | one id, every status of a log, pending included | `TerminalIsFinal` | violated |

`engine_task` follows one task through its whole life under every event in
every order.  The negative byte count is what makes the clamp of
`applyTaskProgress` matter; two time stamps are the least with which a
stamp can be earlier than, equal to and later than a stored one, which is
what the speed window, `elapsed` and `ensureStarted` compare.
`FinishedTasksHaveTimes` is what the renderers rely on when they subtract
`startAt` from `endAt`; it holds because `applyTaskState` calls
`ensureStarted` on every path by which a task finishes without having run.
`AutoSealElapsedIsFixed` relates `canAutoSeal` to `elapsed`: once a group
can be sealed, the time it reports must no longer depend on the clock.
`NoStartAfterEnd` relates the renderer to the engine: `renderEvent` prints
by the status an event left, also when `applyTaskState` ignored the event,
so whether a late `Start` or a late update to kind download announces a
finished task depends on the guards of `applyTaskState` and on the status
test of `maybePrintDownloadStart` together.  The case that needs both is a
task canceled while pending, whose printed flags are still clear.  Without
the status test a finished task that is updated to a download gets a start
line; that is the mutant.  The property says nothing of how often a task is
announced while it runs (section 7).

`engine_groups` needs two ids so that a task can be added again under the
other group and a group can be sealed while the other takes events; the
label makes retitling an event that could change a sealed group.

`replay_pending` shows that a `task_state` event with status pending is
accepted in every status (`state.go:395`): the task goes back to pending
with its end time still set.  No handle emits it; a replayed log can.

### 4.4 Bounds and fairness

The constants `EventStatuses`, `EventKinds`, `Bytes` and `Labels` choose
which events exist in a run, `Counted` which printed lines are counted; a
run gives each the smallest value that reaches what its properties are
about.  The engine has no counter that grows: ids come with the events.
The specification has no fairness and no liveness property: the engine is a
function of its input and promises nothing about what arrives.
Every state has a successor, so deadlock is checked.

## 5. `ProgressUI`

### 5.1 State and its correspondence

| variable | stands for |
|---|---|
| `mode` | `ui.mode` as `New` resolved it: `plain` or `off` |
| `closed`, `closeCh`, `done` | `ui.closed`; whether `closeCh` is closed; whether `plainDoneCh` and `doneCh` are closed (one deferred function closes both) |
| `nextID`, `syncWaiters`, `fulfilled` | `ui.nextID`; the keys of `ui.syncWaiters`; the ids whose `waitCh` is closed |
| `eventsCh` | the channel, oldest first, at most `Cap` events |
| `buf`, `wmu` | the writer's partial line, as the set of the calls whose bytes it holds; the holder of `uiWriter.mu` |
| `pc[p]`, `op[p]`, `ev[p]`, `after[p]`, `sid[p]` | where goroutine `p` is, the call it is in, the event it is emitting, where it goes on when `emit` returns, the id of its `Sync` |
| `rpc`, `cur`, `rendered`, `eventLog` | where `runPlain` is, the event it has received, the events `processPlainEvent` has finished, in order, and the lines of the event log (`None` when `Options.EventLog` is nil, the constant `HasEventLog`) |
| `tags`, `emitted`, `buffered`, `snap`, `syncs`, `atClose`, `closeReturned` | history variables for the properties: which calls have returned, what had been returned when a `Sync` was called, what was in the channel when `closeCh` was closed, which calls of `Close` have returned |

An event is its kind (`event` of a handle, `lines`, `sync`), the sync id, and
the tags of the calls whose output it carries; what the engine does with it
is `ProgressEngine`.  An event counts as rendered, and as written to the
event log, when `processPlainEvent` has returned for it.

### 5.2 Actions

A goroutine that is idle may start any call (`Call`); a call that has
started takes its steps (`Step`); `RunPlain` is the renderer goroutine.
There is one action for each point at which another goroutine can see or
change what the call depends on:

* `emit` is three steps, `EmitCheckClosed` (the test of `ui.closed` and of
  the mode), `EmitPoll` (the non-blocking look at `closeCh`) and `EmitSend`
  (the select between the send and `closeCh`, enabled when the channel has
  room or `closeCh` is closed); `emitForced` enters at `EmitPoll`.
* A handle method (`NewGroup`, `NewTask`, `GroupEvent`, `GroupClose`,
  `TaskEvent`) tests `ui.closed`, takes an id where it creates something,
  and goes into `emit`.  `ReplayEvent` has no test of its own.
* `Write` tests `ui.closed` and the mode, then takes the mutex:
  `WritePartial` appends to the buffer and returns, `WriteLine` empties the
  buffer into an event and emits it with the mutex held until
  `WriteUnlock`.
* `DrainBufferedLine` takes the mutex, empties the buffer and releases the
  mutex; `PrintLinesDrain`, `SyncDrain` and `CloseDrain` then emit what they
  took, each in later steps.
* `Sync` is `SyncDrain`, `SyncRegister`, `SyncSend`, `SyncWait` and the
  deferred `SyncRemove`.
* `Close` is the compare-and-swap (the loser returns in the same step),
  `CloseDrain`, `CloseCloseCh` and `CloseWait`.
* `runPlain` is `RunPlainReceive`, `RunPlainClosing`, `RunPlainDrain`,
  `RunPlainExit` and `ProcessPlainEvent`, which calls `FulfillSync` for a
  barrier.

When both cases of a select are ready Go chooses either; the model has both
disjuncts enabled.

### 5.3 Runs

| run | bounds | checks | result |
|---|---|---|---|
| `ui_sync` | 2 goroutines, channel of 1, event log, 2 calls with output, 1 `Sync`, `Close` by either | `UITypeOK`, `WaitersAreWaiting`, `CloseDrains`, `RenderedOnce`, `SyncCoversEvents`, `SyncReturns`, `QuietAfterClose`, `CloseReturns` | pass |
| `sync_steal` | as `ui_sync` | `SyncCoversWrites` | violated |

`ui_sync` shows that `Sync` is a barrier for events: whatever a handle, a
`Write` of whole lines or `PrintLines` had emitted and returned from before
`Sync` was called is rendered and in the event log when `Sync` returns on an
open UI, which is what the daemon relies on before it writes the port file;
that every
`Sync` returns, fulfilled or released by `Close`; and that no waiter stays
in the table.

The same run shows that `Close` hands over: what is in the channel when
`closeCh` closes, the flushed partial line included, is rendered before the
renderer stops; after the closing `Close` has returned nothing is written;
and `Close` returns although an emitter is blocked on the full channel,
inside `Write` with the mutex that `CloseDrain` needs.

`sync_steal` shows the window that `drainBufferedLine` leaves.  The
shortest trace: `g1` writes text without a newline and returns; `g1` calls
`PrintLines`, which takes the text out of the buffer and has not yet sent
its event; `g2` calls `Sync`, finds the buffer empty, sends its barrier,
is answered and returns.  The text `Write` accepted before `Sync` was
called is in neither the output nor the event log.  `Write` itself has no
such window, as it emits under the mutex.

### 5.4 Bounds

One slot makes the channel full after one event, so blocked emitters, a
`Write` stalled under its mutex and a barrier waiting for room all occur;
the capacity of 4096 in the code changes when that happens, not whether.
Two calls with output are the least for an event to be ahead of another
and for a partial line to be combined with a later call; with three the
state space no longer fits a run.  Two goroutines are enough for one to
close while the other emits, writes, syncs or closes again.
`MaxTags` and `MaxSyncs` bound the calls of a behaviour, so behaviours end:
deadlock checking is off in these runs, and `SyncReturns` and
`CloseReturns` state what must not stop.

### 5.5 Fairness

`UISpec` asserts weak fairness of `Step(p)` for every goroutine and of
`RunPlain`: the Go scheduler runs every goroutine that is runnable, so a
call that can take its next step takes it, and so does the renderer.
Nothing is assumed of `Call`: nobody has to call anything, and in particular
nobody has to call `Close`.  Weak fairness is enough because the calls of a
behaviour are bounded: a send that loses the free slot to another emitter
can lose it only finitely often, and `closeCh`, once closed, stays closed.
Go queues the senders of a channel first-in first-out; the model does not
rely on it.

## 6. `ProcessGroup`, `Controller` and `Instance`

### 6.1 What is from the source and what is not

`killProcessOrGroup` is under `src/` and is translated from it.  The process
group, the controller and the command server are not: they are written from
`spec.md` (4.2, 4.3) and from the tests that are under `src/`
(`TestListenAndServeHTTP_StopsAfterProcessGroupClose`,
`TestListenAndServeHTTP_FlushesProgressBeforeWritingPortFile`,
`TestControllerLoop_DrainsEventsAfterCancel`,
`TestKillProcessOrGroup_KillsChildWhenLeader`), and every definition of
theirs is marked `spec_modelled`.  What the runs show about them is about
the design as those two describe it.

### 6.2 `ProcessGroup`

| variable | stands for |
|---|---|
| `worker[l]` | the worker with label `l`: `absent`, `refused` (added after `Close`), `running`, `stopping` (told to stop), `exited` |
| `closing` | `Close` has been called |
| `call[c]` | a caller's `Close` or `Wait`: `idle`, under way, returned |
| `tree[s]` | the processes of service `s` that are alive: `main`, whose pid the worker holds, and `child`, which a shell wrapper forks |
| `pid[s]`, `leads[s]` | the pid the worker got from `cmd.Start` (0 if the start failed) and whether the main process leads a group of its own (`Setpgid`) |
| `kill[s]`, `found[s]` | where the worker is in `killProcessOrGroup`, and whether `getpgid` found the process |

`killProcessOrGroup` is three steps.  `KillEnter` is the guard of lines
9-11 (`KillIsNoop`: a pid that is not positive, or signal 0).  `KillLookup`
is `syscall.Getpgid` and the condition of line 21: `KillTarget` is "group"
if the call succeeded and returned the pid itself, else "single".
`KillSignal` is the `kill` of line 22 or 24: `SignalGroup` removes every
process of the group named by the pid, which exists exactly if the main
process was started as a leader, whether or not it is still alive;
`SignalPid` removes the main process.  Between the steps `Fork` and
`ProcessExits` may change the tree.  A signalled process is gone in the same
step: a process that ignores the signal, or stays as a zombie, is not
modelled, so `CloseReturns` says that the signal reaches whom it must, not
that the processes obey it.

`Add` is refused once the group is closing; the first `Close` turns every
running worker to `stopping`; `Returns` lets `Close` and `Wait` return when
no worker is left.  The worker of a service returns when its main process
is gone, after `killProcessOrGroup` if it was told to stop.

### 6.3 `Controller`

`state` is `starting`, `running`, `stopping` or `stopped`.  A handler hands
its command over (`Submit`) and waits; the controller receives it
(`HandleCommand`), and a `stop` is a stop trigger.  Events are sent to
`evtCh`, of capacity `EvtCap` (`Enqueue` blocks while it is full), and
received by `HandleEvent`; each is a stop event, as in the test.  `Cancel`
is the context's `CancelFunc`, `ObserveCancel` the controller seeing
`ctx.Done()`.  `Finish` is the step to `stopped`, the completion signal,
and needs an empty `evtCh`.  `Reject` is a handler giving up on the
completion signal.  `early` and `handled` are history variables: the events
sent before `stopped`, and the events handled, in order.

### 6.4 `Instance`

`Instance` extends both modules, whose variables are disjoint, and adds the
command server: `srv` (`down`, `listening`, `ready`, `draining`, `gone`)
and `portFile`.  The server is the one task worker of the group.  It
listens once its worker runs, writes the port file (`ServerPublishes`,
which stands for `Sync` and the write), shuts down when its worker is told
to stop or the controller has stopped (`ServerShutsDown`: no new
requests), and returns when no request is in flight, removing the port
file (`ServerReturns`).  `Request` is `Submit` while the server accepts
requests.  `WorkersUp` is the controller's step to `running` after boot;
`CloseGroup(ExitCaller)` is the exit path, which closes the group after the
completion signal; any other caller may `Close` or `Wait` at any moment.
Each action of a component is taken with the other components' variables
unchanged.

### 6.5 The run

| run | bounds | checks | result |
|---|---|---|---|
| `instance` | 1 service (main and child), the server, 2 callers, 1 handler, 2 events, `EvtCap` 1 | `TypeOK`, `ClosedMeansReaped`, `NoOrphanAfterGroupKill`, `DrainedBeforeDone`, `PortGoneAfterClose`, `CloseReturns`, `RequestsAnswered`, `StopCompletes` | pass, 136,490 states |

* `ClosedMeansReaped`: once some `Close` has returned no worker runs and no
  main process is alive, also when a worker is added while another caller
  closes.  It fails if `Add` does not look at `closing`.
* `NoOrphanAfterGroupKill`: if `getpgid` found the main process alive and
  leading its group, nothing of the tree is alive when the worker has
  returned, also if the main process exited or forked after `getpgid`.  It
  fails if the pid alone is signalled: the child survives.  For a process
  that does not lead a group the code promises less ("best-effort"), and so
  does the property.
* `CloseReturns`: a `Close` under way returns.  It fails if the group is
  signalled whatever `getpgid` said: a process in somebody else's group is
  never killed and its worker never returns.
* `DrainedBeforeDone`: every event sent before the completion signal has
  been handled exactly once when the signal is given, in every order of the
  send, a stop command and the cancellation.
* `RequestsAnswered`: a request that was handed over is answered or given
  up; none waits on a controller that has stopped.
* `PortGoneAfterClose`: when a `Close` has returned there is no port file,
  wherever the server was when it was told to stop.
* `StopCompletes`: from `stopping`, the exit path's `Close` returns: the
  controller drains and signals, the server gives up what the controller
  no longer receives, every service is killed.
* `TypeOK` includes that `evtCh` never holds more than `EvtCap` events.

### 6.6 Bounds

One service is enough for every step of `killProcessOrGroup` to interleave
with the tree, with `Add` and with two callers; a second service repeats it
independently.  `Add` chooses whether the start succeeded and whether the
process leads a group, so pid 0, a leader and a non-leader all occur.  Two
events on a channel of one slot make the channel full, with an event sent
before and one after the controller stops.  One handler with either command
is enough for a request to be received, to start the stop, or to be left
over; with two handlers the run has 785,762 states and the same results.
Two callers are the exit path and one that closes or waits at any moment.
The behaviours end (the instance exits), so deadlock checking is off and
the three liveness properties state what must not stop.

### 6.7 Fairness

Weak fairness is asserted of the steps of every goroutine of the instance:
the worker of each service (`ServiceStep`), the return of each caller, the
controller (`ControllerStep`), each handler's `Reject`, the server, and the
exit path's `Close`.  The Go scheduler runs what is runnable, and each of
these, once enabled, stays enabled until taken.  Nothing is assumed of the
environment: no process has to exit or fork, nobody has to send a request,
an event or a cancellation, and no other caller ever has to close.

## 7. Findings

| run | where | what |
|---|---|---|
| `stale_race` | `daemon_files.go:188` | a claimant removes by path the record of an owner that claimed after the claimant read the file; two owners |
| `port_sweep` | `daemon_files.go:248` | a claimant removes by path the port file of an owner that published after the claimant loaded the port of its predecessor; a running instance nobody finds |
| `ambiguous_probe` | `daemon_files.go:251` | the port file is removed after an unexpected answer, where `spec.md` says to fail |
| `replay_pending` | `state.go:395` | a pending status event reopens a finished task |
| `sync_steal` | `ui.go:301` | `Sync` returns while a partial line taken by `PrintLines` is not yet emitted |

Five more observations are not checked by a run; the first three are
recorded as hazards.
A claimant whose empty pid file is removed as stale while it is between the
create and the write returns as an owner without a record, and the next
claim is granted beside it.  That takes a stall past the grace period, or a
file whose modification time lies in the future: `age >= 0 &&`
(`daemon_files.go:198`) takes such a file for stale at once, where
`spec.md` has an unparsable record younger than the grace period never
treated as stale.
`Close` returns nil at once when the compare-and-swap on `ui.closed` fails
(`ui.go:148`): a second `Close` that runs while the first is still waiting
for the renderer returns while `runPlain` is still writing, so "after
`Close` the UI has stopped" holds for the call that won only, which is what
`QuietAfterClose` states.  The plain
renderer has printed-once flags for start lines and none for end lines, so a
second `Task.Error`, which `applyTaskState` ignores, prints the `ERR` line
again (`renderEvent`, line 142 of the plain renderer's file); nothing in the
repository says what is intended.  The two start flags are independent: a
task that starts as a generic task and is updated to a download while it
runs gets the generic start line and then the download start line.  And the
comment of `UI.Writer`
(`ui.go:204`) says that in ModeOff the writer still emits line events for
the daemon to persist and replay, while `emit` (`ui.go:342`) and `Write`
return at once in ModeOff: a UI in ModeOff with an event log logs nothing.
The model follows the code; no test uses that combination.

## 8. Not modelled

* The characters of the files (`pid=`, RFC 3339 time stamps, decimal
  ports): a line is its key and whether its value is empty, malformed or a
  value; blank lines and unknown keys are one kind of line.
* Errors of `os.Stat`, `loadPort` and `kill` other than the ones the code
  names (`EIO`, permission problems on the data directory): in the cleanup
  each returns an error at once without changing a file, in the wait each
  goes on to the deadline check.  A port file that holds no positive port
  is not modelled either: the server writes the port it listens on.
* ModeTTY: `startTTY` and the Bubble Tea program are not in `src/`; the TTY
  components that are (`ui_sync_test.go` from line 76) compute lines from
  the engine's state.
* The wording, colours and prefixes of the plain renderer's lines, and the
  JSON of the event log.  A write error of the log is ignored by the code
  and taken as absent by the model: with it, `Sync` returns although the
  log is incomplete, and there is no error path to check.
* A tag that holds a line break or leading or trailing blanks: the claim
  prints it as it is, so the record read back has another tag, or, after a
  line break followed by `pid=`, another pid.  Tags are taken to be plain
  words; where they are validated is not in this snapshot.
* A record whose pid is not positive: no claim writes one.
* In the writer: a `Write` whose bytes end a line and continue with a
  partial one is two calls of the model; a trailing carriage return is
  dropped by the code and has no counterpart.
* The branch of `runPlain` for ModeOff or a nil output (lines 390-393): `New`
  never starts `runPlain` in ModeOff and replaces a nil output.
* In `killProcessOrGroup`: a pid that the host has given to an unrelated
  process by the time it is signalled, errors of `kill` other than "no
  such process", and a process that outlives the signal.  The rest of `kill_unix.go` (lines 26-132) is a test of the
  `ps` command.
* Of the process group: the errors workers return and the first error that
  `Wait` hands on.  `Add`, `Close` and `Wait` are atomic steps, as their
  code is not in this snapshot.
* Of the command server: the wire format (method check, unknown fields,
  trailing data, the body limit), which is a property of one request, and
  the commands other than `display` and `stop`.
* The target resolver and the client commands `ps`, `stop --all` and
  `scale` (`spec.md` 4.4, 4.5): sequential code over a snapshot of the data
  directories, not in this snapshot.  The two halves of `stop` that meet a
  running instance are modelled: its request is `Request` in `Instance`,
  its wait for the pid file to go is the `Wait` actions of `RuntimeFiles`.
* `Instance` and `RuntimeFiles` are not composed: the files of an instance
  are the one bit `portFile` in `Instance`.  Composing them multiplies the
  state of `takeover` by that of `instance`, beyond what a run can hold.
