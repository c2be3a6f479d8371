----------------------------- MODULE ProgressUI -----------------------------
(***************************************************************************)
(* The progress UI of pkg/tuiv2/progress: goroutines that emit events      *)
(* through group and task handles, the writer, PrintLines, Sync and Close, *)
(* the buffered channel between them and the renderer goroutine, and       *)
(* runPlain, which renders in channel order and drains the channel when    *)
(* the UI closes.                                                          *)
(*                                                                         *)
(* An event is what the properties tell apart: its kind (an event of a     *)
(* handle, a block of lines, a Sync barrier), the sync id, and the tags of *)
(* the calls whose output it carries.  A tag names one call of a handle,   *)
(* of Write or of PrintLines.  What the renderer does with an event is the *)
(* subject of ProgressEngine; here an event is rendered when               *)
(* processPlainEvent has returned for it, which is also when it is in the  *)
(* event log.                                                              *)
(***************************************************************************)
EXTENDS Naturals, Sequences, FiniteSets, Functions

CONSTANTS
    Procs,      \* the goroutines that use the UI
    Cap,        \* capacity of eventsCh (defaultEventBuffer is 4096)
    MaxTags,    \* calls that produce output, over the whole behaviour
    MaxSyncs,   \* calls of Sync, over the whole behaviour
    HasEventLog, \* whether Options.EventLog is given
    None

ASSUME /\ IsFiniteSet(Procs) /\ None \notin Procs
       /\ Cap \in Nat \ {0} /\ MaxTags \in Nat /\ MaxSyncs \in Nat
       /\ HasEventLog \in BOOLEAN

VARIABLES
    mode,         \* the mode New resolved: "plain" or "off"
    closed,       \* ui.closed
    closeCh,      \* TRUE when closeCh is closed
    done,         \* TRUE when plainDoneCh and doneCh are closed
    nextID,       \* ui.nextID
    syncWaiters,  \* the keys of ui.syncWaiters
    fulfilled,    \* the sync ids whose waitCh is closed
    eventsCh,     \* the channel, oldest event first
    buf,          \* the writer's partial line: the tags of its pieces
    wmu,          \* the goroutine that holds the writer's mutex, or None
    pc,           \* where each goroutine is in its call
    op,           \* the call each goroutine is in
    ev,           \* the event a goroutine is emitting
    after,        \* where a goroutine goes on when emit returns
    sid,          \* the id of the Sync a goroutine is in
    rpc,          \* where runPlain is
    cur,          \* the event runPlain has received and not yet processed
    rendered,     \* the events processPlainEvent has rendered, in order
    eventLog,     \* the lines of the event log, or None without a sink
    tags,         \* tags handed out so far
    emitted,      \* tags of the calls that emitted and have returned
    buffered,     \* tags of the partial writes that have returned
    snap,         \* emitted and buffered as they were when Sync was called
    syncs,        \* calls of Sync so far
    atClose,      \* the events in the channel when closeCh was closed
    closeReturned \* which calls of Close have returned: "first", "late"

shared   == <<mode, closed, closeCh, done, nextID, syncWaiters, fulfilled,
              eventsCh, buf, wmu>>
locals   == <<pc, op, ev, after, sid>>
renderer == <<rpc, cur, rendered, eventLog>>
history  == <<tags, emitted, buffered, snap, syncs, atClose, closeReturned>>
uiVars   == <<shared, locals, renderer, history>>

Tags == 1..MaxTags

Event(kind, ts, id) == [kind |-> kind, tags |-> ts, id |-> id]
EventType == [kind : {"event", "lines", "sync"}, tags : SUBSET Tags,
              id : 0..(MaxTags + MaxSyncs)]

\* The Control capability of the output decides between TTY and plain; a
\* writer that is not a file never gets TTY.
ResolveMode(requested, control) ==
    CASE requested = "off"   -> "off"
      [] requested = "plain" -> "plain"
      [] OTHER               -> IF control THEN "tty" ELSE "plain"

\* New with an Out that is not an *os.File, as the daemon and the tests use.
NewMode(requested, control) ==
    IF ResolveMode(requested, control) = "tty" THEN "plain"
    ELSE ResolveMode(requested, control)

-----------------------------------------------------------------------------
(* Steps shared by the calls. *)

Goto(p, from, to) == pc[p] = from /\ pc' = [pc EXCEPT ![p] = to]

\* A call that takes a tag starts: the tag is the next unused one.
Begin(p, name, to) ==
    /\ pc[p] = "idle"
    /\ pc' = [pc EXCEPT ![p] = to]
    /\ op' = [op EXCEPT ![p] = name]

NewTag == tags + 1

StartEmit(p, e, next, at) ==
    /\ ev' = [ev EXCEPT ![p] = e]
    /\ after' = [after EXCEPT ![p] = next]
    /\ pc' = [pc EXCEPT ![p] = at]

\* emit: a closed UI and ModeOff take nothing.
EmitCheckClosed(p) ==
    /\ pc[p] = "e_closed"
    /\ pc' = [pc EXCEPT ![p] = IF closed \/ mode = "off" THEN after[p] ELSE "e_poll"]
    /\ UNCHANGED <<shared, op, ev, after, sid, renderer, history>>

\* emit and emitForced: the non-blocking look at closeCh.
EmitPoll(p) ==
    /\ pc[p] = "e_poll"
    /\ pc' = [pc EXCEPT ![p] = IF closeCh THEN after[p] ELSE "e_send"]
    /\ UNCHANGED <<shared, op, ev, after, sid, renderer, history>>

\* Mutated form: the send does not wait for room in the channel.
EmitSendOverflows(p) ==
    /\ pc[p] = "e_send"
    /\ eventsCh' = Append(eventsCh, ev[p])
    /\ pc' = [pc EXCEPT ![p] = after[p]]
    /\ UNCHANGED <<mode, closed, closeCh, done, nextID, syncWaiters, fulfilled,
                   buf, wmu, op, ev, after, sid, renderer, history>>

\* emit and emitForced: the select between the send and closeCh.
EmitSend(p) ==
    /\ pc[p] = "e_send"
    /\ \/ /\ Len(eventsCh) < Cap
          /\ eventsCh' = Append(eventsCh, ev[p])
       \/ /\ closeCh
          /\ UNCHANGED eventsCh
    /\ pc' = [pc EXCEPT ![p] = after[p]]
    /\ UNCHANGED <<mode, closed, closeCh, done, nextID, syncWaiters, fulfilled,
                   buf, wmu, op, ev, after, sid, renderer, history>>

\* The call is over; what it wrote counts as written from here on.
Return(p) ==
    /\ pc[p] = "ret"
    /\ pc' = [pc EXCEPT ![p] = "idle"]
    /\ op' = [op EXCEPT ![p] = "none"]
    /\ ev' = [ev EXCEPT ![p] = None]
    /\ emitted' = IF ev[p] # None /\ op[p] \in {"handle", "write", "print"}
                  THEN emitted \cup ev[p].tags ELSE emitted
    /\ UNCHANGED <<shared, after, sid, renderer, tags, buffered, snap, syncs, atClose, closeReturned>>

-----------------------------------------------------------------------------
(* Group and task handles. *)

\* A handle method: the test of ui.closed, the id where one is taken, emit.
HandleCall(p, ids) ==
    /\ ~closed /\ tags < MaxTags
    /\ Begin(p, "handle", "e_closed")
    /\ tags' = NewTag
    /\ nextID' = nextID + ids
    /\ ev' = [ev EXCEPT ![p] = Event("event", {NewTag}, 0)]
    /\ after' = [after EXCEPT ![p] = "ret"]
    /\ UNCHANGED <<mode, closed, closeCh, done, syncWaiters, fulfilled, eventsCh,
                   buf, wmu, sid, renderer, emitted, buffered, snap, syncs, atClose, closeReturned>>

NewGroup(p)   == HandleCall(p, 1)
NewTask(p)    == HandleCall(p, 1)
GroupEvent(p) == HandleCall(p, 0)
GroupClose(p) == HandleCall(p, 0)
TaskEvent(p)  == HandleCall(p, 0)

\* ReplayEvent hands a decoded event to emit without a test of its own.
ReplayEvent(p) ==
    /\ tags < MaxTags
    /\ Begin(p, "handle", "e_closed")
    /\ tags' = NewTag
    /\ ev' = [ev EXCEPT ![p] = Event("event", {NewTag}, 0)]
    /\ after' = [after EXCEPT ![p] = "ret"]
    /\ UNCHANGED <<shared, sid, renderer, emitted, buffered, snap, syncs, atClose, closeReturned>>

-----------------------------------------------------------------------------
(* The writer. *)

\* Write tests ui.closed and the mode before it takes the mutex.
Write(p) ==
    /\ ~closed /\ mode # "off" /\ tags < MaxTags
    /\ Begin(p, "write", "w_lock")
    /\ tags' = NewTag
    /\ ev' = [ev EXCEPT ![p] = Event("lines", {NewTag}, 0)]
    /\ UNCHANGED <<shared, after, sid, renderer, emitted, buffered, snap, syncs, atClose, closeReturned>>

\* Bytes without a newline stay in the buffer and Write returns.
WritePartial(p) ==
    /\ pc[p] = "w_lock" /\ wmu = None
    /\ buf' = buf \cup ev[p].tags
    /\ buffered' = buffered \cup ev[p].tags
    /\ pc' = [pc EXCEPT ![p] = "idle"]
    /\ op' = [op EXCEPT ![p] = "none"]
    /\ ev' = [ev EXCEPT ![p] = None]
    /\ UNCHANGED <<mode, closed, closeCh, done, nextID, syncWaiters, fulfilled,
                   eventsCh, wmu, after, sid, renderer, tags, emitted, snap, syncs, atClose, closeReturned>>

\* Bytes that end a line: the buffer and the bytes are one block of lines,
\* emitted with the mutex held.
WriteLine(p) ==
    /\ pc[p] = "w_lock" /\ wmu = None
    /\ wmu' = p
    /\ buf' = {}
    /\ StartEmit(p, Event("lines", buf \cup ev[p].tags, 0), "w_unlock", "e_closed")
    /\ UNCHANGED <<mode, closed, closeCh, done, nextID, syncWaiters, fulfilled,
                   eventsCh, op, sid, renderer, history>>

WriteUnlock(p) ==
    /\ Goto(p, "w_unlock", "ret")
    /\ wmu' = None
    /\ UNCHANGED <<mode, closed, closeCh, done, nextID, syncWaiters, fulfilled,
                   eventsCh, buf, op, ev, after, sid, renderer, history>>

\* Mutated form: the buffer is read and not reset.
DrainBufferedLineKeeps(p, from, own, next, at) ==
    /\ pc[p] = from /\ wmu = None
    /\ IF buf \cup own = {}
       THEN pc' = [pc EXCEPT ![p] = next] /\ UNCHANGED <<ev, after>>
       ELSE StartEmit(p, Event("lines", buf \cup own, 0), next, at)
    /\ UNCHANGED <<shared, op, sid, renderer, history>>

\* drainBufferedLine and what its three callers do with the line: with
\* nothing to print they go on, otherwise they emit one block of lines.
DrainBufferedLine(p, from, own, next, at) ==
    /\ pc[p] = from /\ wmu = None
    /\ buf' = {}
    /\ IF buf \cup own = {}
       THEN pc' = [pc EXCEPT ![p] = next] /\ UNCHANGED <<ev, after>>
       ELSE StartEmit(p, Event("lines", buf \cup own, 0), next, at)
    /\ UNCHANGED <<mode, closed, closeCh, done, nextID, syncWaiters, fulfilled,
                   eventsCh, wmu, op, sid, renderer, history>>

PrintLines(p) ==
    /\ ~closed /\ tags < MaxTags
    /\ Begin(p, "print", "p_drain")
    /\ tags' = NewTag
    /\ ev' = [ev EXCEPT ![p] = Event("lines", {NewTag}, 0)]
    /\ UNCHANGED <<shared, after, sid, renderer, emitted, buffered, snap, syncs, atClose, closeReturned>>

PrintLinesDrain(p) ==
    DrainBufferedLine(p, "p_drain", ev[p].tags, "ret", "e_closed")

-----------------------------------------------------------------------------
(* Sync. *)

Sync(p) ==
    /\ ~closed /\ mode # "off" /\ syncs < MaxSyncs
    /\ Begin(p, "sync", "s_drain")
    /\ syncs' = syncs + 1
    /\ snap' = [snap EXCEPT ![p] = [emitted |-> emitted, buffered |-> buffered]]
    /\ UNCHANGED <<shared, ev, after, sid, renderer, tags, emitted, buffered,
                   atClose, closeReturned>>

SyncDrain(p) == DrainBufferedLine(p, "s_drain", {}, "s_register", "e_closed")

SyncRegister(p) ==
    /\ Goto(p, "s_register", "s_send")
    /\ nextID' = nextID + 1
    /\ syncWaiters' = syncWaiters \cup {nextID + 1}
    /\ sid' = [sid EXCEPT ![p] = nextID + 1]
    /\ ev' = [ev EXCEPT ![p] = Event("sync", {}, nextID + 1)]
    /\ UNCHANGED <<mode, closed, closeCh, done, fulfilled, eventsCh, buf, wmu,
                   op, after, renderer, history>>

\* The barrier is sent with a select of its own: no look at ui.closed.
SyncSend(p) ==
    /\ pc[p] = "s_send"
    /\ \/ /\ Len(eventsCh) < Cap
          /\ eventsCh' = Append(eventsCh, ev[p])
          /\ pc' = [pc EXCEPT ![p] = "s_wait"]
       \/ /\ closeCh
          /\ pc' = [pc EXCEPT ![p] = "s_remove"]
          /\ UNCHANGED eventsCh
    /\ UNCHANGED <<mode, closed, closeCh, done, nextID, syncWaiters, fulfilled,
                   buf, wmu, op, ev, after, sid, renderer, history>>

\* Mutated form: Sync does not wait for its barrier.
SyncWaitNot(p) ==
    /\ Goto(p, "s_wait", "s_remove")
    /\ UNCHANGED <<shared, op, ev, after, sid, renderer, history>>

SyncWait(p) ==
    /\ Goto(p, "s_wait", "s_remove")
    /\ sid[p] \in fulfilled \/ done \/ closeCh
    /\ UNCHANGED <<shared, op, ev, after, sid, renderer, history>>

\* Mutated form: Sync returns and leaves its waiter in the table.
SyncRemoveKeeps(p) ==
    /\ Goto(p, "s_remove", "ret")
    /\ UNCHANGED <<shared, op, ev, after, sid, renderer, history>>

\* The deferred removeSyncWaiter.
SyncRemove(p) ==
    /\ Goto(p, "s_remove", "ret")
    /\ syncWaiters' = syncWaiters \ {sid[p]}
    /\ UNCHANGED <<mode, closed, closeCh, done, nextID, fulfilled, eventsCh,
                   buf, wmu, op, ev, after, sid, renderer, history>>

-----------------------------------------------------------------------------
(* Close. *)

\* The compare-and-swap on ui.closed: the first caller closes the UI, any
\* other returns at once.
Close(p) ==
    \/ /\ ~closed
       /\ Begin(p, "close", "c_drain")
       /\ closed' = TRUE
       /\ UNCHANGED <<mode, closeCh, done, nextID, syncWaiters, fulfilled,
                      eventsCh, buf, wmu, ev, after, sid, renderer, history>>
    \/ /\ closed /\ pc[p] = "idle"
       /\ closeReturned' = closeReturned \cup {"late"}
       /\ UNCHANGED <<shared, locals, renderer, tags, emitted, buffered, snap,
                      syncs, atClose>>

\* emitForced: no test of ui.closed; ModeOff takes nothing, otherwise the
\* same two selects as emit.
EmitForced(next) == IF mode = "off" THEN next ELSE "e_poll"

\* The partial line goes out by emitForced.
CloseDrain(p) ==
    DrainBufferedLine(p, "c_drain", {}, "c_closech", EmitForced("c_closech"))

CloseCloseCh(p) ==
    /\ Goto(p, "c_closech", "c_wait")
    /\ closeCh' = TRUE
    /\ atClose' = Range(eventsCh) \cup (IF cur = None THEN {} ELSE {cur})
    /\ UNCHANGED <<mode, closed, done, nextID, syncWaiters, fulfilled, eventsCh,
                   buf, wmu, op, ev, after, sid, renderer, tags, emitted,
                   buffered, snap, syncs, closeReturned>>

\* Mutated form: Close does not wait for the renderer.
CloseWaitNot(p) ==
    /\ Goto(p, "c_wait", "idle")
    /\ op' = [op EXCEPT ![p] = "none"]
    /\ closeReturned' = closeReturned \cup {"first"}
    /\ UNCHANGED <<shared, ev, after, sid, renderer, tags, emitted, buffered,
                   snap, syncs, atClose>>

\* Close waits for plainDoneCh and doneCh.
CloseWait(p) ==
    /\ Goto(p, "c_wait", "idle")
    /\ done
    /\ op' = [op EXCEPT ![p] = "none"]
    /\ closeReturned' = closeReturned \cup {"first"}
    /\ UNCHANGED <<shared, ev, after, sid, renderer, tags, emitted, buffered,
                   snap, syncs, atClose>>

-----------------------------------------------------------------------------
(* runPlain. *)

Receive(from, to) ==
    /\ rpc = from /\ eventsCh # <<>>
    /\ cur' = Head(eventsCh)
    /\ eventsCh' = Tail(eventsCh)
    /\ rpc' = to
    /\ UNCHANGED <<mode, closed, closeCh, done, nextID, syncWaiters, fulfilled,
                   buf, wmu, locals, rendered, eventLog, history>>

\* The select of the loop with an event ready.
RunPlainReceive == Receive("select", "process")

\* The select of the loop with closeCh closed.
RunPlainClosing ==
    /\ rpc = "select" /\ closeCh
    /\ rpc' = "drain"
    /\ UNCHANGED <<shared, locals, cur, rendered, eventLog, history>>

\* The inner loop takes what is left in the channel.
RunPlainDrain == Receive("drain", "drain_process")

\* Mutated form: runPlain returns when closeCh is closed, whatever is left.
RunPlainExitUndrained ==
    /\ rpc = "drain"
    /\ rpc' = "exited"
    /\ done' = TRUE
    /\ UNCHANGED <<mode, closed, closeCh, nextID, syncWaiters, fulfilled,
                   eventsCh, buf, wmu, locals, cur, rendered, eventLog, history>>

\* Mutated form: runPlain returns and leaves its channels open.
RunPlainExitSilent ==
    /\ rpc = "drain" /\ eventsCh = <<>>
    /\ rpc' = "exited"
    /\ UNCHANGED <<shared, locals, cur, rendered, eventLog, history>>

\* With the channel empty the loop returns and the deferred function closes
\* plainDoneCh and doneCh.
RunPlainExit ==
    /\ rpc = "drain" /\ eventsCh = <<>>
    /\ rpc' = "exited"
    /\ done' = TRUE
    /\ UNCHANGED <<mode, closed, closeCh, nextID, syncWaiters, fulfilled,
                   eventsCh, buf, wmu, locals, cur, rendered, eventLog, history>>

\* Mutated form: the waiter is deleted and its channel is left open.
FulfillSyncForgets(id) ==
    /\ fulfilled' = fulfilled
    /\ syncWaiters' = syncWaiters \ {id}

\* fulfillSync closes the channel of a waiter that is still registered.
FulfillSync(id) ==
    /\ fulfilled' = IF id \in syncWaiters THEN fulfilled \cup {id} ELSE fulfilled
    /\ syncWaiters' = syncWaiters \ {id}

\* newEventLogSink: without a writer there is no sink.
NewEventLogSink(hasWriter) == IF hasWriter THEN <<>> ELSE None

\* eventLogSink.write: a nil sink takes nothing; otherwise the event goes out
\* as one line.  The error of the encoder is dropped and taken as absent.
EventLogWrite(sink, e) == IF sink = None THEN sink ELSE Append(sink, e)

\* processPlainEvent: the event log, then the barrier or the engine and the
\* renderer.
ProcessPlainEvent ==
    /\ rpc \in {"process", "drain_process"}
    /\ rpc' = IF rpc = "process" THEN "select" ELSE "drain"
    /\ cur' = None
    /\ IF cur.kind = "sync"
       THEN FulfillSync(cur.id) /\ UNCHANGED <<rendered, eventLog>>
       ELSE /\ eventLog' = EventLogWrite(eventLog, cur)
            /\ rendered' = Append(rendered, cur)
            /\ UNCHANGED <<syncWaiters, fulfilled>>
    /\ UNCHANGED <<mode, closed, closeCh, done, nextID, eventsCh, buf, wmu,
                   locals, history>>

-----------------------------------------------------------------------------
(* The specification. *)

UIInit ==
    /\ mode \in {NewMode(r, c) : r \in {"auto", "tty", "plain", "off"}, c \in BOOLEAN}
    /\ closed = FALSE /\ closeCh = FALSE
    /\ done = (mode = "off")
    /\ nextID = 0 /\ syncWaiters = {} /\ fulfilled = {}
    /\ eventsCh = <<>> /\ buf = {} /\ wmu = None
    /\ pc = [p \in Procs |-> "idle"]
    /\ op = [p \in Procs |-> "none"]
    /\ ev = [p \in Procs |-> None]
    /\ after = [p \in Procs |-> "ret"]
    /\ sid = [p \in Procs |-> None]
    /\ rpc = IF mode = "off" THEN "exited" ELSE "select"
    /\ cur = None /\ rendered = <<>>
    /\ eventLog = NewEventLogSink(HasEventLog)
    /\ tags = 0 /\ emitted = {} /\ buffered = {}
    /\ snap = [p \in Procs |-> None]
    /\ syncs = 0 /\ atClose = None /\ closeReturned = {}

Call(p) ==
    \/ NewGroup(p) \/ NewTask(p) \/ GroupEvent(p) \/ GroupClose(p)
    \/ TaskEvent(p) \/ ReplayEvent(p)
    \/ Write(p) \/ PrintLines(p) \/ Sync(p) \/ Close(p)

Step(p) ==
    \/ EmitCheckClosed(p) \/ EmitPoll(p) \/ EmitSend(p) \/ Return(p)
    \/ WritePartial(p) \/ WriteLine(p) \/ WriteUnlock(p)
    \/ PrintLinesDrain(p)
    \/ SyncDrain(p) \/ SyncRegister(p) \/ SyncSend(p) \/ SyncWait(p) \/ SyncRemove(p)
    \/ CloseDrain(p) \/ CloseCloseCh(p) \/ CloseWait(p)

RunPlain ==
    \/ RunPlainReceive \/ RunPlainClosing \/ RunPlainDrain \/ RunPlainExit
    \/ ProcessPlainEvent

UINext == (\E p \in Procs : Call(p) \/ Step(p)) \/ RunPlain

\* The Go scheduler runs every goroutine that can run: a call that has
\* started goes on, and so does the renderer.  Nobody has to call anything.
UIFairness ==
    /\ \A p \in Procs : WF_uiVars(Step(p))
    /\ WF_uiVars(RunPlain)

UISpec == UIInit /\ [][UINext]_uiVars /\ UIFairness

-----------------------------------------------------------------------------
(* Properties. *)

RenderedTags == UNION {e.tags : e \in Range(rendered)}

\* What a reader of the event log finds; without a sink, nothing is missing.
PersistedTags == IF eventLog = None THEN Tags
                 ELSE UNION {e.tags : e \in Range(eventLog)}

UITypeOK ==
    /\ mode \in {"plain", "off"}
    /\ closed \in BOOLEAN /\ closeCh \in BOOLEAN /\ done \in BOOLEAN
    /\ nextID \in 0..(MaxTags + MaxSyncs)
    /\ syncWaiters \subseteq 1..nextID /\ fulfilled \subseteq 1..nextID
    /\ eventsCh \in Seq(EventType) /\ Len(eventsCh) <= Cap
    /\ buf \subseteq Tags /\ wmu \in Procs \cup {None}
    /\ ev \in [Procs -> EventType \cup {None}]
    /\ rpc \in {"select", "process", "drain", "drain_process", "exited"}
    /\ cur \in EventType \cup {None}
    /\ rendered \in Seq(EventType)
    /\ eventLog \in Seq(EventType) \cup {None}
    /\ tags \in 0..MaxTags /\ syncs \in 0..MaxSyncs
    \* a goroutine in emit has an event, the renderer at work has one
    /\ \A p \in Procs : pc[p] \in {"e_closed", "e_poll", "e_send"} => ev[p] # None
    /\ rpc \in {"process", "drain_process"} <=> cur # None

Returns(p, name) == op[p] = name /\ pc[p] = "ret" /\ pc'[p] = "idle"

\* What Sync promises: when it returns on an open UI, every event emitted
\* by a call that had returned before Sync was called has been rendered and
\* is in the event log, so that the daemon may publish its port (the barrier
\* travels the channel behind them and fulfillSync runs after
\* processPlainEvent is through with each).
SyncCoversEvents ==
    [][\A p \in Procs :
          Returns(p, "sync") /\ ~closed
             => snap[p].emitted \subseteq RenderedTags \cap PersistedTags
      ]_uiVars

\* Close hands over everything: when the renderer has stopped, every event
\* that was in the channel when closeCh was closed has been rendered, the
\* flushed partial line among them (the drain loop of runPlain).
CloseDrains ==
    done /\ atClose # None /\ mode = "plain"
        => \A e \in atClose : e.kind # "sync" => e \in Range(rendered)

\* Once the Close that closed the UI has returned, the renderer writes
\* nothing more (Close waits for plainDoneCh and doneCh).
QuietAfterClose ==
    [][("first" \in closeReturned) => rendered' = rendered]_uiVars

\* No text is printed twice: a piece of a partial line leaves the buffer
\* with the call that drains it and reaches the channel in one event only.
RenderedOnce ==
    \A i, j \in DOMAIN rendered :
        i # j => rendered[i].tags \cap rendered[j].tags = {}

\* The table of waiters holds only Syncs that are under way, so it is empty
\* when none is (the deferred removeSyncWaiter on every path out of Sync).
WaitersAreWaiting ==
    syncWaiters \subseteq {sid[p] : p \in {q \in Procs : op[q] = "sync"}}

\* Every Sync returns: the barrier is answered, or the UI closes under it.
SyncReturns ==
    \A p \in Procs : op[p] = "sync" ~> op[p] = "none"

\* Every Close returns: the renderer drains the channel and stops, also
\* when the channel is full and goroutines are blocked in emit.
CloseReturns ==
    \A p \in Procs : op[p] = "close" ~> op[p] = "none"

\* What a caller of Sync may expect of the writer: text that Write had
\* accepted before Sync was called is processed when Sync returns on an
\* open UI ("Flush any pending partial line before syncing").
SyncCoversWrites ==
    [][\A p \in Procs :
          Returns(p, "sync") /\ ~closed => snap[p].buffered \subseteq RenderedTags
      ]_uiVars

=============================================================================
