----------------------------- MODULE Controller -----------------------------
(***************************************************************************)
(* The controller of one playground instance: the one task that owns the   *)
(* instance state and serialises command requests against internal         *)
(* lifecycle events.                                                       *)
(*                                                                         *)
(* The controller loop is not part of the sources at hand; it is specified *)
(* by the design document (section 4.3) and by                             *)
(* TestControllerLoop_DrainsEventsAfterCancel: requests arrive over an     *)
(* unbuffered channel, one per HTTP handler, which then waits for its      *)
(* reply; events arrive over a buffered channel; a stop command, a stop    *)
(* event or the cancellation of the context takes the controller to        *)
(* stopping, and it is stopped, and says so once, when no event is queued. *)
(* A handler that finds the controller stopped gives up with an error      *)
(* reply.  Every event is a stop event, as in the test.                    *)
(***************************************************************************)
EXTENDS Naturals, Sequences, FiniteSets, Functions

CONSTANTS
    Handlers,  \* the tasks that serve one HTTP request each
    EvtCap,    \* capacity of the event channel
    MaxEvents  \* bound on the number of events sent

ASSUME
    /\ IsFiniteSet(Handlers)
    /\ EvtCap \in Nat \ {0}
    /\ MaxEvents \in Nat

VARIABLES
    state,      \* starting, running, stopping or stopped
    cancelled,  \* the controller's context is cancelled
    evtCh,      \* the event channel: the ids of the queued events
    req,        \* per handler: its command and how far the request is
    early,      \* the events sent before the controller stopped
    handled     \* the events the controller handled, in order

ctlVars == <<state, cancelled, evtCh, req, early, handled>>

States    == {"starting", "running", "stopping", "stopped"}
Commands  == {"display", "stop"}
EventIds  == 1..MaxEvents
NoRequest == [cmd |-> "none", st |-> "idle"]
Requests  == {NoRequest} \cup [cmd : Commands, st : {"sent", "ok", "rejected"}]

\* A stop trigger: only a controller that is not yet stopping reacts.
BeginStop(s) == IF s \in {"starting", "running"} THEN "stopping" ELSE s

-----------------------------------------------------------------------------

\* starting -> running, after the workers are up.
Started ==
    /\ state = "starting"
    /\ state' = "running"
    /\ UNCHANGED <<cancelled, evtCh, req, early, handled>>

\* A handler hands its command to the controller and waits for the reply.
Submit(h, cmd) ==
    /\ req[h] = NoRequest
    /\ req' = [req EXCEPT ![h] = [cmd |-> cmd, st |-> "sent"]]
    /\ UNCHANGED <<state, cancelled, evtCh, early, handled>>

\* The controller receives the request of h, acts on it and replies.
HandleCommand(h) ==
    /\ state # "stopped"
    /\ req[h].st = "sent"
    /\ req' = [req EXCEPT ![h].st = "ok"]
    /\ state' = IF req[h].cmd = "stop" THEN BeginStop(state) ELSE state
    /\ UNCHANGED <<cancelled, evtCh, early, handled>>

RejectMissing(h) ==
    /\ FALSE
    /\ UNCHANGED ctlVars

\* The completion signal releases a handler whose request was not received.
Reject(h) ==
    /\ state = "stopped"
    /\ req[h].st = "sent"
    /\ req' = [req EXCEPT ![h].st = "rejected"]
    /\ UNCHANGED <<state, cancelled, evtCh, early, handled>>

\* The events sent so far; they are sent in the order of their ids.
Sent == Range(evtCh) \cup Range(handled) \cup early

EnqueueUnbounded(e) ==
    /\ e \notin Sent /\ \A d \in EventIds : d < e => d \in Sent
    /\ evtCh' = Append(evtCh, e)
    /\ early' = IF state = "stopped" THEN early ELSE early \cup {e}
    /\ UNCHANGED <<state, cancelled, req, handled>>

\* Some task sends an internal event; the send blocks while the channel is
\* full.  An event sent to a stopped controller stays in the channel.
Enqueue(e) ==
    /\ Len(evtCh) < EvtCap
    /\ EnqueueUnbounded(e)

\* The controller receives an event: a stop event is a stop trigger.
HandleEvent ==
    /\ state # "stopped"
    /\ evtCh # <<>>
    /\ evtCh' = Tail(evtCh)
    /\ handled' = Append(handled, Head(evtCh))
    /\ state' = BeginStop(state)
    /\ UNCHANGED <<cancelled, req, early>>

\* context.CancelFunc, from the signal handler or the exit path.
Cancel ==
    /\ ~cancelled
    /\ cancelled' = TRUE
    /\ UNCHANGED <<state, evtCh, req, early, handled>>

\* The controller sees ctx.Done().
ObserveCancel ==
    /\ cancelled
    /\ state \in {"starting", "running"}
    /\ state' = "stopping"
    /\ UNCHANGED <<cancelled, evtCh, req, early, handled>>

FinishWithoutDrain ==
    /\ state = "stopping"
    /\ state' = "stopped"
    /\ UNCHANGED <<cancelled, evtCh, req, early, handled>>

FinishOnlyOnCancel ==
    /\ cancelled /\ evtCh = <<>>
    /\ FinishWithoutDrain

\* stopping -> stopped, once no event is queued; the completion signal.
Finish ==
    /\ evtCh = <<>>
    /\ FinishWithoutDrain

-----------------------------------------------------------------------------

CtlInit ==
    /\ state = "starting"
    /\ cancelled = FALSE
    /\ evtCh = <<>>
    /\ req = [h \in Handlers |-> NoRequest]
    /\ early = {}
    /\ handled = <<>>

ControllerStep ==
    \/ \E h \in Handlers : HandleCommand(h)
    \/ HandleEvent \/ ObserveCancel \/ Finish

CtlNext ==
    \/ Started \/ ControllerStep \/ Cancel
    \/ \E h \in Handlers : Reject(h) \/ \E cmd \in Commands : Submit(h, cmd)
    \/ \E e \in EventIds : Enqueue(e)

\* The controller and the handlers are goroutines of a running program.
CtlFairness ==
    /\ WF_ctlVars(ControllerStep)
    /\ \A h \in Handlers : WF_ctlVars(Reject(h))

CtlSpec == CtlInit /\ [][CtlNext]_ctlVars /\ CtlFairness

-----------------------------------------------------------------------------

CtlTypeOK ==
    /\ state \in States
    /\ cancelled \in BOOLEAN
    /\ evtCh \in Seq(EventIds) /\ Len(evtCh) <= EvtCap
    /\ req \in [Handlers -> Requests]
    /\ early \subseteq EventIds
    /\ handled \in Seq(EventIds)

\* An event sent before the controller stopped is handled exactly once
\* before the completion signal, whichever of a stop command, a stop event
\* and the cancellation came first and however they interleave with the
\* send (TestControllerLoop_DrainsEventsAfterCancel).
DrainedBeforeDone ==
    state = "stopped" =>
        \A e \in early : Cardinality({i \in DOMAIN handled : handled[i] = e}) = 1

\* No handler waits for ever: its request is answered by the controller or,
\* when the controller has stopped, given up.
RequestsAnswered ==
    \A h \in Handlers : req[h].st = "sent" ~> req[h].st \in {"ok", "rejected"}

=============================================================================
