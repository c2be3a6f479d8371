------------------------------ MODULE Instance ------------------------------
(***************************************************************************)
(* One playground instance from boot to exit: the controller, the process  *)
(* group and the command server, which is a worker of the group and the    *)
(* one through which requests reach the controller.                        *)
(*                                                                         *)
(* How the parts are wired is specified by the design document and by the  *)
(* tests of listenAndServeHTTP: the boot task adds the workers; the        *)
(* command server listens, flushes the progress output (ProgressUI's Sync, *)
(* whose contract is checked there), writes the port file and serves; it   *)
(* shuts down when the group tells it to stop or when the controller has   *)
(* signalled completion, waits for the requests in flight and removes the  *)
(* port file; the exit path closes the group once the controller stopped.  *)
(***************************************************************************)
EXTENDS ProcessGroup, Controller

CONSTANTS
    Server,     \* the label of the command server's worker, the one task
    ExitCaller  \* the caller that is the top-level exit path

ASSUME Tasks = {Server} /\ ExitCaller \in Callers

VARIABLES
    srv,       \* the command server: down, listening, ready, draining, gone
    portFile   \* the port file exists

vars == <<pgVars, ctlVars, srv, portFile>>

srvVars == <<srv, portFile>>

-----------------------------------------------------------------------------
(* Boot and exit. *)

BootAdd(l, started, leader) ==
    /\ Add(l, started, leader)
    /\ UNCHANGED <<ctlVars, srvVars>>

WorkersUp ==
    /\ \A l \in Labels : worker[l] # "absent"
    /\ Started
    /\ UNCHANGED <<pgVars, srvVars>>

\* The exit path closes the group after the completion signal; any other
\* caller (a deferred Close, a test) when it likes.
CloseGroup(c) ==
    /\ c = ExitCaller => state = "stopped"
    /\ Close(c)
    /\ UNCHANGED <<ctlVars, srvVars>>

WaitGroup(c) ==
    /\ c # ExitCaller
    /\ Wait(c)
    /\ UNCHANGED <<ctlVars, srvVars>>

-----------------------------------------------------------------------------
(* The command server. *)

ServerListens ==
    /\ worker[Server] = "running" /\ srv = "down"
    /\ srv' = "listening"
    /\ UNCHANGED <<pgVars, ctlVars, portFile>>

\* After Sync has returned the port file is written: the instance is ready.
ServerPublishes ==
    /\ srv = "listening"
    /\ srv' = "ready"
    /\ portFile' = TRUE
    /\ UNCHANGED <<pgVars, ctlVars>>

\* http.Server.Shutdown: no new requests.
ServerShutsDown ==
    /\ srv \in {"down", "listening", "ready"}
    /\ worker[Server] = "stopping"
          \/ (worker[Server] = "running" /\ state = "stopped")
    /\ srv' = "draining"
    /\ UNCHANGED <<pgVars, ctlVars, portFile>>

InFlight == {h \in Handlers : req[h].st = "sent"}

\* The worker of the command server returns.
ServerExits ==
    /\ srv = "draining"
    /\ InFlight = {}
    /\ srv' = "gone"
    /\ TaskReturns(Server)
    /\ UNCHANGED ctlVars

ServerReturnsKeepsPort == ServerExits /\ UNCHANGED portFile

\* Shutdown has waited for the requests in flight; the port file is removed
\* and the worker returns.
ServerReturns == ServerExits /\ portFile' = FALSE

\* POST /command reaches a handler while the server accepts requests.
Request(h, cmd) ==
    /\ srv \in {"listening", "ready"}
    /\ Submit(h, cmd)
    /\ UNCHANGED <<pgVars, srvVars>>

-----------------------------------------------------------------------------

Init ==
    /\ PGInit /\ CtlInit
    /\ srv = "down"
    /\ portFile = FALSE

GroupStep ==
    \/ \E s \in Services : ServiceStep(s) \/ Fork(s) \/ ProcessExits(s)
    \/ \E c \in Callers : Returns(c)

ControlStep ==
    \/ ControllerStep \/ Cancel
    \/ \E h \in Handlers : Reject(h)
    \/ \E e \in EventIds : Enqueue(e)

ServerStep ==
    ServerListens \/ ServerPublishes \/ ServerShutsDown \/ ServerReturns

Next ==
    \/ \E l \in Labels, started, leader \in BOOLEAN : BootAdd(l, started, leader)
    \/ WorkersUp
    \/ \E c \in Callers : CloseGroup(c) \/ WaitGroup(c)
    \/ GroupStep /\ UNCHANGED <<ctlVars, srvVars>>
    \/ ControlStep /\ UNCHANGED <<pgVars, srvVars>>
    \/ ServerStep
    \/ \E h \in Handlers, cmd \in Commands : Request(h, cmd)

\* Every goroutine of the instance keeps running; what the environment does
\* (signals, requests, processes that exit by themselves) may never happen.
Fairness ==
    /\ \A s \in Services : WF_vars(ServiceStep(s) /\ UNCHANGED <<ctlVars, srvVars>>)
    /\ \A c \in Callers  : WF_vars(Returns(c) /\ UNCHANGED <<ctlVars, srvVars>>)
    /\ WF_vars(ControllerStep /\ UNCHANGED <<pgVars, srvVars>>)
    /\ \A h \in Handlers : WF_vars(Reject(h) /\ UNCHANGED <<pgVars, srvVars>>)
    /\ WF_vars(ServerStep)
    /\ WF_vars(CloseGroup(ExitCaller))

Spec == Init /\ [][Next]_vars /\ Fairness

-----------------------------------------------------------------------------

TypeOK ==
    /\ PGTypeOK /\ CtlTypeOK
    /\ srv \in {"down", "listening", "ready", "draining", "gone"}
    /\ portFile \in BOOLEAN

\* After the group is closed no port file is left behind, whenever the
\* server was told to stop: before it listened, between listening and
\* writing the file, or while it served
\* (TestListenAndServeHTTP_StopsAfterProcessGroupClose).
PortGoneAfterClose ==
    (\E c \in Callers : call[c] = "closed") => ~portFile

\* A stop trigger ends the instance: the controller drains and signals
\* completion, the server gives up the requests the controller no longer
\* receives and returns, every service is killed, and the exit path's Close
\* returns.
StopCompletes ==
    state = "stopping" ~> call[ExitCaller] = "closed"

=============================================================================
