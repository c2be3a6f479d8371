\* One service behind a shell wrapper, the command server, two requests,
\* two events and two callers of Close, from boot to exit.
SPECIFICATION Spec
CONSTANTS
    Services <- OneService
    Tasks <- ServerOnly
    Callers <- TwoCallers
    Handlers <- OneHandler
    StopSignal <- Sigterm
    Server = "server"
    ExitCaller = "exit"
    EvtCap = 1
    MaxEvents = 2
CHECK_DEADLOCK FALSE
INVARIANT TypeOK
INVARIANT ClosedMeansReaped
INVARIANT NoOrphanAfterGroupKill
INVARIANT DrainedBeforeDone
INVARIANT PortGoneAfterClose
PROPERTY CloseReturns
PROPERTY RequestsAnswered
PROPERTY StopCompletes
