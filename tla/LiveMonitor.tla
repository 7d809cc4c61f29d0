----------------------------- MODULE LiveMonitor -----------------------------
(***************************************************************************)
(* The control operations on the LIVE connection and the creator monitor   *)
(* they replace: who may use the connection owner, and when.  Three locks  *)
(* meet here: the operation mutex, the monitor's task slot and the owner's *)
(* mutex.                                                                  *)
(***************************************************************************)
EXTENDS LiveConnection

CONSTANTS
  Operators,  \* clients of the control API, and the shutdown
  Supervisor  \* the monitor, as a caller of the connection owner

ASSUME MonitorAssumption == Callers = Operators \union {Supervisor} /\ Supervisor \notin Operators

VARIABLES
  operation,        \* who holds live_monitor.operation, or Nobody
  request,          \* each operator's operation and how far it is
  monitor,          \* the step of run_monitor
  cancelled,        \* its cancellation token
  status,           \* LiveMonitorStatus: enabled and phase
  shutdownStarted

control == <<operation, request, monitor, cancelled, status, shutdownStarted>>
vars == <<transport, owner, control>>

-----------------------------------------------------------------------------
Nobody == "nobody"
ASSUME NobodyAssumption == Nobody \notin Operators

Operations == {"live.connect", "live.disconnect", "monitor.start", "monitor.stop", "shutdown"}

\* locking: waits for the operation mutex.  joining: stop_live_monitor waits
\* for the task.  calling, called: the connection owner.
Steps == {"idle", "locking", "joining", "calling", "called", "down"}

MonitorTypeOK ==
  /\ ConnectionTypeOK
  /\ operation \in Operators \union {Nobody}
  /\ request \in [Operators -> [op : Operations, step : Steps]]
  /\ monitor \in {"off", "top", "lookup", "calling", "called", "waiting"}
  /\ cancelled \in BOOLEAN /\ shutdownStarted \in BOOLEAN
  /\ status \in [enabled : BOOLEAN,
                 phase : {"stopped", "waiting", "checking", "connecting", "live", "error"}]

Init ==
  /\ TransportInit /\ ConnectionInit
  /\ operation = Nobody
  /\ request = [o \in Operators |-> [op |-> "live.connect", step |-> "idle"]]
  /\ monitor = "off" /\ cancelled = FALSE
  /\ status = [enabled |-> FALSE, phase |-> "stopped"]
  /\ shutdownStarted = FALSE

Op(o) == request[o].op
At(o, step) == request[o].step = step
Goes(o, step) == request' = [request EXCEPT ![o].step = step]

-----------------------------------------------------------------------------
(* The operations.                                                         *)

Begin(o, op) ==
  /\ At(o, "idle")
  /\ op = "shutdown" => ~shutdownStarted
  /\ request' = [request EXCEPT ![o] = [op |-> op, step |-> "locking"]]
  /\ shutdownStarted' = (shutdownStarted \/ op = "shutdown")
  /\ UNCHANGED <<transport, owner, operation, monitor, cancelled, status>>

\* live_monitor_start looks at shutdown_started under the lock.
RefusedByShutdown(o) == Op(o) = "monitor.start" /\ shutdownStarted

LocksOnly(o) ==                                                       \* mutant
  /\ At(o, "locking") /\ operation = Nobody
  /\ operation' = o
  /\ Goes(o, "joining")
  /\ UNCHANGED <<transport, owner, monitor, cancelled, status, shutdownStarted>>
\* The mutex is taken and the supervisor told to stop.
Locks(o) ==
  /\ At(o, "locking") /\ operation = Nobody
  /\ IF RefusedByShutdown(o)
     THEN Goes(o, "idle") /\ UNCHANGED <<operation, cancelled>>
     ELSE /\ operation' = o
          /\ cancelled' = TRUE
          /\ Goes(o, "joining")
  /\ UNCHANGED <<transport, owner, monitor, status, shutdownStarted>>

KeepsForNone(o) == FALSE                                              \* mutant
\* live_disconnect and the monitor's operations keep the mutex while they use
\* the owner; live_connect, live_pick and shutdown give it back first.
KeepsOperation(o) == Op(o) \in {"live.disconnect", "monitor.start", "monitor.stop"}

JoinsQuietly(o) ==                                                    \* mutant
  /\ At(o, "joining") /\ monitor = "off"
  /\ operation' = IF KeepsOperation(o) THEN o ELSE Nobody
  /\ Goes(o, "calling")
  /\ UNCHANGED <<transport, owner, monitor, cancelled, status, shutdownStarted>>
\* stop_live_monitor: the task is joined, and aborted after 3 s, which drops
\* it at the same awaits at which it sees its token.
Joins(o) ==
  /\ At(o, "joining") /\ monitor = "off"
  /\ status' = [enabled |-> FALSE, phase |-> "stopped"]
  /\ operation' = IF KeepsOperation(o) THEN o ELSE Nobody
  /\ Goes(o, "calling")
  /\ UNCHANGED <<transport, owner, monitor, cancelled, shutdownStarted>>

\* The owner's mutex is free.
Calls(o) ==
  /\ At(o, "calling")
  /\ Request(o, IF Op(o) = "live.connect" THEN "connect" ELSE "disconnect")
  /\ Goes(o, "called")
  /\ UNCHANGED <<operation, monitor, cancelled, status, shutdownStarted>>

\* The owner answered, an error included.  monitor.start spawns the supervisor.
Returns(o) ==
  /\ At(o, "called") /\ call[o] = NoCall
  /\ operation' = IF operation = o THEN Nobody ELSE operation
  /\ IF Op(o) = "monitor.start"
     THEN /\ monitor' = "top" /\ cancelled' = FALSE
          /\ status' = [enabled |-> TRUE, phase |-> "waiting"]
     ELSE UNCHANGED <<monitor, cancelled, status>>
  /\ Goes(o, IF Op(o) = "shutdown" THEN "down" ELSE "idle")
  /\ UNCHANGED <<transport, owner, shutdownStarted>>

-----------------------------------------------------------------------------
(* run_monitor.                                                            *)

Active == snapshot.state \in {"connected", "connecting", "reconnecting"}

Shows(phase) == status' = [status EXCEPT !.phase = phase]

\* The token, at the top of the loop and in every select; a connect under way
\* is dropped with its future.
MonitorStops ==
  /\ monitor # "off" /\ cancelled
  /\ monitor' = "off"
  /\ call' = [call EXCEPT ![Supervisor] = NoCall]
  /\ UNCHANGED <<transport, task, stop, active, told, operation, request, cancelled, status,
                 shutdownStarted>>

MonitorChecks ==
  /\ monitor = "top" /\ ~cancelled
  /\ IF Active
     THEN monitor' = "waiting" /\ Shows("live")
     ELSE monitor' = "lookup" /\ Shows("checking")
  /\ UNCHANGED <<transport, owner, operation, request, cancelled, shutdownStarted>>

\* No room, a failed lookup (an error, or 30 s), or a room to connect to.
MonitorLooksUp ==
  /\ monitor = "lookup" /\ ~cancelled
  /\ \/ monitor' = "waiting" /\ Shows(IF Active THEN "live" ELSE "waiting")
     \/ monitor' = "waiting" /\ Shows("error")
     \/ monitor' = "calling" /\ Shows("connecting")
  /\ UNCHANGED <<transport, owner, operation, request, cancelled, shutdownStarted>>

MonitorCalls ==
  /\ monitor = "calling" /\ ~cancelled
  /\ Request(Supervisor, "connect")
  /\ monitor' = "called"
  /\ UNCHANGED <<operation, request, cancelled, status, shutdownStarted>>

MonitorConnected ==
  /\ monitor = "called" /\ ~cancelled /\ call[Supervisor] = NoCall
  /\ monitor' = "waiting"
  /\ \/ Shows(IF Active THEN "live" ELSE "waiting")
     \/ Shows("error")
  /\ UNCHANGED <<transport, owner, operation, request, cancelled, shutdownStarted>>

NeverAgain ==                                                         \* mutant
  /\ monitor = "waiting" /\ ~cancelled /\ status.phase # "live"
  /\ monitor' = "top"
  /\ UNCHANGED <<transport, owner, operation, request, cancelled, status, shutdownStarted>>
\* The delay is over.
MonitorWaits ==
  /\ monitor = "waiting" /\ ~cancelled
  /\ monitor' = "top"
  /\ UNCHANGED <<transport, owner, operation, request, cancelled, status, shutdownStarted>>

MonitorStep ==
  \/ MonitorStops \/ MonitorChecks \/ MonitorLooksUp \/ MonitorCalls \/ MonitorConnected
  \/ MonitorWaits

-----------------------------------------------------------------------------
OperatorStep(o) == Locks(o) \/ Joins(o) \/ Calls(o) \/ Returns(o)

Next ==
  \/ \E o \in Operators : OperatorStep(o) \/ \E op \in Operations : Begin(o, op)
  \/ MonitorStep
  \/ ConnectionStep /\ UNCHANGED control

Spec == Init /\ [][Next]_vars

\* Locks are FIFO; lookups, delays, teardown and network waits have deadlines,
\* and a handshake has a bounded number of attempts.
LiveSpec ==
  /\ Spec
  /\ \A o \in Operators : SF_vars(OperatorStep(o))
  /\ SF_vars(MonitorStep)
  /\ \A c \in Callers : WF_vars(CallerStep(c) /\ UNCHANGED control)
  /\ WF_vars((\E g \in Generations : TaskEnds(g)) /\ UNCHANGED control)

-----------------------------------------------------------------------------
(* Properties.                                                             *)

\* The status tells the truth whenever no operation is under way: enabled
\* exactly while a supervisor runs, although three parties write it.
StatusHonest ==
  operation = Nobody =>
    /\ status.enabled <=> monitor # "off"
    /\ status.enabled <=> status.phase # "stopped"

\* docs/LIVE-EVENTS.md: disconnect, monitor operations and shutdown "retire it
\* before replacing the native session": no supervisor competes for the owner.
\* Shutdown retires it for good: a start that was waiting for the lock
\* meanwhile does not bring one back.
SessionEndsAlone ==
  \A o \in Operators :
    \/ At(o, "called") /\ Op(o) # "live.connect"
    \/ Op(o) = "shutdown" /\ request[o].step \in {"calling", "called", "down"}
      => monitor = "off"

\* "After that connection ends it resumes creator lookup": no lasting state of
\* the snapshot makes the supervisor believe in a connection that is gone.
MonitorResumes ==
  (monitor # "off" /\ \A g \in Generations : task[g] \notin Alive)
    ~> (monitor \in {"off", "lookup"} \/ (\E g \in Generations : task[g] \in Alive) \/ ~CanAdvance)

\* No operation waits for ever on the three locks, the supervisor, a teardown
\* or a handshake.
OperationsReturn ==
  \A o \in Operators :
    At(o, "locking") ~> (request[o].step \in {"idle", "down"} \/ ~CanAdvance)
=============================================================================
