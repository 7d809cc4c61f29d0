---------------------------- MODULE MonitorProofs ----------------------------
(***************************************************************************)
(* Proofs about LiveMonitor for any number of clients, generations and     *)
(* faults.  What the connection below does is left open: the three locks   *)
(* alone keep the supervisor away from the operations that replace it.     *)
(***************************************************************************)
EXTENDS LiveMonitor, TLAPS

-----------------------------------------------------------------------------
(* The inductive invariant.                                                *)

Phases == {"stopped", "waiting", "checking", "connecting", "live", "error"}

ControlShape ==
  /\ operation \in Operators \union {Nobody}
  /\ request \in [Operators -> [op : Operations, step : Steps]]
  /\ cancelled \in BOOLEAN /\ shutdownStarted \in BOOLEAN
  /\ status \in [enabled : BOOLEAN, phase : Phases]

InMutex(o) == At(o, "joining") \/ (KeepsOperation(o) /\ request[o].step \in {"calling", "called"})

\* The mutex has the one holder that is past its lock and did not give it back.
MutexHeld == \A o \in Operators : InMutex(o) <=> operation = o

\* Who has cancelled the supervisor still waits for it.
TokenInv ==
  /\ \A o \in Operators : At(o, "joining") => cancelled
  /\ (monitor # "off" /\ cancelled) => \E o \in Operators : At(o, "joining")

StatusInv ==
  /\ status.enabled <=> status.phase # "stopped"
  /\ monitor # "off" => status.enabled
  /\ (monitor = "off" /\ status.enabled) => \E o \in Operators : At(o, "joining")

\* From its join to its answer, who keeps the mutex has no supervisor beside it.
JoinedInv ==
  \A o \in Operators :
    KeepsOperation(o) /\ request[o].step \in {"calling", "called"} => monitor = "off"

\* A shutdown that has passed the mutex leaves no start behind it.
Passed(o) == Op(o) = "shutdown" /\ request[o].step \in {"joining", "calling", "called", "down"}
Starting(o) == Op(o) = "monitor.start" /\ InMutex(o)

ShutdownInv ==
  /\ \A o \in Operators : Op(o) = "shutdown" /\ ~At(o, "idle") => shutdownStarted
  /\ \A o, p \in Operators : Passed(o) => ~Starting(p)
  /\ \A o \in Operators : Passed(o) /\ ~At(o, "joining") => monitor = "off"

MonitorInv ==
  /\ ControlShape /\ MutexHeld /\ TokenInv /\ StatusInv /\ JoinedInv /\ ShutdownInv

-----------------------------------------------------------------------------
\* The locks are free and there is no supervisor.
LEMMA InitMonitorInv == Init => MonitorInv
<1> SUFFICES ASSUME Init PROVE MonitorInv
  OBVIOUS
<1>1. /\ operation = Nobody /\ monitor = "off" /\ cancelled = FALSE /\ shutdownStarted = FALSE
      /\ status = [enabled |-> FALSE, phase |-> "stopped"]
      /\ request = [o \in Operators |-> [op |-> "live.connect", step |-> "idle"]]
  BY DEF Init
<1>2. ControlShape
  BY <1>1 DEF ControlShape, Phases, Steps, Operations
<1>3. \A o \in Operators : Op(o) = "live.connect" /\ request[o].step = "idle"
  BY <1>1 DEF Op
<1>4. MutexHeld /\ TokenInv /\ StatusInv
  BY <1>1, <1>3, NobodyAssumption DEF MutexHeld, InMutex, TokenInv, StatusInv, At
<1>5. JoinedInv /\ ShutdownInv
  BY <1>1, <1>3 DEF JoinedInv, ShutdownInv, Passed
<1> QED BY <1>2, <1>4, <1>5 DEF MonitorInv

\* What an operation that moves does to the steps of all.
LEMMA StepsMove ==
  ASSUME ControlShape, NEW o \in Operators, NEW step \in Steps, Goes(o, step)
  PROVE  /\ request' \in [Operators -> [op : Operations, step : Steps]]
         /\ request'[o].op = request[o].op /\ request'[o].step = step
         /\ \A p \in Operators \ {o} : request'[p] = request[p]
BY DEF ControlShape, Goes

\* A new operation waits for the mutex; only one shutdown is admitted.
LEMMA BeginKept ==
  ASSUME MonitorInv, NEW o \in Operators, NEW op \in Operations, Begin(o, op)
  PROVE  MonitorInv'
<1>1. /\ request[o].step = "idle"
      /\ request' = [request EXCEPT ![o] = [op |-> op, step |-> "locking"]]
      /\ shutdownStarted' = (shutdownStarted \/ op = "shutdown")
      /\ UNCHANGED <<operation, monitor, cancelled, status>>
  BY DEF Begin, At
<1>2. /\ request' \in [Operators -> [op : Operations, step : Steps]]
      /\ request'[o].op = op /\ request'[o].step = "locking"
      /\ \A p \in Operators \ {o} : request'[p] = request[p]
  BY <1>1 DEF MonitorInv, ControlShape, Steps
<1>3. shutdownStarted' \in BOOLEAN /\ (shutdownStarted => shutdownStarted')
  BY <1>1 DEF MonitorInv, ControlShape
<1>4. \A p \in Operators : \A step \in {"joining", "calling", "called", "down"} :
        request'[p].step = step <=> (request[p].step = step /\ request'[p] = request[p])
  BY <1>1, <1>2
<1>5. ControlShape'
  BY <1>1, <1>2, <1>3 DEF MonitorInv, ControlShape
<1>6. MutexHeld' /\ TokenInv' /\ StatusInv' /\ JoinedInv'
  BY <1>1, <1>4 DEF MonitorInv, MutexHeld, TokenInv, StatusInv, JoinedInv, InMutex, KeepsOperation, Op, At
<1>7. ShutdownInv'
  <2>1. \A p \in Operators : (Passed(p)' => Passed(p)) /\ (Starting(p)' => Starting(p))
    BY <1>1, <1>2 DEF Passed, Starting, InMutex, KeepsOperation, Op, At
  <2>2. \A p \in Operators : Passed(p)' => request'[p] = request[p]
    BY <1>2 DEF Passed
  <2>3. ASSUME NEW p \in Operators, request'[p].op = "shutdown", request'[p].step # "idle"
        PROVE  shutdownStarted'
    BY <1>1, <1>2, <1>3, <2>3 DEF MonitorInv, ShutdownInv, Op, At
  <2>4. \A p, q \in Operators : Passed(p)' => ~Starting(q)'
    BY <2>1 DEF MonitorInv, ShutdownInv
  <2>5. \A p \in Operators : Passed(p)' /\ request'[p].step # "joining" => monitor' = "off"
    BY <1>1, <2>1, <2>2 DEF MonitorInv, ShutdownInv, At
  <2> QED BY <2>3, <2>4, <2>5 DEF ShutdownInv, Op, At
<1> QED BY <1>5, <1>6, <1>7 DEF MonitorInv

\* Who takes the mutex finds nobody between a join and an answer.
LEMMA LocksKept ==
  ASSUME MonitorInv, NEW o \in Operators, Locks(o)
  PROVE  MonitorInv'
<1> USE NobodyAssumption
<1>1. /\ request[o].step = "locking" /\ operation = Nobody /\ UNCHANGED <<monitor, status, shutdownStarted>>
      /\ \A p \in Operators : ~InMutex(p) /\ request[p].step # "joining"
  BY DEF Locks, At, MonitorInv, MutexHeld, InMutex
<1>2. CASE RefusedByShutdown(o)
  <2>1. Goes(o, "idle") /\ UNCHANGED <<operation, cancelled>>
    BY <1>2 DEF Locks
  <2>2. /\ request' \in [Operators -> [op : Operations, step : Steps]]
        /\ request'[o].op = request[o].op /\ request'[o].step = "idle"
        /\ \A p \in Operators \ {o} : request'[p] = request[p]
    BY <2>1, StepsMove DEF MonitorInv, Steps
  <2>3. \A p \in Operators : \A step \in {"joining", "calling", "called", "down"} :
          request'[p].step = step <=> (request[p].step = step /\ request'[p] = request[p])
    BY <1>1, <2>2
  <2>4. ControlShape' /\ MutexHeld' /\ TokenInv' /\ StatusInv' /\ JoinedInv'
    BY <1>1, <2>1, <2>2, <2>3
    DEF MonitorInv, ControlShape, MutexHeld, TokenInv, StatusInv, JoinedInv, InMutex,
        KeepsOperation, Op, At
  <2>5. ShutdownInv'
    BY <1>1, <2>2, <2>3 DEF MonitorInv, ShutdownInv, Passed, Starting, InMutex, KeepsOperation, Op, At
  <2> QED BY <2>4, <2>5 DEF MonitorInv
<1>3. CASE ~RefusedByShutdown(o)
  <2>1. Goes(o, "joining") /\ operation' = o /\ cancelled' = TRUE
    BY <1>3 DEF Locks
  <2>2. /\ request' \in [Operators -> [op : Operations, step : Steps]]
        /\ request'[o].op = request[o].op /\ request'[o].step = "joining"
        /\ \A p \in Operators \ {o} : request'[p] = request[p]
    BY <2>1, StepsMove DEF MonitorInv, Steps
  <2>3. ControlShape' /\ MutexHeld' /\ TokenInv' /\ StatusInv' /\ JoinedInv'
    BY <1>1, <2>1, <2>2
    DEF MonitorInv, ControlShape, MutexHeld, TokenInv, StatusInv, JoinedInv, InMutex,
        KeepsOperation, Op, At
  <2>4. ASSUME NEW p \in Operators, NEW q \in Operators, Passed(p)', Starting(q)'
        PROVE  FALSE
    <3>1. q = o /\ Op(o) = "monitor.start"
      BY <1>1, <2>2, <2>4 DEF Starting, InMutex, KeepsOperation, Op, At
    <3>2. ~shutdownStarted
      BY <1>3, <3>1 DEF RefusedByShutdown
    <3>3. p # o /\ Passed(p)
      BY <2>2, <2>4, <3>1 DEF Passed, Op
    <3> QED BY <3>2, <3>3 DEF Passed, MonitorInv, ShutdownInv, At
  <2>5. ShutdownInv'
    BY <1>1, <2>2, <2>4 DEF MonitorInv, ShutdownInv, Passed, Op, At
  <2> QED BY <2>3, <2>5 DEF MonitorInv
<1> QED BY <1>2, <1>3

\* The supervisor has ended: the status says so before the mutex is given back.
LEMMA JoinsKept ==
  ASSUME MonitorInv, NEW o \in Operators, Joins(o)
  PROVE  MonitorInv'
<1> USE NobodyAssumption
<1>1. /\ request[o].step = "joining" /\ monitor = "off" /\ operation = o
      /\ status' = [enabled |-> FALSE, phase |-> "stopped"]
      /\ operation' = IF KeepsOperation(o) THEN o ELSE Nobody
      /\ UNCHANGED <<monitor, cancelled, shutdownStarted>>
      /\ \A p \in Operators \ {o} : ~InMutex(p)
  BY DEF Joins, At, MonitorInv, MutexHeld, InMutex
<1>2. /\ request' \in [Operators -> [op : Operations, step : Steps]]
      /\ request'[o].op = request[o].op /\ request'[o].step = "calling"
      /\ \A p \in Operators \ {o} : request'[p] = request[p]
  BY StepsMove DEF Joins, MonitorInv, Steps
<1>3. ControlShape'
  BY <1>1, <1>2 DEF MonitorInv, ControlShape, Phases
<1>4. MutexHeld' /\ TokenInv' /\ StatusInv' /\ JoinedInv'
  BY <1>1, <1>2
  DEF MonitorInv, MutexHeld, TokenInv, StatusInv, JoinedInv, InMutex, KeepsOperation, Op, At
<1>5. ShutdownInv'
  BY <1>1, <1>2 DEF MonitorInv, ShutdownInv, Passed, Starting, InMutex, KeepsOperation, Op, At
<1> QED BY <1>3, <1>4, <1>5 DEF MonitorInv

\* The owner is asked with or without the mutex; no lock moves.
LEMMA CallsKept ==
  ASSUME MonitorInv, NEW o \in Operators, Calls(o)
  PROVE  MonitorInv'
<1>1. /\ request[o].step = "calling"
      /\ UNCHANGED <<operation, monitor, cancelled, status, shutdownStarted>>
  BY DEF Calls, At
<1>2. /\ request' \in [Operators -> [op : Operations, step : Steps]]
      /\ request'[o].op = request[o].op /\ request'[o].step = "called"
      /\ \A p \in Operators \ {o} : request'[p] = request[p]
  BY StepsMove DEF Calls, MonitorInv, Steps
<1>3. ControlShape' /\ MutexHeld' /\ TokenInv' /\ StatusInv' /\ JoinedInv'
  BY <1>1, <1>2
  DEF MonitorInv, ControlShape, MutexHeld, TokenInv, StatusInv, JoinedInv, InMutex,
      KeepsOperation, Op, At
<1>4. ShutdownInv'
  BY <1>1, <1>2 DEF MonitorInv, ShutdownInv, Passed, Starting, InMutex, KeepsOperation, Op, At
<1> QED BY <1>3, <1>4 DEF MonitorInv

\* A start has the mutex when it spawns, and no shutdown has passed it.
LEMMA ReturnsKept ==
  ASSUME MonitorInv, NEW o \in Operators, Returns(o)
  PROVE  MonitorInv'
<1> USE NobodyAssumption
<1> DEFINE to == IF Op(o) = "shutdown" THEN "down" ELSE "idle"
<1>1. /\ request[o].step = "called" /\ UNCHANGED shutdownStarted
      /\ operation' = IF operation = o THEN Nobody ELSE operation
  BY DEF Returns, At
<1>2. /\ request' \in [Operators -> [op : Operations, step : Steps]]
      /\ request'[o].op = request[o].op /\ request'[o].step = to
      /\ \A p \in Operators \ {o} : request'[p] = request[p]
  <2> to \in Steps
    BY DEF Steps
  <2> QED BY StepsMove DEF Returns, MonitorInv
<1>3. MutexHeld'
  BY <1>1, <1>2 DEF MonitorInv, ControlShape, MutexHeld, InMutex, KeepsOperation, Op, At
<1>4. CASE Op(o) = "monitor.start"
  <2>1. /\ monitor' = "top" /\ cancelled' = FALSE
        /\ status' = [enabled |-> TRUE, phase |-> "waiting"]
    BY <1>4 DEF Returns
  <2>2. Starting(o) /\ operation = o /\ to = "idle"
    BY <1>1, <1>4 DEF Starting, MonitorInv, MutexHeld, InMutex, KeepsOperation, At
  <2>3. \A p \in Operators : ~Passed(p) /\ ~At(p, "joining") /\ (p # o => ~InMutex(p))
    BY <1>1, <2>2 DEF MonitorInv, ShutdownInv, MutexHeld, InMutex, At
  <2>4. ControlShape'
    BY <1>1, <1>2, <2>1 DEF MonitorInv, ControlShape, Phases
  <2>5. TokenInv' /\ StatusInv'
    BY <1>2, <2>1, <2>2, <2>3 DEF TokenInv, StatusInv, At
  <2>6. JoinedInv'
    BY <1>2, <2>2, <2>3 DEF JoinedInv, InMutex, KeepsOperation, Op
  <2>7. ShutdownInv'
    BY <1>1, <1>2, <2>2, <2>3
    DEF MonitorInv, ShutdownInv, Passed, Starting, InMutex, KeepsOperation, Op, At
  <2> QED BY <1>3, <2>4, <2>5, <2>6, <2>7 DEF MonitorInv
<1>5. CASE Op(o) # "monitor.start"
  <2>1. UNCHANGED <<monitor, cancelled, status>>
    BY <1>5 DEF Returns
  <2>2. ControlShape' /\ TokenInv' /\ StatusInv' /\ JoinedInv'
    BY <1>1, <1>2, <2>1
    DEF MonitorInv, ControlShape, TokenInv, StatusInv, JoinedInv, KeepsOperation, Op, At
  <2>3. ShutdownInv'
    BY <1>1, <1>2, <2>1, <1>5
    DEF MonitorInv, ShutdownInv, Passed, Starting, InMutex, KeepsOperation, Op, At
  <2> QED BY <1>3, <2>2, <2>3 DEF MonitorInv
<1> QED BY <1>4, <1>5

\* The supervisor never disables itself and never ends without its token.
LEMMA SupervisorKept ==
  ASSUME MonitorInv, MonitorStep
  PROVE  MonitorInv'
<1>1. UNCHANGED <<operation, request, cancelled, shutdownStarted>>
  BY DEF MonitorStep, MonitorStops, MonitorChecks, MonitorLooksUp, MonitorCalls, MonitorConnected,
         MonitorWaits
<1>2. CASE MonitorStops
  <2>1. monitor # "off" /\ cancelled /\ monitor' = "off" /\ UNCHANGED status
    BY <1>2 DEF MonitorStops
  <2> QED
    BY <1>1, <2>1
    DEF MonitorInv, ControlShape, MutexHeld, TokenInv, StatusInv, JoinedInv, ShutdownInv, InMutex,
        Passed, Starting, KeepsOperation, Op, At
<1>3. CASE ~MonitorStops
  <2>1. /\ monitor # "off" /\ ~cancelled /\ monitor' # "off"
        /\ status' = status \/ \E phase \in Phases \ {"stopped"} : Shows(phase)
    BY <1>3 DEF MonitorStep, MonitorChecks, MonitorLooksUp, MonitorCalls, MonitorConnected,
                MonitorWaits, Phases
  <2>2. /\ status' \in [enabled : BOOLEAN, phase : Phases]
        /\ status'.enabled = status.enabled /\ status'.phase # "stopped"
    BY <2>1 DEF Shows, MonitorInv, ControlShape, StatusInv
  <2>3. ControlShape' /\ MutexHeld' /\ TokenInv' /\ StatusInv'
    BY <1>1, <2>1, <2>2
    DEF MonitorInv, ControlShape, MutexHeld, TokenInv, StatusInv, InMutex, KeepsOperation, Op, At
  <2>4. JoinedInv' /\ ShutdownInv'
    BY <1>1, <2>1
    DEF MonitorInv, JoinedInv, ShutdownInv, InMutex, Passed, Starting, KeepsOperation, Op, At
  <2> QED BY <2>3, <2>4 DEF MonitorInv
<1> QED BY <1>2, <1>3

\* What the connection does below moves no lock.
LEMMA ConnectionKept == MonitorInv /\ UNCHANGED control => MonitorInv'
BY DEF control, MonitorInv, ControlShape, MutexHeld, TokenInv, StatusInv, JoinedInv, ShutdownInv,
       InMutex, Passed, Starting, KeepsOperation, Op, At

\* The mutex, the token and the status agree, whatever the connection does.
THEOREM MonitorInvariant == Spec => []MonitorInv
<1>1. MonitorInv /\ [Next]_vars => MonitorInv'
  BY BeginKept, LocksKept, JoinsKept, CallsKept, ReturnsKept, SupervisorKept, ConnectionKept
  DEF Next, OperatorStep, vars
<1> QED BY InitMonitorInv, <1>1, PTL DEF Spec

\* Whenever no operation holds the mutex, the published status says whether a
\* supervisor runs, though operations, supervisor and shutdown all write it.
THEOREM StatusTellsTheTruth == Spec => []StatusHonest
<1>1. MonitorInv => StatusHonest
  BY NobodyAssumption DEF MonitorInv, StatusHonest, StatusInv, MutexHeld, InMutex
<1> QED BY MonitorInvariant, <1>1, PTL

\* A disconnect, a start, a stop and the shutdown end the session without a
\* supervisor beside them, and none comes back after the shutdown.
THEOREM SessionsEndAlone == Spec => []SessionEndsAlone
<1>1. MonitorInv => SessionEndsAlone
  BY DEF MonitorInv, ControlShape, SessionEndsAlone, JoinedInv, ShutdownInv, Passed, KeepsOperation,
         Operations, Op, At
<1> QED BY MonitorInvariant, <1>1, PTL
=============================================================================
