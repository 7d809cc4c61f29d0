------------------------------ MODULE LiveProofs ------------------------------
(***************************************************************************)
(* Proofs about LiveIngress for any queue, channel and number of events:   *)
(* its accounting, what a stop that allows an update has drained, that no  *)
(* task outlives Stopped, and the generation fence.                        *)
(***************************************************************************)
EXTENDS LiveIngress, SequenceTheorems, TLAPS

-----------------------------------------------------------------------------
\* Which task is there while which other one is.
TaskOrder ==
  /\ starter \in {"no", "begun"} <=> pump.step = "off"
  /\ starter \in {"no", "begun"} <=> dispatch.step = "off"
  /\ dispatch.step = "off" <=> persist = "off"
  /\ dispatch.step = "dead" => persist = "ended"
  /\ dispatch.step = "ended" => pump.step = "ended" \/ emergency
  /\ persist = "ended" => WorkerGone \/ emergency

\* How far the ladder and the tasks have climbed, and what the ladder left
\* behind it unless it overtook the start.
LadderOrder ==
  /\ ladder # "running" \/ lifecycle # Running => admission
  /\ pump.step = "ended" => admission
  /\ emergency => ladder \in {"stop", "stopped", "left"}
  /\ emergency => ~updateSafe
  /\ ladder = "stop" => emergency /\ WorkerKept
  /\ ~orphaned =>
       /\ ladder \notin {"running", "pump"} => starter = "no" \/ pump.step = "ended"
       /\ starter = "begun" => ladder \in {"running", "pump"} /\ lifecycle # Stopped
       /\ HasStopped => WorkerEnded
       /\ HasStopped /\ dispatch.step = "dead" => ~updateSafe

\* What a task that is gone leaves behind, and what nobody cancelled.
Emptied ==
  /\ dispatch.step \in {"off", "ended", "dead"} => queue = <<>>
  /\ persist \in {"off", "ended"} => effects = 0
  /\ ~emergency => stats.cancelled = 0 /\ stats.abandoned = 0
  /\ ~emergency /\ dispatch.step # "dead" =>
       effectStats.cancelled = 0 /\ effectStats.abandoned = 0

\* Where a received event is before it is accepted, or why it never was.
ReceiptAccounted ==
  /\ dispatch.step # "dead" /\ updateSafe =>
       stats.received = stats.accepted + stats.refused + stats.droppedData
                        + stats.droppedCritical + (IF Holding THEN 1 ELSE 0)
  /\ stats.droppedData + stats.droppedCritical > 0 => rankingGap

\* The context belongs to the last connection the worker was told of.
ContextIsCurrent == context \in {0, sequence}

IngressInv ==
  /\ TypeOK /\ TaskOrder /\ LadderOrder /\ Emptied /\ ReceiptAccounted
  /\ EveryItemAccounted /\ EveryEffectAccounted
  /\ StoppedIsDead /\ ContextIsCurrent /\ NeverToANewerCreator

-----------------------------------------------------------------------------
\* Nothing has been received and no task runs.
LEMMA InitIngressInv == Init => IngressInv
<1> SUFFICES ASSUME Init PROVE IngressInv
  OBVIOUS
<1> USE DEF Init, TransportInit, IngressInit, Pump, Dispatch, Message, NoMessage
<1>1. TransportTypeOK
  <2>1. snapshot \in Snapshots
    BY DEF Snapshots, States
  <2>2. channel \in Seq(Messages)
    OBVIOUS
  <2> QED BY <2>1, <2>2 DEF TransportTypeOK
<1>2. IngressTypeOK
  <2>1. stats \in Stats /\ effectStats \in EffectStats
    BY Zenon, 0 \in Nat DEF Stats, EffectStats
  <2>2. NoMessage \in Messages
    BY DEF Messages, LifecycleKinds
  <2>3. /\ pump \in [step : {"off", "receiving", "admitting", "waiting", "ended"},
                     item : Messages]
        /\ dispatch \in [step : Handling \union {"off", "receiving", "ended", "dead"},
                         item : Messages]
    BY <2>2
  <2>4. queue \in Seq(Messages)
    OBVIOUS
  <2>5. credited \subseteq [generation : {0} \union Generations, context : Generations]
    OBVIOUS
  <2>6. lifecycle \in Running .. Stopped
    BY DEF Running, Stopped
  <2>7. {sequence, context, topic} \subseteq {0} \union Generations
    OBVIOUS
  <2> QED BY <2>1, <2>3, <2>4, <2>5, <2>6, <2>7 DEF IngressTypeOK
<1>3. TaskOrder /\ LadderOrder /\ Emptied /\ ReceiptAccounted /\ ContextIsCurrent
  BY DEF TaskOrder, LadderOrder, Emptied, ReceiptAccounted, ContextIsCurrent, WorkerGone,
         HasStopped, Holding
<1>4. EveryItemAccounted /\ EveryEffectAccounted
  BY DEF EveryItemAccounted, EveryEffectAccounted, Accounted, Handling
<1>5. StoppedIsDead /\ NeverToANewerCreator
  BY DEF StoppedIsDead, NeverToANewerCreator, Running, Stopped
<1> QED BY <1>1, <1>2, <1>3, <1>4, <1>5 DEF IngressInv, TypeOK

\* Starting moves the tasks, all at once, and nothing they work on.
LEMMA StartMoves ==
  ASSUME Starts
  PROVE  /\ UNCHANGED <<snapshot, channel, missed, sent, orphaned, queue, effects>>
         /\ UNCHANGED <<session, counters>>
         /\ UNCHANGED <<admission, emergency, lifecycle, ladder, updateSafe>>
         /\ starter' \in {"begun", "spawned", "pumpKept", "kept"}
         /\ \/ UNCHANGED <<transport, flow>>
            \/ /\ starter = "begun" /\ Subscribe /\ pump' = Pump("receiving", NoMessage)
               /\ dispatch' = Dispatch("receiving", NoMessage) /\ persist' = "receiving"
BY DEF Starts, StartPump, SpawnTasks, KeepPump, KeepWorker, transport, flow

\* Each task starts and ends in its place of the ladder.
LEMMA OrderKept ==
  ASSUME IngressInv, Next
  PROVE  TaskOrder' /\ LadderOrder'
<1> USE DEF IngressInv, TaskOrder, LadderOrder, WorkerGone, WorkerEnded, HasStopped, PumpKept,
        WorkerKept, Passes, startup, Running, StoppingAdmission, Draining, Stopped, Pump,
        Dispatch, PumpNext, WorkerNext, Ready, Holding, Handling, LifecycleAtLeast
<1>1. CASE AnyEvent \/ AnyConnection
  BY <1>1 DEF AnyEvent, AnyConnection, ingressVars, control, flow
<1>2. CASE Starts
  BY <1>2 DEF Starts, StartPump, SpawnTasks, KeepPump, KeepWorker, control, flow
<1>3. CASE PumpStep
  BY <1>3 DEF PumpStep, PumpReceive, PumpLagged, PumpRefuses, PumpAdmits, PumpWaits, PumpSheds,
       PumpGivesUp,
         PumpFindsNoWorker, PumpEnds, control, flow
<1>4. CASE DispatchStep
  BY <1>4 DEF DispatchStep, TakeStale, TakeData, FinishData, TakeNotice, TakeConnected,
       OpensContext,
         PublishesConnected, TakeDisconnected, PublishesDisconnected, DispatchEnds,
         DispatchCancelled,
         Finished, SenderGone, control, flow
<1>5. CASE PersistStep
  BY <1>5 DEF PersistStep, PersistTakes, PersistFinishes, PersistEnds, PersistCancelled,
       control, flow
<1>6. CASE WorkerPanics
  BY <1>6 DEF WorkerPanics, CutOff, control, flow
<1>7. CASE Ladder
  <2>1. CASE CloseAdmission
    BY <2>1 DEF CloseAdmission, control, flow
  <2>2. CASE PumpJoined
    BY <2>2 DEF PumpJoined, control, flow
  <2>3. CASE PumpDeadline
    BY <2>3 DEF PumpDeadline, control, flow
  <2>4. CASE WorkerJoined
    BY <2>4 DEF WorkerJoined, control, flow
  <2>5. CASE DrainDeadline
    BY <2>5 DEF DrainDeadline, control, flow
  <2>6. CASE StopDeadline
    BY <2>6 DEF StopDeadline, CutOff, control, flow
  <2>7. CASE EndSession
    BY <2>7 DEF EndSession, control, flow
  <2> QED BY <1>7, <2>1, <2>2, <2>3, <2>4, <2>5, <2>6, <2>7 DEF Ladder
<1> QED BY <1>1, <1>2, <1>3, <1>4, <1>5, <1>6, <1>7 DEF Next, IngressStep

\* Whoever advances the life cycle to Stopped, worker or ladder, no task is
\* left, and none is started afterwards, unless the ladder overtook the start.
LEMMA StoppedKept ==
  ASSUME IngressInv, Next
  PROVE  StoppedIsDead'
<1> USE DEF IngressInv, TaskOrder, LadderOrder, StoppedIsDead, WorkerGone, WorkerEnded,
     HasStopped,
        PumpKept, WorkerKept, Passes, startup, Pump, Dispatch, PumpNext, WorkerNext, Ready,
        Holding, Handling, LifecycleAtLeast, Running,
        StoppingAdmission, Draining, Stopped
<1>1. CASE AnyEvent \/ AnyConnection
  BY <1>1 DEF AnyEvent, AnyConnection, ingressVars, control, flow
<1>2. CASE Starts
  BY <1>2 DEF Starts, StartPump, SpawnTasks, KeepPump, KeepWorker, control, flow
<1>3. CASE PumpStep
  BY <1>3 DEF PumpStep, PumpReceive, PumpLagged, PumpRefuses, PumpAdmits, PumpWaits, PumpSheds,
       PumpGivesUp,
         PumpFindsNoWorker, PumpEnds, control, flow
<1>4. CASE DispatchStep
  BY <1>4 DEF DispatchStep, TakeStale, TakeData, FinishData, TakeNotice, TakeConnected,
       OpensContext,
         PublishesConnected, TakeDisconnected, PublishesDisconnected, DispatchEnds,
         DispatchCancelled,
         Finished, SenderGone, control, flow
<1>5. CASE PersistStep
  BY <1>5 DEF PersistStep, PersistTakes, PersistFinishes, PersistEnds, PersistCancelled,
       control, flow
<1>6. CASE WorkerPanics
  BY <1>6 DEF WorkerPanics, CutOff, control, flow
<1>7. CASE Ladder
  <2>1. CASE CloseAdmission
    BY <2>1 DEF CloseAdmission, control, flow
  <2>2. CASE PumpJoined
    <3>1. ~orphaned' => ~orphaned
      BY <2>2, Zenon DEF PumpJoined
    <3>2. lifecycle' = Stopped => lifecycle = Stopped
      <4> HIDE DEF IngressInv
      <4> QED BY <2>2 DEF PumpJoined
    <3>3. UNCHANGED <<pump, dispatch, persist>>
      BY <2>2 DEF PumpJoined, flow
    <3> QED BY <3>1, <3>2, <3>3
  <2>3. CASE PumpDeadline
    BY <2>3 DEF PumpDeadline, control, flow
  <2>4. CASE WorkerJoined
    BY <2>4 DEF WorkerJoined, control, flow
  <2>5. CASE DrainDeadline
    BY <2>5 DEF DrainDeadline, control, flow
  <2>6. CASE StopDeadline
    BY <2>6 DEF StopDeadline, CutOff, control, flow
  <2>7. CASE EndSession
    BY <2>7 DEF EndSession, control, flow
  <2> QED BY <1>7, <2>1, <2>2, <2>3, <2>4, <2>5, <2>6, <2>7 DEF Ladder
<1> QED BY <1>1, <1>2, <1>3, <1>4, <1>5, <1>6, <1>7 DEF Next, IngressStep

\* What is gone holds nothing; nothing is cancelled before the emergency.
LEMMA EmptiedKept ==
  ASSUME IngressInv, Next
  PROVE  Emptied'
<1> USE DEF IngressInv, TypeOK, IngressTypeOK, Stats, EffectStats, Emptied, TaskOrder,
     LadderOrder,
        EveryEffectAccounted, WorkerGone, Pump, Dispatch, PumpNext, WorkerNext, Ready, Holding,
        HasRoom, Handling, Taken, Processed, Released
<1>1. CASE AnyEvent \/ AnyConnection
  BY <1>1 DEF AnyEvent, AnyConnection, ingressVars, control, flow, counters
<1>2. CASE Starts
  BY <1>2 DEF Starts, StartPump, SpawnTasks, KeepPump, KeepWorker, control, flow, counters
<1>3. CASE PumpStep
  <2>1. UNCHANGED <<emergency, dispatch, persist, effects, effectStats>>
    <3> HIDE DEF TypeOK, Emptied, TaskOrder, LadderOrder, EveryEffectAccounted
    <3> QED BY <1>3 DEF PumpStep, PumpReceive, PumpLagged, PumpRefuses, PumpAdmits, PumpWaits,
                    PumpSheds, PumpGivesUp, PumpFindsNoWorker, PumpEnds, control, flow, counters
  <2>2. UNCHANGED queue \/ dispatch.step \notin {"ended", "dead"}
    BY <1>3 DEF PumpStep, PumpReceive, PumpLagged, PumpRefuses, PumpAdmits, PumpWaits, PumpSheds,
       PumpGivesUp, PumpFindsNoWorker, PumpEnds, flow
  <2>3. UNCHANGED queue \/ dispatch.step # "off"
    BY <1>3 DEF PumpStep, PumpReceive, PumpLagged, PumpRefuses, PumpAdmits, PumpWaits, PumpSheds,
       PumpGivesUp, PumpFindsNoWorker, PumpEnds, flow
  <2>4. stats'.cancelled = stats.cancelled /\ stats'.abandoned = stats.abandoned
    <3>1. stats \in Stats
      OBVIOUS
    <3> HIDE DEF TypeOK, Emptied, TaskOrder, LadderOrder, EveryEffectAccounted
    <3> QED BY <1>3, <3>1 DEF PumpStep, PumpReceive, PumpLagged, PumpRefuses, PumpAdmits,
                    PumpWaits, PumpSheds, PumpGivesUp, PumpFindsNoWorker, PumpEnds, counters
  <2> HIDE DEF TypeOK, TaskOrder, LadderOrder, EveryEffectAccounted, Stats, EffectStats
  <2> QED BY <2>1, <2>2, <2>3, <2>4
<1>4. CASE DispatchStep
  <2>1. CASE TakeStale
    BY <2>1 DEF TakeStale, control, flow, counters
  <2>2. CASE TakeData
    <3>1. stats'.cancelled = stats.cancelled /\ stats'.abandoned = stats.abandoned
      <4>1. stats \in Stats
        OBVIOUS
      <4>2. CASE Taken
        BY <4>1, <4>2
      <4>3. CASE stats' = [stats EXCEPT !.queued = @ - 1, !.processed = @ + 1]
        BY <4>1, <4>3
      <4> QED BY <2>2, <4>2, <4>3 DEF TakeData
    <3>2. dispatch'.step \in {"receiving", "routing"}
      BY <2>2, SMTT(60) DEF TakeData
    <3>3. dispatch.step = "receiving" /\ UNCHANGED <<emergency, persist, effects, effectStats>>
      BY <2>2 DEF TakeData, control
    <3> HIDE DEF Stats, EffectStats, Taken, TypeOK, EveryEffectAccounted
    <3> QED BY <3>1, <3>2, <3>3
  <2>3. CASE FinishData
    BY <2>3 DEF FinishData, control, flow, counters
  <2>4. CASE TakeNotice
    BY <2>4 DEF TakeNotice, control, flow, counters
  <2>5. CASE TakeConnected
    BY <2>5 DEF TakeConnected, control, flow, counters
  <2>6. CASE OpensContext
    <3>1. stats'.cancelled = stats.cancelled /\ stats'.abandoned = stats.abandoned
      <4>1. stats \in Stats
        OBVIOUS
      <4>2. UNCHANGED stats \/ Processed
        BY <2>6 DEF OpensContext, Finished
      <4> QED BY <4>1, <4>2
    <3>2. dispatch.step = "closing" /\ dispatch'.step \in {"opening", "receiving"}
      <4> HIDE DEF Processed, TypeOK, EveryEffectAccounted, Emptied
      <4> QED BY <2>6 DEF OpensContext, Finished
    <3>3. UNCHANGED <<emergency, persist, effects, effectStats>>
      BY <2>6 DEF OpensContext, control
    <3> HIDE DEF Stats, EffectStats, Processed, TypeOK, EveryEffectAccounted
    <3> QED BY <3>1, <3>2, <3>3
  <2>7. CASE PublishesConnected
    BY <2>7 DEF PublishesConnected, Finished, control, flow, counters
  <2>8. CASE TakeDisconnected
    BY <2>8 DEF TakeDisconnected, control, flow, counters
  <2>9. CASE PublishesDisconnected
    BY <2>9 DEF PublishesDisconnected, Finished, control, flow, counters
  <2>10. CASE DispatchEnds
    BY <2>10 DEF DispatchEnds, SenderGone, control, flow, counters
  <2>11. CASE DispatchCancelled
    BY <2>11 DEF DispatchCancelled, control, flow, counters
  <2> QED BY <1>4, <2>1, <2>2, <2>3, <2>4, <2>5, <2>6, <2>7, <2>8, <2>9, <2>10,
       <2>11 DEF DispatchStep
<1>5. CASE PersistStep
  BY <1>5 DEF PersistStep, PersistTakes, PersistFinishes, PersistEnds, PersistCancelled,
       control, flow, counters
<1>6. CASE WorkerPanics
  BY <1>6 DEF WorkerPanics, CutOff, control, flow, counters
<1>7. CASE Ladder
  <2>1. CASE CloseAdmission
    BY <2>1 DEF CloseAdmission, control, flow, counters
  <2>2. CASE PumpJoined
    BY <2>2 DEF PumpJoined, control, flow, counters
  <2>3. CASE PumpDeadline
    BY <2>3 DEF PumpDeadline, control, flow, counters
  <2>4. CASE WorkerJoined
    BY <2>4 DEF WorkerJoined, control, flow, counters
  <2>5. CASE DrainDeadline
    BY <2>5 DEF DrainDeadline, control, flow, counters
  <2>6. CASE StopDeadline
    BY <2>6 DEF StopDeadline, CutOff, control, flow, counters
  <2>7. CASE EndSession
    BY <2>7 DEF EndSession, control, flow, counters
  <2> QED BY <1>7, <2>1, <2>2, <2>3, <2>4, <2>5, <2>6, <2>7 DEF Ladder
<1> QED BY <1>1, <1>2, <1>3, <1>4, <1>5, <1>6, <1>7 DEF Next, IngressStep

\* A handled item moves from one counter to another.
LEMMA ProcessedMoves ==
  ASSUME stats \in Stats, Processed
  PROVE  /\ stats'.accepted = stats.accepted /\ Accounted(stats)' = Accounted(stats)
         /\ stats'.queued = stats.queued /\ stats'.inFlight = stats.inFlight - 1
<1>1. stats'.accepted = stats.accepted /\ stats'.queued = stats.queued
  BY DEF Processed, Stats
<1>2. stats'.inFlight = stats.inFlight - 1
  BY DEF Processed, Stats
<1>3. Accounted(stats)' = Accounted(stats)
  BY DEF Processed, Stats, Accounted
<1> QED BY <1>1, <1>2, <1>3

\* The end of a handler keeps the accounts.
LEMMA HandledKept ==
  ASSUME stats \in Stats, EveryItemAccounted, dispatch.step \in Handling, Processed,
         UNCHANGED queue, dispatch' = WorkerNext
  PROVE  EveryItemAccounted'
<1>1. stats.inFlight = 1 /\ stats.accepted = Accounted(stats) /\ stats.queued = Len(queue)
  BY DEF EveryItemAccounted, Handling
<1>2. dispatch'.step = "receiving"
  BY DEF WorkerNext, Dispatch
<1> QED BY <1>1, <1>2, ProcessedMoves DEF EveryItemAccounted, Handling

\* An accepted item is queued.
LEMMA AdmittedKept ==
  ASSUME stats \in Stats, queue \in Seq(Messages), pump.item \in Messages, EveryItemAccounted,
         PumpAdmits
  PROVE  EveryItemAccounted'
<1>1. Len(queue') = Len(queue) + 1
  BY DEF PumpAdmits
<1>2. /\ stats'.accepted = stats.accepted + 1 /\ stats'.queued = stats.queued + 1
      /\ stats'.inFlight = stats.inFlight
  BY DEF PumpAdmits, Stats
<1>3. Accounted(stats)' = Accounted(stats) + 1
  BY SMTT(60) DEF PumpAdmits, Stats, Accounted
<1> QED BY <1>1, <1>2, <1>3 DEF EveryItemAccounted, PumpAdmits

\* abandon_outstanding: the items of no counter become cancelled or abandoned.
LEMMA AbandonedAccounts ==
  ASSUME NEW s \in Stats, s.accepted = Accounted(s), s = stats
  PROVE  /\ Abandoned \in Stats /\ Abandoned.accepted = Accounted(Abandoned)
         /\ Abandoned.received = s.received /\ Abandoned.accepted = s.accepted
         /\ Abandoned.refused = s.refused /\ Abandoned.droppedData = s.droppedData
         /\ Abandoned.droppedCritical = s.droppedCritical
<1> DEFINE queued == IF Outstanding > stats.inFlight THEN Outstanding - stats.inFlight ELSE 0
<1>1. Outstanding = s.queued + s.inFlight
  BY DEF Outstanding, Accounted, Stats
<1>2. /\ s.inFlight \in Nat /\ s.queued \in Nat /\ s.cancelled \in Nat /\ s.abandoned \in Nat
  BY DEF Stats
<1>3. /\ queued \in Nat /\ Outstanding - queued \in Nat
  BY <1>1, <1>2
<1>4. Abandoned = [s EXCEPT !.inFlight = 0, !.queued = 0, !.cancelled = @ + queued,
                    !.abandoned = @ + Outstanding - queued]
  BY DEF Abandoned
<1> HIDE DEF queued
<1>5. s.abandoned + Outstanding - queued \in Nat /\ s.cancelled + queued \in Nat
  BY <1>2, <1>3, <1>1
<1>6. /\ Abandoned.received = s.received /\ Abandoned.accepted = s.accepted
      /\ Abandoned.refused = s.refused /\ Abandoned.droppedData = s.droppedData
      /\ Abandoned.droppedCritical = s.droppedCritical
      /\ Abandoned.processed = s.processed /\ Abandoned.stale = s.stale
      /\ Abandoned.queued = 0 /\ Abandoned.inFlight = 0
      /\ Abandoned.cancelled = s.cancelled + queued
      /\ Abandoned.abandoned = s.abandoned + Outstanding - queued
  BY <1>4, Zenon DEF Stats
<1>7. Abandoned \in Stats
  BY <1>4, <1>5, 0 \in Nat, Zenon DEF Stats
<1>8. Accounted(Abandoned) = s.accepted
  BY <1>1, <1>2, <1>3, <1>6 DEF Accounted, Stats
<1> QED BY <1>6, <1>7, <1>8

\* An item leaves the queue for one counter, or for a handler.
LEMMA TakenKept ==
  ASSUME stats \in Stats, queue \in Seq(Messages), queue # <<>>, EveryItemAccounted,
         dispatch.step = "receiving", queue' = Tail(queue),
         \/ stats' = [stats EXCEPT !.queued = @ - 1, !.stale = @ + 1] /\ UNCHANGED dispatch
         \/ stats' = [stats EXCEPT !.queued = @ - 1, !.processed = @ + 1] /\ UNCHANGED dispatch
         \/ Taken /\ dispatch'.step \in Handling
  PROVE  EveryItemAccounted'
<1>1. Len(queue') = Len(queue) - 1 /\ stats.queued = Len(queue) /\ stats.inFlight = 0
  BY DEF EveryItemAccounted, Handling
<1>2. CASE stats' = [stats EXCEPT !.queued = @ - 1, !.stale = @ + 1] /\ UNCHANGED dispatch
  BY <1>1, <1>2, SMTT(60) DEF EveryItemAccounted, Accounted, Stats, Handling
<1>3. CASE stats' = [stats EXCEPT !.queued = @ - 1, !.processed = @ + 1] /\ UNCHANGED dispatch
  BY <1>1, <1>3, SMTT(60) DEF EveryItemAccounted, Accounted, Stats, Handling
<1>4. CASE Taken /\ dispatch'.step \in Handling
  BY <1>1, <1>4 DEF EveryItemAccounted, Accounted, Stats, Handling, Taken
<1> QED BY <1>2, <1>3, <1>4

\* Every handler moves an item from one counter to exactly one other.
LEMMA ItemsKept ==
  ASSUME IngressInv, Next
  PROVE  EveryItemAccounted'
<1>1. /\ stats \in Stats /\ queue \in Seq(Messages) /\ EveryItemAccounted
      /\ pump.item \in Messages
  BY DEF IngressInv, TypeOK, IngressTypeOK
<1>2. starter = "begun" => dispatch.step = "off"
  BY DEF IngressInv, TaskOrder
<1>3. CASE AnyEvent \/ AnyConnection
  BY <1>1, <1>3 DEF AnyEvent, AnyConnection, ingressVars, flow, counters, EveryItemAccounted,
        Accounted
<1>4. CASE Starts
  <2>1. UNCHANGED <<stats, queue>>
    BY <1>4, StartMoves DEF counters
  <2>2. \/ UNCHANGED dispatch
        \/ dispatch.step = "off" /\ dispatch' = Dispatch("receiving", NoMessage)
    BY <1>2, <1>4, StartMoves DEF flow
  <2> QED BY <1>1, <2>1, <2>2 DEF EveryItemAccounted, Accounted, Dispatch, Handling
<1>5. CASE PumpStep
  <2>1. CASE PumpReceive
    BY <1>1, <2>1 DEF PumpReceive, EveryItemAccounted, Accounted, Stats
  <2>2. CASE PumpLagged
    BY <1>1, <2>2 DEF PumpLagged, EveryItemAccounted, Accounted, flow, Stats
  <2>3. CASE PumpRefuses
    BY <1>1, <2>3 DEF PumpRefuses, EveryItemAccounted, Accounted, Stats
  <2>4. CASE PumpAdmits
    BY <1>1, <2>4, AdmittedKept
  <2>5. CASE PumpWaits
    BY <1>1, <2>5 DEF PumpWaits, EveryItemAccounted, Accounted, counters, Stats
  <2>6. CASE PumpSheds
    BY <1>1, <2>6 DEF PumpSheds, EveryItemAccounted, Accounted, Stats
  <2>7. CASE PumpGivesUp
    BY <1>1, <2>7 DEF PumpGivesUp, EveryItemAccounted, Accounted, Stats
  <2>8. CASE PumpFindsNoWorker
    BY <1>1, <2>8 DEF PumpFindsNoWorker, EveryItemAccounted, Accounted, counters, Stats
  <2>9. CASE PumpEnds
    BY <1>1, <2>9 DEF PumpEnds, EveryItemAccounted, Accounted, counters, Stats
  <2> QED BY <1>5, <2>1, <2>2, <2>3, <2>4, <2>5, <2>6, <2>7, <2>8, <2>9 DEF PumpStep
<1>6. CASE DispatchStep
  <2>1. CASE TakeStale
    BY <1>1, <2>1, TakenKept DEF TakeStale, Ready, Dispatch, Handling
  <2>2. CASE TakeData
    BY <1>1, <2>2, TakenKept DEF TakeData, Ready, Dispatch, Handling
  <2>3. CASE FinishData
    BY <1>1, <2>3, HandledKept DEF FinishData, Handling
  <2>4. CASE TakeNotice
    BY <1>1, <2>4, TakenKept DEF TakeNotice, Ready, Dispatch, Handling
  <2>5. CASE TakeConnected
    BY <1>1, <2>5, TakenKept DEF TakeConnected, Ready, Dispatch, Handling
  <2>6. CASE OpensContext
    <3>1. CASE snapshot.generation = sequence
      BY <1>1, <2>6, <3>1 DEF OpensContext, EveryItemAccounted, Accounted, Dispatch, Handling
    <3>2. CASE snapshot.generation # sequence
      BY <1>1, <2>6, <3>2, HandledKept DEF OpensContext, Finished, Handling
    <3> QED BY <3>1, <3>2
  <2>7. CASE PublishesConnected
    BY <1>1, <2>7, HandledKept DEF PublishesConnected, Finished, Handling
  <2>8. CASE TakeDisconnected
    BY <1>1, <2>8, TakenKept DEF TakeDisconnected, Ready, Dispatch, Handling
  <2>9. CASE PublishesDisconnected
    BY <1>1, <2>9, HandledKept DEF PublishesDisconnected, Finished, Handling
  <2>10. CASE DispatchEnds
    BY <1>1, <2>10 DEF DispatchEnds, EveryItemAccounted, Accounted, Dispatch, Handling, counters
  <2>11. CASE DispatchCancelled
    BY <1>1, <2>11, SMTT(30) DEF DispatchCancelled, EveryItemAccounted, Accounted, Dispatch,
         Handling, Stats
  <2> QED BY <1>6, <2>1, <2>2, <2>3, <2>4, <2>5, <2>6, <2>7, <2>8, <2>9, <2>10,
       <2>11 DEF DispatchStep
<1>7. CASE PersistStep
  BY <1>1, <1>7 DEF PersistStep, PersistTakes, PersistFinishes, PersistEnds, PersistCancelled,
        EveryItemAccounted, Accounted, counters
<1>8. CASE WorkerPanics
  BY <1>1, <1>8 DEF WorkerPanics, CutOff, EveryItemAccounted, Accounted, Dispatch
<1>9. CASE Ladder
  <2>1. CASE CloseAdmission
    BY <1>1, <2>1 DEF CloseAdmission, EveryItemAccounted, Accounted, flow, counters
  <2>2. CASE PumpJoined
    BY <1>1, <2>2 DEF PumpJoined, EveryItemAccounted, Accounted, flow, counters
  <2>3. CASE PumpDeadline
    BY <1>1, <2>3 DEF PumpDeadline, EveryItemAccounted, Accounted, flow, counters
  <2>4. CASE WorkerJoined
    BY <1>1, <2>4 DEF WorkerJoined, EveryItemAccounted, Accounted, flow, counters
  <2>5. CASE DrainDeadline
    BY <1>1, <2>5 DEF DrainDeadline, EveryItemAccounted, Accounted, flow, counters
  <2>6. CASE StopDeadline
    BY <1>1, <2>6, AbandonedAccounts DEF StopDeadline, CutOff, Dispatch, EveryItemAccounted
  <2>7. CASE EndSession
    BY <1>1, <2>7 DEF EndSession, EveryItemAccounted, Accounted, flow, counters
  <2> QED BY <1>9, <2>1, <2>2, <2>3, <2>4, <2>5, <2>6, <2>7 DEF Ladder
<1> QED BY <1>3, <1>4, <1>5, <1>6, <1>7, <1>8, <1>9 DEF Next, IngressStep

\* A prepared effect is queued, or rejected and thereby dropped.
LEMMA EffectHandedOver ==
  ASSUME effectStats \in EffectStats, effects \in Nat, EveryEffectAccounted, FinishData
  PROVE  EveryEffectAccounted'
<1>1. dispatch.step = "routing" /\ dispatch'.step = "receiving" /\ UNCHANGED <<persist, prepared>>
  BY DEF FinishData, WorkerNext, Dispatch
<1>2. CASE effects < EffectsSize /\ persist # "ended"
  <2>1. effects' = effects + 1 /\ effectStats' = [effectStats EXCEPT !.queued = @ + 1]
    BY <1>2 DEF FinishData
  <2> QED BY <1>1, <2>1 DEF EveryEffectAccounted, EffectStats
<1>3. CASE ~(effects < EffectsSize /\ persist # "ended")
  <2>1. /\ UNCHANGED effects
        /\ effectStats' = [effectStats EXCEPT !.rejected = @ + 1, !.dropped = @ + 1]
    BY <1>3 DEF FinishData
  <2> QED BY <1>1, <2>1 DEF EveryEffectAccounted, EffectStats
<1> QED BY <1>2, <1>3

\* Effects: the two drop guards and the explicit releases.
LEMMA EffectsKept ==
  ASSUME IngressInv, Next
  PROVE  EveryEffectAccounted'
<1> USE DEF IngressInv, TypeOK, IngressTypeOK, EffectStats, TaskOrder, Emptied,
     EveryEffectAccounted,
        WorkerGone, Pump, Dispatch, PumpNext, WorkerNext, Ready, Holding, Handling, Released
<1>1. CASE AnyEvent \/ AnyConnection
  BY <1>1 DEF AnyEvent, AnyConnection, ingressVars, flow, counters
<1>2. CASE Starts
  <2>1. UNCHANGED <<effects, effectStats, prepared>>
    BY <1>2, StartMoves DEF counters
  <2>2. /\ persist = "applying" <=> persist' = "applying"
        /\ dispatch.step # "dead" \/ UNCHANGED dispatch
        /\ dispatch.step = "routing" <=> dispatch'.step = "routing"
    BY <1>2, StartMoves DEF flow
  <2> QED BY <2>1, <2>2
<1>3. CASE PumpStep
  BY <1>3 DEF PumpStep, PumpReceive, PumpLagged, PumpRefuses, PumpAdmits, PumpWaits, PumpSheds,
       PumpGivesUp,
         PumpFindsNoWorker, PumpEnds, flow, counters
<1>4. CASE DispatchStep
  <2>1. CASE TakeStale
    BY <2>1 DEF TakeStale, flow, counters
  <2>2. CASE TakeData
    BY <2>2 DEF TakeData, flow, counters
  <2>3. CASE FinishData
    <3> HIDE DEF EffectStats, EveryEffectAccounted
    <3> QED BY <2>3, EffectHandedOver
  <2>4. CASE TakeNotice
    BY <2>4 DEF TakeNotice, flow, counters
  <2>5. CASE TakeConnected
    BY <2>5 DEF TakeConnected, flow, counters
  <2>6. CASE OpensContext
    <3>1. dispatch.step = "closing" /\ dispatch'.step \in {"opening", "receiving"}
      BY <2>6 DEF OpensContext, Finished
    <3>2. UNCHANGED <<persist, effects, effectStats, prepared>>
      BY <2>6 DEF OpensContext
    <3> QED BY <3>1, <3>2
  <2>7. CASE PublishesConnected
    BY <2>7 DEF PublishesConnected, Finished, flow, counters
  <2>8. CASE TakeDisconnected
    BY <2>8 DEF TakeDisconnected, flow, counters
  <2>9. CASE PublishesDisconnected
    BY <2>9 DEF PublishesDisconnected, Finished, flow, counters
  <2>10. CASE DispatchEnds
    BY <2>10 DEF DispatchEnds, SenderGone, flow, counters
  <2>11. CASE DispatchCancelled
    BY <2>11 DEF DispatchCancelled, flow, counters
  <2> QED BY <1>4, <2>1, <2>2, <2>3, <2>4, <2>5, <2>6, <2>7, <2>8, <2>9, <2>10,
       <2>11 DEF DispatchStep
<1>5. CASE PersistStep
  <2>1. CASE PersistTakes
    BY <2>1 DEF PersistTakes, flow, counters
  <2>2. CASE PersistFinishes
    BY <2>2 DEF PersistFinishes, flow, counters
  <2>3. CASE PersistEnds
    BY <2>3 DEF PersistEnds, flow, counters
  <2>4. CASE PersistCancelled
    BY <2>4, SMTT(60) DEF PersistCancelled, flow, counters
  <2> QED BY <1>5, <2>1, <2>2, <2>3, <2>4 DEF PersistStep
<1>6. CASE WorkerPanics
  BY <1>6, SMTT(60) DEF WorkerPanics, CutOff, flow, counters
<1>7. CASE Ladder
  <2>1. CASE CloseAdmission
    BY <2>1 DEF CloseAdmission, flow, counters
  <2>2. CASE PumpJoined
    BY <2>2 DEF PumpJoined, flow, counters
  <2>3. CASE PumpDeadline
    BY <2>3 DEF PumpDeadline, flow, counters
  <2>4. CASE WorkerJoined
    BY <2>4 DEF WorkerJoined, flow, counters
  <2>5. CASE DrainDeadline
    BY <2>5 DEF DrainDeadline, flow, counters
  <2>6. CASE StopDeadline
    BY <2>6 DEF StopDeadline, CutOff, flow, counters
  <2>7. CASE EndSession
    BY <2>7 DEF EndSession, flow, counters
  <2> QED BY <1>7, <2>1, <2>2, <2>3, <2>4, <2>5, <2>6, <2>7 DEF Ladder
<1> QED BY <1>1, <1>2, <1>3, <1>4, <1>5, <1>6, <1>7 DEF Next, IngressStep

\* Between the receipt and the queue.
LEMMA ReceiptKept ==
  ASSUME IngressInv, Next
  PROVE  ReceiptAccounted'
<1> USE DEF IngressInv, TypeOK, IngressTypeOK, Stats, TaskOrder, LadderOrder, ReceiptAccounted,
        WorkerGone, Pump, Dispatch, PumpNext, WorkerNext, Ready, Holding, HasRoom, Handling,
        Taken, Processed
<1>1. CASE AnyEvent \/ AnyConnection
  BY <1>1, SMTT(60) DEF AnyEvent, AnyConnection, ingressVars, control, flow, counters
<1>2. CASE Starts
  <2>1. UNCHANGED <<stats, updateSafe, rankingGap>>
    BY <1>2, StartMoves DEF counters
  <2>2. (dispatch'.step # "dead" => dispatch.step # "dead") /\ (Holding <=> Holding')
    BY <1>2, StartMoves DEF flow
  <2> HIDE DEF Holding, Stats, LadderOrder, TaskOrder
  <2> QED BY <2>1, <2>2
<1>3. CASE PumpStep
  <2>1. CASE PumpReceive
    BY <2>1, SMTT(60) DEF PumpReceive, control, flow, counters
  <2>2. CASE PumpLagged
    BY <2>2 DEF PumpLagged, control, flow, counters
  <2>3. CASE PumpRefuses
    <3>1. /\ stats'.refused = stats.refused + 1
          /\ UNCHANGED <<stats.received, stats.accepted, stats.droppedData,
                        stats.droppedCritical>>
      BY <2>3 DEF PumpRefuses
    <3>2. Holding /\ ~Holding' /\ UNCHANGED <<control, dispatch, rankingGap>>
      BY <2>3 DEF PumpRefuses
    <3>3. /\ stats.received \in Nat /\ stats.accepted \in Nat /\ stats.refused \in Nat
          /\ stats.droppedData \in Nat /\ stats.droppedCritical \in Nat
      OBVIOUS
    <3> HIDE DEF Stats, Holding
    <3> QED BY <3>1, <3>2, <3>3 DEF control
  <2>4. CASE PumpAdmits
    <3>1. /\ stats'.accepted = stats.accepted + 1
          /\ UNCHANGED <<stats.received, stats.refused, stats.droppedData, stats.droppedCritical>>
      BY <2>4 DEF PumpAdmits
    <3>2. Holding /\ ~Holding' /\ UNCHANGED <<control, dispatch, rankingGap>>
      BY <2>4 DEF PumpAdmits
    <3>3. /\ stats.received \in Nat /\ stats.accepted \in Nat /\ stats.refused \in Nat
          /\ stats.droppedData \in Nat /\ stats.droppedCritical \in Nat
      OBVIOUS
    <3> HIDE DEF Stats, Holding
    <3> QED BY <3>1, <3>2, <3>3 DEF control
  <2>5. CASE PumpWaits
    BY <2>5 DEF PumpWaits, control, flow, counters
  <2>6. CASE PumpSheds
    BY <2>6, SMTT(60) DEF PumpSheds, control, flow, counters
  <2>7. CASE PumpGivesUp
    BY <2>7, SMTT(60) DEF PumpGivesUp, control, flow, counters
  <2>8. CASE PumpFindsNoWorker
    BY <2>8 DEF PumpFindsNoWorker, control, flow, counters
  <2>9. CASE PumpEnds
    BY <2>9 DEF PumpEnds, control, flow, counters
  <2> QED BY <1>3, <2>1, <2>2, <2>3, <2>4, <2>5, <2>6, <2>7, <2>8, <2>9 DEF PumpStep
<1>4. CASE DispatchStep
  <2>1. CASE TakeStale
    BY <2>1 DEF TakeStale, control, flow, counters
  <2>2. CASE TakeData
    BY <2>2 DEF TakeData, control, flow, counters
  <2>3. CASE FinishData
    BY <2>3 DEF FinishData, control, flow, counters
  <2>4. CASE TakeNotice
    BY <2>4 DEF TakeNotice, control, flow, counters
  <2>5. CASE TakeConnected
    BY <2>5 DEF TakeConnected, control, flow, counters
  <2>6. CASE OpensContext
    BY <2>6 DEF OpensContext, Finished, control, flow, counters
  <2>7. CASE PublishesConnected
    BY <2>7 DEF PublishesConnected, Finished, control, flow, counters
  <2>8. CASE TakeDisconnected
    BY <2>8 DEF TakeDisconnected, control, flow, counters
  <2>9. CASE PublishesDisconnected
    BY <2>9 DEF PublishesDisconnected, Finished, control, flow, counters
  <2>10. CASE DispatchEnds
    BY <2>10 DEF DispatchEnds, SenderGone, control, flow, counters
  <2>11. CASE DispatchCancelled
    BY <2>11 DEF DispatchCancelled, control, flow, counters
  <2> QED BY <1>4, <2>1, <2>2, <2>3, <2>4, <2>5, <2>6, <2>7, <2>8, <2>9, <2>10,
       <2>11 DEF DispatchStep
<1>5. CASE PersistStep
  <2>1. CASE PersistTakes
    BY <2>1 DEF PersistTakes, control, flow, counters
  <2>2. CASE PersistFinishes
    BY <2>2 DEF PersistFinishes, control, flow, counters
  <2>3. CASE PersistEnds
    BY <2>3 DEF PersistEnds, control, flow, counters
  <2>4. CASE PersistCancelled
    BY <2>4 DEF PersistCancelled, control, flow, counters
  <2> QED BY <1>5, <2>1, <2>2, <2>3, <2>4 DEF PersistStep
<1>6. CASE WorkerPanics
  BY <1>6 DEF WorkerPanics, CutOff, control, flow, counters
<1>7. CASE Ladder
  <2>1. CASE CloseAdmission
    BY <2>1 DEF CloseAdmission, control, flow, counters
  <2>2. CASE PumpJoined
    BY <2>2 DEF PumpJoined, control, flow, counters
  <2>3. CASE PumpDeadline
    BY <2>3 DEF PumpDeadline, control, flow, counters
  <2>4. CASE WorkerJoined
    BY <2>4 DEF WorkerJoined, control, flow, counters
  <2>5. CASE DrainDeadline
    BY <2>5 DEF DrainDeadline, control, flow, counters
  <2>6. CASE StopDeadline
    <3>1. ~updateSafe' /\ UNCHANGED rankingGap /\ stats' = Abandoned
      BY <2>6 DEF StopDeadline, control
    <3>2. stats \in Stats /\ stats.accepted = Accounted(stats)
      BY DEF EveryItemAccounted
    <3> HIDE DEF Stats
    <3> QED BY <3>1, <3>2, AbandonedAccounts
  <2>7. CASE EndSession
    BY <2>7 DEF EndSession, control, flow, counters
  <2> QED BY <1>7, <2>1, <2>2, <2>3, <2>4, <2>5, <2>6, <2>7 DEF Ladder
<1> QED BY <1>1, <1>2, <1>3, <1>4, <1>5, <1>6, <1>7 DEF Next, IngressStep

\* An event that passed the fence is no older than the context.
LEMMA FenceKept ==
  ASSUME IngressInv, Next
  PROVE  ContextIsCurrent' /\ NeverToANewerCreator'
<1> USE DEF IngressInv, TypeOK, IngressTypeOK, ContextIsCurrent, NeverToANewerCreator, Dispatch,
        WorkerNext, Ready, Item, Superseded
<1>1. CASE AnyEvent \/ AnyConnection
  BY <1>1 DEF AnyEvent, AnyConnection, ingressVars, session
<1>2. CASE Starts
  BY <1>2 DEF Starts, StartPump, SpawnTasks, KeepPump, KeepWorker, session
<1>3. CASE PumpStep
  BY <1>3 DEF PumpStep, PumpReceive, PumpLagged, PumpRefuses, PumpAdmits, PumpWaits, PumpSheds,
       PumpGivesUp,
         PumpFindsNoWorker, PumpEnds, session
<1>4. CASE DispatchStep
  <2>1. CASE TakeStale
    BY <2>1 DEF TakeStale, session
  <2>2. CASE TakeData
    <3>1. Item.generation >= sequence
      <4>1. Item \in Messages
        BY <2>2 DEF TakeData
      <4>2. Item.generation \in Int /\ sequence \in Int
        BY <4>1, TransportAssumption DEF Messages, Generations
      <4> HIDE DEF Item
      <4> QED BY <2>2, <4>2 DEF TakeData
    <3>2. UNCHANGED <<sequence, context>>
      BY <2>2 DEF TakeData
    <3>3. CASE UNCHANGED credited
      BY <3>2, <3>3
    <3>4. CASE /\ context # 0
               /\ credited' = credited
                              \union {[generation |-> Item.generation, context |-> context]}
      BY <3>1, <3>2, <3>4
    <3> QED BY <2>2, <3>3, <3>4 DEF TakeData
  <2>3. CASE FinishData
    BY <2>3 DEF FinishData, session
  <2>4. CASE TakeNotice
    BY <2>4 DEF TakeNotice, session
  <2>5. CASE TakeConnected
    BY <2>5 DEF TakeConnected, session
  <2>6. CASE OpensContext
    BY <2>6 DEF OpensContext, Finished, session
  <2>7. CASE PublishesConnected
    BY <2>7 DEF PublishesConnected, Finished, session
  <2>8. CASE TakeDisconnected
    BY <2>8 DEF TakeDisconnected, session
  <2>9. CASE PublishesDisconnected
    BY <2>9 DEF PublishesDisconnected, Finished, session
  <2>10. CASE DispatchEnds
    BY <2>10 DEF DispatchEnds, SenderGone, session
  <2>11. CASE DispatchCancelled
    BY <2>11 DEF DispatchCancelled, session
  <2> QED BY <1>4, <2>1, <2>2, <2>3, <2>4, <2>5, <2>6, <2>7, <2>8, <2>9, <2>10,
       <2>11 DEF DispatchStep
<1>5. CASE PersistStep
  BY <1>5 DEF PersistStep, PersistTakes, PersistFinishes, PersistEnds, PersistCancelled, session
<1>6. CASE WorkerPanics
  BY <1>6 DEF WorkerPanics, CutOff, session
<1>7. CASE Ladder
  <2>1. CASE CloseAdmission
    BY <2>1 DEF CloseAdmission, session
  <2>2. CASE PumpJoined
    BY <2>2 DEF PumpJoined, session
  <2>3. CASE PumpDeadline
    BY <2>3 DEF PumpDeadline, session
  <2>4. CASE WorkerJoined
    BY <2>4 DEF WorkerJoined, session
  <2>5. CASE DrainDeadline
    BY <2>5 DEF DrainDeadline, session
  <2>6. CASE StopDeadline
    BY <2>6 DEF StopDeadline, CutOff, session
  <2>7. CASE EndSession
    BY <2>7 DEF EndSession, session
  <2> QED BY <1>7, <2>1, <2>2, <2>3, <2>4, <2>5, <2>6, <2>7 DEF Ladder
<1> QED BY <1>1, <1>2, <1>3, <1>4, <1>5, <1>6, <1>7 DEF Next, IngressStep

-----------------------------------------------------------------------------
\* Sending keeps the channel a bounded sequence of messages.
LEMMA SendTyped ==
  ASSUME channel \in Seq(Messages), missed \in BOOLEAN, listening \in BOOLEAN,
         NEW ms \in Seq(Messages), Send(ms)
  PROVE  channel' \in Seq(Messages) /\ missed' \in BOOLEAN /\ listening' \in BOOLEAN
<1>1. CASE ~listening
  BY <1>1 DEF Send
<1>2. CASE listening
  <2> DEFINE all == channel \o ms
  <2>1. all \in Seq(Messages)
    OBVIOUS
  <2>2. channel' = Newest(all, ChannelSize) /\ missed' \in BOOLEAN /\ listening' = listening
    BY <1>2 DEF Send
  <2> HIDE DEF all
  <2>3. Newest(all, ChannelSize) \in Seq(Messages)
    <3>1. CASE Len(all) <= ChannelSize
      BY <2>1, <3>1 DEF Newest
    <3>2. CASE ~(Len(all) <= ChannelSize)
      <4>1. /\ Len(all) - ChannelSize + 1 \in 1 .. Len(all)
            /\ Len(all) \in 1 .. Len(all)
        BY <2>1, <3>2, TransportAssumption
      <4>2. SubSeq(all, Len(all) - ChannelSize + 1, Len(all)) \in Seq(Messages)
        BY <2>1, <4>1, SubSeqProperties
      <4> QED BY <3>2, <4>2 DEF Newest
    <3> QED BY <3>1, <3>2
  <2> QED BY <2>2, <2>3
<1> QED BY <1>1, <1>2

\* The transport: snapshot and channel.
LEMMA TransportKept ==
  ASSUME IngressInv, Next
  PROVE  TransportTypeOK'
<1> USE DEF TransportTypeOK
<1>1. TransportTypeOK
  BY DEF IngressInv, TypeOK
<1>2. CASE AnyEvent
  <2>1. PICK g \in 1 .. snapshot.generation, kind \in DataKinds \union LifecycleKinds :
          Send(<<Message(g, kind)>>)
    BY <1>2 DEF AnyEvent
  <2>2. Message(g, kind) \in Messages
    BY <1>1, TransportAssumption DEF Message, Messages, Snapshots, Generations
  <2> DEFINE ms == <<Message(g, kind)>>
  <2>3. ms \in Seq(Messages) /\ Send(ms)
    BY <2>1, <2>2
  <2> HIDE DEF ms
  <2>4. channel' \in Seq(Messages) /\ missed' \in BOOLEAN /\ listening' \in BOOLEAN
    BY <1>1, <2>3, SendTyped
  <2> QED BY <1>1, <1>2, <2>4 DEF AnyEvent
<1>3. CASE AnyConnection
  BY <1>1, <1>3, TransportAssumption DEF AnyConnection, Advance, Snapshots, Generations, States
<1>4. CASE IngressStep
  <2>1. UNCHANGED <<snapshot, sent>>
    BY <1>4 DEF IngressStep, Starts, StartPump, SpawnTasks, KeepPump, KeepWorker, PumpStep,
         PumpReceive, PumpLagged, PumpRefuses,
         PumpAdmits,
       PumpWaits, PumpSheds, PumpGivesUp, PumpFindsNoWorker, PumpEnds, DispatchStep, TakeStale,
       TakeData, FinishData, TakeNotice, TakeConnected, OpensContext, PublishesConnected,
       TakeDisconnected, PublishesDisconnected, DispatchEnds, DispatchCancelled, PersistStep,
       PersistTakes, PersistFinishes, PersistEnds, PersistCancelled, WorkerPanics, Ladder,
       CloseAdmission, PumpJoined, PumpDeadline, WorkerJoined, DrainDeadline, StopDeadline,
       EndSession, transport
  <2>2. \/ UNCHANGED <<channel, missed, listening>> \/ Receive \/ Lagged \/ Unsubscribe
        \/ Subscribe /\ UNCHANGED <<channel, missed>>
    <3>1. CASE Starts
      BY <3>1, StartMoves DEF transport
    <3>2. CASE PumpStep
      BY <3>2 DEF PumpStep, PumpReceive, PumpLagged, PumpRefuses, PumpAdmits, PumpWaits,
           PumpSheds,
         PumpGivesUp, PumpFindsNoWorker, PumpEnds, transport
    <3>3. CASE DispatchStep
      BY <3>3 DEF DispatchStep, TakeStale, TakeData, FinishData, TakeNotice, TakeConnected,
         OpensContext, PublishesConnected, TakeDisconnected, PublishesDisconnected, DispatchEnds,
         DispatchCancelled, transport
    <3>4. CASE PersistStep \/ WorkerPanics
      BY <3>4 DEF PersistStep, PersistTakes, PersistFinishes, PersistEnds, PersistCancelled,
         WorkerPanics, transport
    <3>5. CASE Ladder
      BY <3>5 DEF Ladder, CloseAdmission, PumpJoined, PumpDeadline, WorkerJoined, DrainDeadline,
         StopDeadline, EndSession, transport
    <3> QED BY <1>4, <3>1, <3>2, <3>3, <3>4, <3>5 DEF IngressStep
  <2>3. channel' \in Seq(Messages)
    <3>1. CASE Receive
      BY <1>1, <3>1 DEF Receive
    <3>2. CASE channel' = <<>>
      BY <3>2
    <3>3. CASE UNCHANGED channel
      BY <1>1, <3>3
    <3> QED BY <2>2, <3>1, <3>2, <3>3 DEF Lagged, Unsubscribe
  <2>4. missed' \in BOOLEAN /\ listening' \in BOOLEAN
    BY <1>1, <2>2 DEF Receive, Lagged, Unsubscribe, Subscribe
  <2> QED BY <1>1, <2>1, <2>3, <2>4
<1> QED BY <1>2, <1>3, <1>4 DEF Next

\* Every change of the counters leaves natural numbers.
LEMMA StatsMoves ==
  ASSUME NEW s \in Stats
  PROVE  /\ s.queued > 0 =>
              /\ [s EXCEPT !.queued = @ - 1, !.stale = @ + 1] \in Stats
              /\ [s EXCEPT !.queued = @ - 1, !.processed = @ + 1] \in Stats
              /\ [s EXCEPT !.queued = @ - 1, !.inFlight = @ + 1] \in Stats
         /\ s.inFlight > 0 => [s EXCEPT !.inFlight = @ - 1, !.processed = @ + 1] \in Stats
         /\ [s EXCEPT !.accepted = @ + 1, !.queued = @ + 1] \in Stats
         /\ [s EXCEPT !.received = @ + 1] \in Stats /\ [s EXCEPT !.lagged = @ + 1] \in Stats
         /\ [s EXCEPT !.refused = @ + 1] \in Stats /\ [s EXCEPT !.droppedData = @ + 1] \in Stats
         /\ [s EXCEPT !.droppedCritical = @ + 1] \in Stats
<1>1. /\ s.stale + 1 \in Nat /\ s.processed + 1 \in Nat /\ s.inFlight + 1 \in Nat
      /\ s.accepted + 1 \in Nat /\ s.queued + 1 \in Nat
      /\ s.received + 1 \in Nat /\ s.lagged + 1 \in Nat /\ s.refused + 1 \in Nat
      /\ s.droppedData + 1 \in Nat /\ s.droppedCritical + 1 \in Nat
      /\ s.queued > 0 => s.queued - 1 \in Nat
      /\ s.inFlight > 0 => s.inFlight - 1 \in Nat
  BY SMT DEF Stats
<1> QED BY <1>1, Zenon DEF Stats

\* The counters of LiveIngressStats stay natural numbers.
LEMMA StatsTyped ==
  ASSUME IngressInv, Next
  PROVE  stats' \in Stats
<1>1. /\ stats \in Stats /\ queue \in Seq(Messages) /\ EveryItemAccounted
  BY DEF IngressInv, TypeOK, IngressTypeOK
<1>2. /\ dispatch.step \in Handling => stats.inFlight > 0
      /\ dispatch.step = "receiving" /\ queue # <<>> => stats.queued > 0
  BY <1>1 DEF EveryItemAccounted, Handling
<1>3. CASE AnyEvent \/ AnyConnection \/ Starts \/ PersistStep \/ WorkerPanics
  BY <1>1, <1>3 DEF AnyEvent, AnyConnection, Starts, StartPump, SpawnTasks, KeepPump, KeepWorker,
       PersistStep, PersistTakes,
       PersistFinishes,
     PersistEnds, PersistCancelled, WorkerPanics, ingressVars, counters
<1>4. CASE PumpStep
  <2>1. CASE PumpWaits \/ PumpFindsNoWorker \/ PumpEnds
    BY <1>1, <2>1 DEF PumpWaits, PumpFindsNoWorker, PumpEnds, counters
  <2>2. CASE ~(PumpWaits \/ PumpFindsNoWorker \/ PumpEnds)
    BY <1>1, <1>4, <2>2, StatsMoves DEF PumpStep, PumpReceive, PumpLagged, PumpRefuses,
         PumpAdmits,
       PumpSheds, PumpGivesUp
  <2> QED BY <2>1, <2>2
<1>5. CASE DispatchStep
  <2>1. CASE Ready /\ (TakeStale \/ TakeData \/ TakeNotice \/ TakeConnected \/ TakeDisconnected)
    BY <1>1, <1>2, <2>1, StatsMoves DEF Ready, Taken, TakeStale, TakeData, TakeNotice,
         TakeConnected,
       TakeDisconnected
  <2>2. CASE FinishData \/ OpensContext \/ PublishesConnected \/ PublishesDisconnected
    BY <1>1, <1>2, <2>2, StatsMoves DEF FinishData, OpensContext, PublishesConnected,
       PublishesDisconnected, Finished, Processed, Handling
  <2>3. CASE DispatchEnds
    BY <1>1, <2>3 DEF DispatchEnds, counters
  <2>4. CASE DispatchCancelled
    <3>1. stats.queued - Len(queue) \in Nat /\ stats.cancelled + Len(queue) \in Nat
      BY <1>1, <2>4 DEF DispatchCancelled, EveryItemAccounted, Stats
    <3> QED BY <1>1, <2>4, <3>1, Zenon DEF DispatchCancelled, Stats
  <2> QED BY <1>5, <2>1, <2>2, <2>3, <2>4 DEF DispatchStep, TakeStale, TakeData, TakeNotice,
             TakeConnected, TakeDisconnected
<1>6. CASE Ladder
  <2>1. CASE StopDeadline
    BY <1>1, <2>1, AbandonedAccounts DEF StopDeadline, EveryItemAccounted
  <2>2. CASE Ladder /\ ~StopDeadline
    BY <1>1, <2>2 DEF Ladder, CloseAdmission, PumpJoined, PumpDeadline, WorkerJoined,
         DrainDeadline,
       EndSession, counters
  <2> QED BY <1>6, <2>1, <2>2
<1> QED BY <1>3, <1>4, <1>5, <1>6 DEF Next, IngressStep

\* The same for effects: what CutOff, the guards and the loop write.
LEMMA EffectStatsTyped ==
  ASSUME IngressInv, Next
  PROVE  effectStats' \in EffectStats /\ effects' \in Nat
<1>1. effectStats \in EffectStats /\ effects \in Nat /\ EveryEffectAccounted
  BY DEF IngressInv, TypeOK, IngressTypeOK
<1>2. /\ effectStats.queued = effects
      /\ persist = "applying" => effectStats.inFlight > 0
  BY <1>1 DEF EveryEffectAccounted
<1>3. CASE AnyEvent \/ AnyConnection \/ Starts \/ PumpStep
  BY <1>1, <1>3 DEF AnyEvent, AnyConnection, Starts, StartPump, SpawnTasks, KeepPump, KeepWorker,
       PumpStep, PumpReceive, PumpLagged,
     PumpRefuses, PumpAdmits, PumpWaits, PumpSheds, PumpGivesUp, PumpFindsNoWorker, PumpEnds,
     ingressVars, flow, counters
<1>4. CASE DispatchStep
  <2>1. CASE FinishData
    <3>1. /\ effectStats.queued + 1 \in Nat /\ effectStats.rejected + 1 \in Nat
          /\ effectStats.dropped + 1 \in Nat /\ effects + 1 \in Nat
      BY <1>1 DEF EffectStats
    <3>2. /\ [effectStats EXCEPT !.queued = @ + 1] \in EffectStats
          /\ [effectStats EXCEPT !.rejected = @ + 1, !.dropped = @ + 1] \in EffectStats
      BY <1>1, <3>1, Zenon DEF EffectStats
    <3> QED BY <1>1, <2>1, <3>1, <3>2 DEF FinishData
  <2>2. CASE DispatchStep /\ ~FinishData
    BY <1>1, <2>2 DEF DispatchStep, TakeStale, TakeData, TakeNotice, TakeConnected, OpensContext,
       PublishesConnected, TakeDisconnected, PublishesDisconnected, DispatchEnds,
       DispatchCancelled, counters
  <2> QED BY <1>4, <2>1, <2>2
<1>5. Released \in EffectStats
  <2>1. effectStats.dropped + effectStats.queued \in Nat
        /\ effectStats.cancelled + effectStats.queued \in Nat
    BY <1>1 DEF EffectStats
  <2> QED BY <1>1, <2>1, 0 \in Nat, Zenon DEF Released, EffectStats
<1>6. CASE PersistStep
  <2>1. /\ effects > 0 => /\ effects - 1 \in Nat /\ effectStats.queued - 1 \in Nat
        /\ persist = "applying" => effectStats.inFlight - 1 \in Nat
        /\ effectStats.inFlight + 1 \in Nat /\ effectStats.processed + 1 \in Nat
    BY <1>1, <1>2 DEF EffectStats
  <2>2. CASE PersistTakes
    BY <1>1, <2>1, <2>2, Zenon DEF PersistTakes, EffectStats
  <2>3. CASE PersistFinishes
    BY <1>1, <2>1, <2>3, Zenon DEF PersistFinishes, EffectStats
  <2>4. CASE PersistEnds \/ PersistCancelled
    BY <1>1, <1>5, <2>4 DEF PersistEnds, PersistCancelled, counters
  <2> QED BY <1>6, <2>2, <2>3, <2>4 DEF PersistStep
<1>7. ASSUME CutOff PROVE effectStats' \in EffectStats /\ effects' \in Nat
  <2> DEFINE lost == IF persist = "applying" THEN 1 ELSE 0
  <2>1. /\ Released.inFlight = effectStats.inFlight
        /\ Released.abandoned \in Nat /\ Released.dropped \in Nat
    BY <1>1, <1>5 DEF Released, EffectStats
  <2>2. /\ Released.inFlight - lost \in Nat /\ Released.abandoned + lost \in Nat
        /\ Released.dropped + lost \in Nat
    BY <1>1, <1>2, <2>1 DEF EffectStats
  <2>3. effectStats' = [Released EXCEPT !.inFlight = @ - lost, !.abandoned = @ + lost,
                                        !.dropped = @ + lost]
    BY <1>7 DEF CutOff
  <2> HIDE DEF lost
  <2>4. effectStats' \in EffectStats
    BY <1>5, <2>2, <2>3, Zenon DEF EffectStats
  <2> QED BY <1>7, <2>4 DEF CutOff
<1>8. CASE WorkerPanics \/ Ladder
  <2>1. CASE WorkerPanics \/ StopDeadline
    BY <1>7, <2>1 DEF WorkerPanics, StopDeadline
  <2>2. CASE Ladder /\ ~StopDeadline
    BY <1>1, <2>2 DEF Ladder, CloseAdmission, PumpJoined, PumpDeadline, WorkerJoined,
         DrainDeadline,
       EndSession, flow, counters
  <2> QED BY <1>8, <2>1, <2>2
<1> QED BY <1>3, <1>4, <1>6, <1>8 DEF Next, IngressStep

\* Where the tasks are, and what they hold.
LEMMA FlowTyped ==
  ASSUME IngressInv, Next
  PROVE  /\ pump' \in [step : {"off", "receiving", "admitting", "waiting", "ended"},
                       item : Messages]
         /\ queue' \in Seq(Messages)
         /\ dispatch' \in [step : Handling \union {"off", "receiving", "ended", "dead"},
                           item : Messages]
         /\ persist' \in {"off", "receiving", "applying", "ended"}
<1>1. /\ pump \in [step : {"off", "receiving", "admitting", "waiting", "ended"}, item : Messages]
      /\ dispatch \in [step : Handling \union {"off", "receiving", "ended", "dead"},
                       item : Messages]
      /\ persist \in {"off", "receiving", "applying", "ended"}
  BY DEF IngressInv, TypeOK, IngressTypeOK
<1>2. /\ queue \in Seq(Messages) /\ channel \in Seq(Messages)
      /\ snapshot.generation \in {0} \union Generations
  BY DEF IngressInv, TypeOK, IngressTypeOK, TransportTypeOK, Snapshots
<1>3. NoMessage \in Messages
  BY DEF NoMessage, Message, Messages, LifecycleKinds
<1>4. CASE UNCHANGED flow
  BY <1>1, <1>2, <1>4 DEF flow
<1>5. CASE Starts
  <2>1. CASE UNCHANGED flow
    BY <1>4, <2>1
  <2>2. CASE /\ pump' = Pump("receiving", NoMessage) /\ UNCHANGED queue
             /\ dispatch' = Dispatch("receiving", NoMessage) /\ persist' = "receiving"
    BY <1>2, <1>3, <2>2 DEF Pump, Dispatch
  <2> QED BY <1>5, <2>1, <2>2, StartMoves
<1>6. CASE PumpStep
  <2>1. channel # <<>> => Head(channel) \in Messages
    BY <1>2
  <2>2. pump.item \in Messages
    BY <1>1
  <2>3. UNCHANGED queue \/ queue' = Append(queue, pump.item)
    BY <1>6 DEF PumpStep, PumpReceive, PumpLagged, PumpRefuses, PumpAdmits, PumpWaits, PumpSheds,
       PumpGivesUp, PumpFindsNoWorker, PumpEnds, flow
  <2>4. UNCHANGED <<dispatch, persist>>
    BY <1>6 DEF PumpStep, PumpReceive, PumpLagged, PumpRefuses, PumpAdmits, PumpWaits, PumpSheds,
       PumpGivesUp, PumpFindsNoWorker, PumpEnds, flow
  <2>5. \/ UNCHANGED pump \/ pump' = PumpNext \/ pump' = Pump("ended", NoMessage)
        \/ pump' = Pump("waiting", pump.item)
        \/ channel # <<>> /\ pump' = Pump("admitting", Head(channel))
    BY <1>6 DEF PumpStep, PumpReceive, Receive, PumpLagged, PumpRefuses, PumpAdmits, PumpWaits,
       PumpSheds, PumpGivesUp, PumpFindsNoWorker, PumpEnds, flow
  <2> QED BY <1>1, <1>2, <1>3, <2>1, <2>2, <2>3, <2>4, <2>5, SMTT(60) DEF Pump, PumpNext
<1>7. CASE DispatchStep
  <2>1. UNCHANGED <<pump, persist>>
    BY <1>7 DEF DispatchStep, TakeStale, TakeData, FinishData, TakeNotice, TakeConnected,
       OpensContext, PublishesConnected, TakeDisconnected, PublishesDisconnected, DispatchEnds,
       DispatchCancelled
  <2>2. UNCHANGED queue \/ queue' = <<>> \/ (queue # <<>> /\ queue' = Tail(queue))
    BY <1>7 DEF DispatchStep, Ready, TakeStale, TakeData, FinishData, TakeNotice, TakeConnected,
       OpensContext, PublishesConnected, TakeDisconnected, PublishesDisconnected, DispatchEnds,
       DispatchCancelled
  <2>3. queue' \in Seq(Messages)
    <3>1. CASE queue # <<>> /\ queue' = Tail(queue)
      BY <1>2, <3>1
    <3>2. CASE UNCHANGED queue
      BY <1>2, <3>2
    <3>3. CASE queue' = <<>>
      BY <3>3
    <3> QED BY <2>2, <3>1, <3>2, <3>3
  <2>4. queue # <<>> => /\ Item \in Messages
                        /\ Message(snapshot.generation, Item.kind) \in Messages
    <3>1. queue # <<>> => Item \in Messages
      BY <1>2 DEF Item
    <3> QED BY <1>2, <3>1 DEF Message, Messages
  <2>5. \/ UNCHANGED dispatch \/ dispatch' = WorkerNext
        \/ dispatch' = Dispatch("ended", NoMessage)
        \/ dispatch' = Dispatch("opening", dispatch.item)
        \/ /\ queue # <<>>
           /\ \/ dispatch' = Dispatch("routing", Item) \/ dispatch' = Dispatch("closing", Item)
              \/ dispatch' = Dispatch("ending", Message(snapshot.generation, Item.kind))
    BY <1>7 DEF DispatchStep, Ready, TakeStale, TakeData, FinishData, TakeNotice, TakeConnected,
       OpensContext, PublishesConnected, TakeDisconnected, PublishesDisconnected, DispatchEnds,
       DispatchCancelled, Finished
  <2>6. dispatch.item \in Messages
    BY <1>1
  <2> QED BY <1>1, <1>3, <2>1, <2>3, <2>4, <2>5, <2>6 DEF Dispatch, WorkerNext, Handling
<1>8. CASE PersistStep
  BY <1>1, <1>2, <1>8 DEF PersistStep, PersistTakes, PersistFinishes, PersistEnds,
       PersistCancelled
<1>9. CASE WorkerPanics \/ StopDeadline
  <2>1. /\ dispatch' = Dispatch("dead", NoMessage) /\ persist' = "ended" /\ queue' = <<>>
        /\ UNCHANGED pump
    BY <1>9 DEF WorkerPanics, StopDeadline, CutOff
  <2> QED BY <1>1, <1>3, <2>1 DEF Dispatch
<1>10. CASE PumpDeadline
  BY <1>1, <1>2, <1>3, <1>10 DEF PumpDeadline, Pump
<1> QED BY <1>4, <1>5, <1>6, <1>7, <1>8, <1>9, <1>10 DEF Next, IngressStep, AnyEvent,
     AnyConnection,
        Ladder, CloseAdmission, PumpJoined, WorkerJoined, DrainDeadline, EndSession, ingressVars

\* The rest of the type invariant, and all of it.
LEMMA TypeKept ==
  ASSUME IngressInv, Next
  PROVE  TypeOK'
<1>1. /\ IngressTypeOK /\ TransportTypeOK
  BY DEF IngressInv, TypeOK
<1>2. /\ admission' \in BOOLEAN /\ emergency' \in BOOLEAN /\ updateSafe' \in BOOLEAN
      /\ lifecycle' \in Running .. Stopped
      /\ ladder' \in {"running", "pump", "drain", "stop", "stopped", "left"}
  <2> USE <1>1 DEF IngressTypeOK, LifecycleAtLeast, Running, StoppingAdmission, Draining, Stopped,
          control
  <2>1. CASE AnyEvent \/ AnyConnection \/ Starts \/ PumpStep
    BY <2>1 DEF AnyEvent, AnyConnection, ingressVars, Starts, StartPump, SpawnTasks, KeepPump,
         KeepWorker, PumpStep, PumpReceive,
         PumpLagged,
       PumpRefuses, PumpAdmits, PumpWaits, PumpSheds, PumpGivesUp, PumpFindsNoWorker, PumpEnds
  <2>2. CASE DispatchStep
    BY <2>2 DEF DispatchStep, TakeStale, TakeData, FinishData, TakeNotice, TakeConnected,
       OpensContext, PublishesConnected, TakeDisconnected, PublishesDisconnected, DispatchEnds,
       DispatchCancelled
  <2>3. CASE PersistStep \/ WorkerPanics
    BY <2>3 DEF PersistStep, PersistTakes, PersistFinishes, PersistEnds, PersistCancelled,
       WorkerPanics
  <2>4. CASE Ladder
    <3>1. CASE CloseAdmission
      BY <3>1 DEF CloseAdmission
    <3>2. CASE PumpJoined
      BY <3>2 DEF PumpJoined
    <3>3. CASE PumpDeadline
      <4>1. /\ UNCHANGED <<admission, emergency>> /\ updateSafe' = FALSE /\ ladder' = "drain"
            /\ lifecycle' \in {lifecycle, 2}
        BY <3>3 DEF PumpDeadline
      <4>2. lifecycle' \in Running .. Stopped
        BY <4>1
      <4>3. admission' \in BOOLEAN /\ emergency' \in BOOLEAN /\ updateSafe' \in BOOLEAN
        BY <4>1, Zenon
      <4> QED BY <4>1, <4>2, <4>3
    <3>4. CASE WorkerJoined
      BY <3>4 DEF WorkerJoined
    <3>5. CASE DrainDeadline
      BY <3>5 DEF DrainDeadline
    <3>6. CASE StopDeadline
      BY <3>6 DEF StopDeadline
    <3>7. CASE EndSession
      BY <3>7 DEF EndSession
    <3> QED BY <2>4, <3>1, <3>2, <3>3, <3>4, <3>5, <3>6, <3>7 DEF Ladder
  <2> QED BY <2>1, <2>2, <2>3, <2>4 DEF Next, IngressStep
<1>3. /\ rankingGap' \in BOOLEAN /\ prepared' \in Nat
  <2> USE <1>1 DEF IngressTypeOK, counters
  <2>1. CASE AnyEvent \/ AnyConnection \/ Starts \/ PumpStep
    BY <2>1 DEF AnyEvent, AnyConnection, ingressVars, Starts, StartPump, SpawnTasks, KeepPump,
         KeepWorker, PumpStep, PumpReceive,
         PumpLagged,
       PumpRefuses, PumpAdmits, PumpWaits, PumpSheds, PumpGivesUp, PumpFindsNoWorker, PumpEnds
  <2>2. CASE DispatchStep
    BY <2>2 DEF DispatchStep, TakeStale, TakeData, FinishData, TakeNotice, TakeConnected,
       OpensContext, PublishesConnected, TakeDisconnected, PublishesDisconnected, DispatchEnds,
       DispatchCancelled
  <2>3. CASE PersistStep \/ WorkerPanics
    BY <2>3 DEF PersistStep, PersistTakes, PersistFinishes, PersistEnds, PersistCancelled,
       WorkerPanics
  <2>4. CASE Ladder
    BY <2>4 DEF Ladder, CloseAdmission, PumpJoined, PumpDeadline, WorkerJoined, DrainDeadline,
       StopDeadline, EndSession
  <2> QED BY <2>1, <2>2, <2>3, <2>4 DEF Next, IngressStep
<1>4. /\ {sequence, context, topic}' \subseteq {0} \union Generations
      /\ credited' \subseteq [generation : {0} \union Generations, context : Generations]
  <2>1. queue # <<>> => Item.generation \in {0} \union Generations
    <3>1. queue # <<>> => Item \in Messages
      BY <1>1 DEF IngressTypeOK, Item
    <3> QED BY <3>1 DEF Messages
  <2>2. CASE UNCHANGED session
    BY <1>1, <2>2 DEF IngressTypeOK, session
  <2>3. CASE TakeData
    <3>1. queue # <<>> /\ UNCHANGED <<sequence, context, topic>>
      BY <2>3 DEF TakeData, Ready
    <3>2. CASE UNCHANGED credited
      BY <1>1, <3>1, <3>2 DEF IngressTypeOK
    <3>3. CASE /\ context # 0
               /\ credited' = credited
                              \union {[generation |-> Item.generation, context |-> context]}
      BY <1>1, <2>1, <3>1, <3>3 DEF IngressTypeOK
    <3> QED BY <2>3, <3>2, <3>3 DEF TakeData
  <2>4. CASE TakeConnected
    BY <1>1, <2>1, <2>4 DEF IngressTypeOK, TakeConnected, Ready
  <2>5. CASE OpensContext \/ PublishesConnected \/ TakeDisconnected \/ PublishesDisconnected
    BY <1>1, <2>5 DEF IngressTypeOK, OpensContext, PublishesConnected, TakeDisconnected,
       PublishesDisconnected
  <2>6. CASE EndSession
    BY <1>1, <2>6 DEF IngressTypeOK, EndSession
  <2>7. CASE AnyEvent \/ AnyConnection \/ Starts \/ PumpStep \/ PersistStep \/ WorkerPanics
    BY <2>2, <2>7 DEF AnyEvent, AnyConnection, ingressVars, Starts, StartPump, SpawnTasks,
         KeepPump, KeepWorker, PumpStep, PumpReceive,
       PumpLagged, PumpRefuses, PumpAdmits, PumpWaits, PumpSheds, PumpGivesUp, PumpFindsNoWorker,
       PumpEnds, PersistStep, PersistTakes, PersistFinishes, PersistEnds, PersistCancelled,
       WorkerPanics
  <2>8. CASE TakeStale \/ FinishData \/ TakeNotice \/ DispatchEnds \/ DispatchCancelled
    BY <2>2, <2>8 DEF TakeStale, FinishData, TakeNotice, DispatchEnds, DispatchCancelled
  <2>9. CASE Ladder /\ ~EndSession
    BY <2>2, <2>9 DEF Ladder, CloseAdmission, PumpJoined, PumpDeadline, WorkerJoined,
         DrainDeadline,
       StopDeadline
  <2> QED BY <2>3, <2>4, <2>5, <2>6, <2>7, <2>8, <2>9 DEF Next, IngressStep, DispatchStep
<1>5. /\ starter' \in {"no", "begun", "spawned", "pumpKept", "kept"}
      /\ orphaned' \in BOOLEAN
  <2>1. /\ starter \in {"no", "begun", "spawned", "pumpKept", "kept"}
        /\ orphaned \in BOOLEAN
    BY <1>1 DEF IngressTypeOK
  <2>2. CASE UNCHANGED startup
    BY <2>1, <2>2 DEF startup
  <2>3. CASE Starts
    BY <2>1, <2>3, StartMoves
  <2>4. CASE PumpJoined \/ WorkerJoined
    BY <2>1, <2>4 DEF PumpJoined, WorkerJoined, Passes
  <2>5. CASE AnyEvent \/ AnyConnection \/ PumpStep
    BY <2>2, <2>5 DEF AnyEvent, AnyConnection, ingressVars, control, PumpStep, PumpReceive,
       PumpLagged, PumpRefuses, PumpAdmits, PumpWaits, PumpSheds, PumpGivesUp, PumpFindsNoWorker,
       PumpEnds
  <2>6. CASE DispatchStep
    BY <2>2, <2>6 DEF DispatchStep, control, TakeStale, TakeData, FinishData, TakeNotice,
       TakeConnected, OpensContext, PublishesConnected, TakeDisconnected, PublishesDisconnected,
       DispatchEnds, DispatchCancelled
  <2>7. CASE PersistStep \/ WorkerPanics
    BY <2>2, <2>7 DEF PersistStep, PersistTakes, PersistFinishes, PersistEnds, PersistCancelled,
       WorkerPanics, control
  <2>8. CASE Ladder /\ ~(PumpJoined \/ WorkerJoined)
    BY <2>2, <2>8 DEF Ladder, CloseAdmission, PumpDeadline, DrainDeadline, StopDeadline,
         EndSession
  <2> QED BY <2>3, <2>4, <2>5, <2>6, <2>7, <2>8 DEF Next, IngressStep
<1>6. IngressTypeOK'
  BY <1>2, <1>3, <1>4, <1>5, StatsTyped, EffectStatsTyped, FlowTyped DEF IngressTypeOK
<1> QED BY <1>6, TransportKept DEF TypeOK

-----------------------------------------------------------------------------
\* The invariant is inductive.
THEOREM IngressInvariant == Spec => []IngressInv
<1>1. IngressInv /\ UNCHANGED vars => IngressInv'
  BY DEF vars, transport, ingressVars, startup, PumpKept, WorkerKept, control, flow, session,
       counters, IngressInv, TypeOK,
     TransportTypeOK, IngressTypeOK, TaskOrder, LadderOrder, Emptied, ReceiptAccounted,
     EveryItemAccounted, EveryEffectAccounted, Accounted, StoppedIsDead, ContextIsCurrent,
     NeverToANewerCreator, WorkerGone, WorkerEnded, HasStopped, Holding
<1>2. IngressInv /\ [Next]_vars => IngressInv'
  BY <1>1, OrderKept, StoppedKept, EmptiedKept, ItemsKept, EffectsKept, ReceiptKept, FenceKept,
     TypeKept DEF IngressInv
<1> QED BY InitIngressInv, <1>2, PTL DEF Spec

\* Type correctness of the pipeline.
THEOREM IngressTypeCorrect == Spec => []TypeOK
BY IngressInvariant, PTL DEF IngressInv

\* The accounting invariant of ingress.rs: no admitted item is counted twice or
\* forgotten, for any queue size and any deadlines.
THEOREM ItemsAccounted == Spec => []EveryItemAccounted
BY IngressInvariant, PTL DEF IngressInv

\* Every effect ends in one counter, and every loss is visible in dropped.
THEOREM EffectsAccounted == Spec => []EveryEffectAccounted
BY IngressInvariant, PTL DEF IngressInv

\* No ingress task is alive once the life cycle says Stopped, unless the stop
\* overtook the start and found no handle to wait for.
THEOREM NoTaskOutlivesStopped == Spec => []StoppedIsDead
BY IngressInvariant, PTL DEF IngressInv

\* The generation fence never credits an old event to a newer creator.
THEOREM FenceHolds == Spec => []NeverToANewerCreator
BY IngressInvariant, PTL DEF IngressInv

\* The invariant says so of every stop that found the handles.
LEMMA StopDrained == IngressInv => SafeStopDrained
<1> SUFFICES ASSUME IngressInv, HasStopped, updateSafe, ~orphaned PROVE SafeStopDrained
  BY DEF SafeStopDrained
<1>1. ~emergency /\ dispatch.step \in {"off", "ended"} /\ persist \in {"off", "ended"}
  BY DEF IngressInv, TaskOrder, LadderOrder, WorkerEnded
<1>2. /\ queue = <<>> /\ effects = 0
      /\ stats.cancelled = 0 /\ stats.abandoned = 0
      /\ effectStats.cancelled = 0 /\ effectStats.abandoned = 0
  BY <1>1 DEF IngressInv, Emptied
<1>3. stats \in Stats /\ effectStats \in EffectStats /\ prepared \in Nat
  BY DEF IngressInv, TypeOK, IngressTypeOK
<1>4. stats.queued = 0 /\ stats.inFlight = 0 /\ stats.accepted = Accounted(stats)
  BY <1>1, <1>2 DEF IngressInv, EveryItemAccounted, Handling
<1>5. stats.accepted = stats.processed + stats.stale
  BY <1>2, <1>3, <1>4 DEF Accounted, Stats
<1>6. prepared = effectStats.processed + effectStats.rejected
  BY <1>1, <1>2, <1>3 DEF IngressInv, EveryEffectAccounted, EffectStats
<1> QED BY <1>5, <1>6 DEF SafeStopDrained

\* A stop that allows an update, and found the handles, has drained the queue
\* and the effects.
THEOREM SafeStops == Spec => []SafeStopDrained
BY StopDrained, IngressInvariant, PTL

\* Whatever was not handled left a mark.
LEMMA StopLostNothing == IngressInv => CleanStopLostNothing
<1> SUFFICES ASSUME IngressInv, HasStopped, updateSafe, ~orphaned, Complete, ~rankingGap
             PROVE  stats.received = stats.processed + stats.stale
  BY DEF CleanStopLostNothing
<1>1. dispatch.step # "dead" /\ ~Holding
  BY DEF IngressInv, TaskOrder, LadderOrder, HasStopped, Holding
<1>2. stats \in Stats
  BY DEF IngressInv, TypeOK, IngressTypeOK
<1>3. stats.droppedData = 0 /\ stats.droppedCritical = 0 /\ stats.refused = 0
  BY <1>2 DEF IngressInv, ReceiptAccounted, Complete, Stats
<1>4. stats.received = stats.accepted
  BY <1>1, <1>2, <1>3 DEF IngressInv, ReceiptAccounted, Stats
<1>5. stats.cancelled = 0 /\ stats.abandoned = 0 /\ stats.queued = 0 /\ stats.inFlight = 0
  BY <1>1 DEF Complete, IngressInv, TaskOrder, LadderOrder, Emptied, EveryItemAccounted,
              WorkerEnded, Handling
<1>6. stats.accepted = Accounted(stats)
  BY DEF IngressInv, EveryItemAccounted
<1> QED BY <1>2, <1>4, <1>5, <1>6 DEF Accounted, Stats

\* A stop that allows an update, found the handles and leaves clean checkpoints
\* lost nothing that was received.
THEOREM CleanStops == Spec => []CleanStopLostNothing
BY StopLostNothing, IngressInvariant, PTL
=============================================================================
