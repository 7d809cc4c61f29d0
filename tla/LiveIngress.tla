----------------------------- MODULE LiveIngress -----------------------------
(***************************************************************************)
(* The LIVE pipeline of one AppCore: the pump that admits stamped events   *)
(* to the bounded queue, the ordered worker (dispatch and, on the same     *)
(* task, the persistence of effects) and the ladder stop_live_ingress      *)
(* climbs down at shutdown.  The code between two awaits is one step.      *)
(* Here the transport may send anything; LivePipeline puts the real        *)
(* connection in its place.                                                *)
(***************************************************************************)
EXTENDS LiveTransport

CONSTANTS
  QueueSize,     \* INGRESS_QUEUE_CAPACITY
  EffectsSize,   \* the 128 of the effects channel
  Deadlines,     \* the deadlines that may pass: "admit", "pump", "drain", "stop"
  Panics         \* a handler may panic

ASSUME IngressAssumption ==
  /\ QueueSize \in Nat \ {0} /\ EffectsSize \in Nat \ {0}
  /\ Deadlines \subseteq {"admit", "pump", "drain", "stop"}
  /\ Panics \in BOOLEAN

VARIABLES
  admission,   \* live_admission is cancelled: nothing more is admitted
  emergency,   \* live_ingress_stop is cancelled
  lifecycle,   \* IngressLifecycle
  ladder,      \* where stop_live_ingress is
  updateSafe,  \* shutdown_update_safe
  starter,     \* where start_live_event_pump is
  orphaned,    \* history: the ladder found no handle of a task under way
  pump,        \* the pump task and the event it holds
  queue,       \* the bounded ingress queue
  dispatch,    \* run_ingress_dispatch and the item it holds
  persist,     \* the persistence loop
  effects,     \* effects waiting in their channel
  sequence,    \* connection_sequence
  context,     \* the generation connection_context names, 0 without one
  topic,       \* the generation of the last live.connected, 0 after live.disconnected
  stats,       \* LiveIngressStats
  effectStats, \* its effects_* counters
  rankingGap,  \* the rankings were told of a loss
  prepared,    \* history: effects that prepare_live_event returned
  credited     \* history: which generation's events went to which context

startup  == <<starter, orphaned>>
control  == <<admission, emergency, lifecycle, ladder, updateSafe, startup>>
flow     == <<pump, queue, dispatch, persist, effects>>
session  == <<sequence, context, topic, credited>>
counters == <<stats, effectStats, rankingGap, prepared>>
ingressVars == <<control, flow, session, counters>>
vars == <<transport, ingressVars>>

-----------------------------------------------------------------------------
Running == 0
StoppingAdmission == 1
Draining == 2
Stopped == 3

NoMessage == Message(0, "notice")
Pump(step, m) == [step |-> step, item |-> m]
Dispatch(step, m) == [step |-> step, item |-> m]

\* routing: prepared, on its way through the competitions.  closing, opening:
\* Connected.  ending: Disconnected.
Handling == {"routing", "closing", "opening", "ending"}

Stats ==
  [received : Nat, accepted : Nat, processed : Nat, stale : Nat, cancelled : Nat, abandoned : Nat,
   refused : Nat, droppedData : Nat, droppedCritical : Nat, queued : Nat, inFlight : Nat,
   lagged : Nat]
EffectStats ==
  [queued : Nat, inFlight : Nat, processed : Nat, rejected : Nat, cancelled : Nat,
   abandoned : Nat, dropped : Nat]

IngressTypeOK ==
  /\ admission \in BOOLEAN /\ emergency \in BOOLEAN
  /\ lifecycle \in Running .. Stopped
  /\ ladder \in {"running", "pump", "drain", "stop", "stopped", "left"}
  /\ updateSafe \in BOOLEAN
  /\ starter \in {"no", "begun", "spawned", "pumpKept", "kept"} /\ orphaned \in BOOLEAN
  /\ pump \in [step : {"off", "receiving", "admitting", "waiting", "ended"}, item : Messages]
  /\ queue \in Seq(Messages)
  /\ dispatch \in [step : Handling \union {"off", "receiving", "ended", "dead"}, item : Messages]
  /\ persist \in {"off", "receiving", "applying", "ended"}
  /\ effects \in Nat
  /\ {sequence, context, topic} \subseteq {0} \union Generations
  /\ stats \in Stats /\ effectStats \in EffectStats
  /\ rankingGap \in BOOLEAN /\ prepared \in Nat
  /\ credited \subseteq [generation : {0} \union Generations, context : Generations]

IngressInit ==
  /\ admission = FALSE /\ emergency = FALSE
  /\ lifecycle = Running /\ ladder = "running" /\ updateSafe = TRUE
  /\ starter = "no" /\ orphaned = FALSE
  /\ pump = Pump("off", NoMessage) /\ queue = <<>>
  /\ dispatch = Dispatch("off", NoMessage) /\ persist = "off" /\ effects = 0
  /\ sequence = 0 /\ context = 0 /\ topic = 0 /\ credited = {}
  /\ stats = [received |-> 0, accepted |-> 0, processed |-> 0, stale |-> 0, cancelled |-> 0,
              abandoned |-> 0, refused |-> 0, droppedData |-> 0, droppedCritical |-> 0,
              queued |-> 0, inFlight |-> 0, lagged |-> 0]
  /\ effectStats = [queued |-> 0, inFlight |-> 0, processed |-> 0, rejected |-> 0,
                    cancelled |-> 0, abandoned |-> 0, dropped |-> 0]
  /\ rankingGap = FALSE /\ prepared = 0

\* advance_lifecycle is a fetch_max.
LifecycleAtLeast(level) == lifecycle' = IF lifecycle < level THEN level ELSE lifecycle

WorkerGone == dispatch.step \in {"ended", "dead"}
\* What JoinHandle reports: both loops of the task are over.
WorkerEnded == dispatch.step \in {"off", "dead"} \/ (dispatch.step = "ended" /\ persist = "ended")

-----------------------------------------------------------------------------
(* The pump.                                                               *)

\* start_live_event_pump runs beside the ladder.  Once, and not if admission
\* has stopped when the flags are read.
StartPump ==
  /\ starter = "no" /\ ~admission
  /\ starter' = "begun"
  /\ UNCHANGED <<transport, admission, emergency, lifecycle, ladder, updateSafe, orphaned, flow,
                 session, counters>>

\* The subscription and both tasks, whatever the ladder has done since; a task
\* that is spawned and not polled yet behaves like one not spawned yet.
SpawnTasks ==
  /\ starter = "begun"
  /\ starter' = "spawned"
  /\ pump' = Pump("receiving", NoMessage)
  /\ dispatch' = Dispatch("receiving", NoMessage) /\ persist' = "receiving"
  /\ Subscribe
  /\ UNCHANGED <<snapshot, channel, missed, sent, admission, emergency, lifecycle, ladder,
                 updateSafe, orphaned, queue, effects, session, counters>>

\* The handles the ladder takes, one after the other.
KeepPump ==
  /\ starter = "spawned"
  /\ starter' = "pumpKept"
  /\ UNCHANGED <<transport, admission, emergency, lifecycle, ladder, updateSafe, orphaned, flow,
                 session, counters>>
KeepWorker ==
  /\ starter = "pumpKept"
  /\ starter' = "kept"
  /\ UNCHANGED <<transport, admission, emergency, lifecycle, ladder, updateSafe, orphaned, flow,
                 session, counters>>

PumpKept == starter \in {"pumpKept", "kept"}
WorkerKept == starter = "kept"
Starts == StartPump \/ SpawnTasks \/ KeepPump \/ KeepWorker

PumpReceive ==
  /\ pump.step = "receiving" /\ ~admission
  /\ Receive
  /\ pump' = Pump("admitting", Head(channel))
  /\ stats' = [stats EXCEPT !.received = @ + 1]
  /\ UNCHANGED <<snapshot, sent, control, queue, dispatch, persist, effects, session,
                 effectStats, rankingGap, prepared>>

\* The receiver lagged: every ranking is told.
PumpLagged ==
  /\ pump.step = "receiving" /\ ~admission
  /\ Lagged
  /\ rankingGap' = TRUE
  /\ stats' = [stats EXCEPT !.lagged = @ + 1]
  /\ UNCHANGED <<snapshot, sent, control, flow, session, effectStats, prepared>>

Holding == pump.step \in {"admitting", "waiting"}
HasRoom == ~WorkerGone /\ Len(queue) < QueueSize
PumpNext == Pump("receiving", NoMessage)

\* Admission stopped between the receipt and the queue.
PumpRefuses ==
  /\ Holding /\ admission
  /\ pump' = PumpNext
  /\ stats' = [stats EXCEPT !.refused = @ + 1]
  /\ UNCHANGED <<transport, control, queue, dispatch, persist, effects, session,
                 effectStats, rankingGap, prepared>>

\* publish_reserved: counted, then published.
PumpAdmits ==
  /\ Holding /\ ~admission /\ HasRoom
  /\ queue' = Append(queue, pump.item)
  /\ stats' = [stats EXCEPT !.accepted = @ + 1, !.queued = @ + 1]
  /\ pump' = PumpNext
  /\ UNCHANGED <<transport, control, dispatch, persist, effects, session,
                 effectStats, rankingGap, prepared>>

\* A full queue: lifecycle items and critical data wait, ticks are shed.
PumpWaits ==
  /\ pump.step = "admitting" /\ ~admission /\ ~HasRoom /\ ~WorkerGone
  /\ pump.item.kind # "tick"
  /\ pump' = Pump("waiting", pump.item)
  /\ UNCHANGED <<transport, control, queue, dispatch, persist, effects, session, counters>>

ShedQuietly ==                                                        \* mutant
  /\ pump.step = "admitting" /\ ~admission /\ ~HasRoom /\ ~WorkerGone
  /\ pump.item.kind = "tick"
  /\ stats' = [stats EXCEPT !.droppedData = @ + 1]
  /\ pump' = PumpNext
  /\ UNCHANGED <<transport, control, queue, dispatch, persist, effects, session,
                 effectStats, rankingGap, prepared>>
PumpSheds ==
  /\ pump.step = "admitting" /\ ~admission /\ ~HasRoom /\ ~WorkerGone
  /\ pump.item.kind = "tick"
  /\ stats' = [stats EXCEPT !.droppedData = @ + 1]
  /\ rankingGap' = TRUE
  /\ pump' = PumpNext
  /\ UNCHANGED <<transport, control, queue, dispatch, persist, effects, session,
                 effectStats, prepared>>

\* CRITICAL_SEND_TIMEOUT: only data gives up, lifecycle items keep waiting.
PumpGivesUp ==
  /\ "admit" \in Deadlines
  /\ pump.step = "waiting" /\ ~admission /\ pump.item.kind = "gift"
  /\ stats' = [stats EXCEPT !.droppedCritical = @ + 1]
  /\ rankingGap' = TRUE
  /\ pump' = PumpNext
  /\ UNCHANGED <<transport, control, queue, dispatch, persist, effects, session,
                 effectStats, prepared>>

\* The worker died: what is received from now on is dropped and not counted.
PumpFindsNoWorker ==
  /\ Holding /\ ~admission /\ WorkerGone
  /\ pump' = PumpNext
  /\ UNCHANGED <<transport, control, queue, dispatch, persist, effects, session, counters>>

PumpEnds ==
  /\ pump.step = "receiving" /\ admission
  /\ pump' = Pump("ended", NoMessage)
  /\ Unsubscribe
  /\ UNCHANGED <<snapshot, sent, control, queue, dispatch, persist, effects, session, counters>>

PumpStep ==
  \/ PumpReceive \/ PumpLagged \/ PumpRefuses \/ PumpAdmits \/ PumpWaits \/ PumpSheds
  \/ PumpGivesUp \/ PumpFindsNoWorker \/ PumpEnds

-----------------------------------------------------------------------------
(* The worker, first loop: dispatch, one item at a time, in order.         *)

Ready == dispatch.step = "receiving" /\ ~emergency /\ queue # <<>>
Item == Head(queue)
WorkerNext == Dispatch("receiving", NoMessage)

\* The generation fence compares with what the transport and the worker know.
FencesLifecycleOnly == ~IsData(Item) /\ Item.generation < snapshot.generation  \* mutant
Superseded ==
  Item.generation < snapshot.generation \/ Item.generation < sequence

Taken == stats' = [stats EXCEPT !.queued = @ - 1, !.inFlight = @ + 1]
Processed == stats' = [stats EXCEPT !.inFlight = @ - 1, !.processed = @ + 1]

CountsAfterFence ==                                                   \* mutant
  /\ Ready /\ Superseded
  /\ queue' = Tail(queue)
  /\ stats' = [stats EXCEPT !.inFlight = @ - 1, !.stale = @ + 1]
  /\ UNCHANGED <<transport, control, pump, dispatch, persist, effects, session,
                 effectStats, rankingGap, prepared>>
TakeStale ==
  /\ Ready /\ Superseded
  /\ queue' = Tail(queue)
  /\ stats' = [stats EXCEPT !.queued = @ - 1, !.stale = @ + 1]
  /\ UNCHANGED <<transport, control, pump, dispatch, persist, effects, session,
                 effectStats, rankingGap, prepared>>

\* prepare_live_event: a replay has no effect (seen); anything else is
\* credited to the connection context of this moment.
TakeData ==
  /\ Ready /\ ~Superseded /\ IsData(Item)
  /\ queue' = Tail(queue)
  /\ \/ /\ stats' = [stats EXCEPT !.queued = @ - 1, !.processed = @ + 1]
        /\ UNCHANGED <<dispatch, credited, prepared>>
     \/ /\ Taken
        /\ dispatch' = Dispatch("routing", Item)
        /\ credited' = IF context = 0 THEN credited
                       ELSE credited \union {[generation |-> Item.generation, context |-> context]}
        /\ prepared' = prepared + 1
  /\ UNCHANGED <<transport, control, pump, persist, effects, sequence, context, topic,
                 effectStats, rankingGap>>

\* The competitions are done with it; its effect is queued or given up.
FinishData ==
  /\ dispatch.step = "routing"
  /\ Processed
  /\ IF effects < EffectsSize /\ persist # "ended"
     THEN /\ effects' = effects + 1
          /\ effectStats' = [effectStats EXCEPT !.queued = @ + 1]
     ELSE /\ effectStats' = [effectStats EXCEPT !.rejected = @ + 1, !.dropped = @ + 1]
          /\ UNCHANGED effects
  /\ dispatch' = WorkerNext
  /\ UNCHANGED <<transport, control, pump, queue, persist, session, rankingGap, prepared>>

TakeNotice ==
  /\ Ready /\ ~Superseded /\ Item.kind = "notice"
  /\ queue' = Tail(queue)
  /\ stats' = [stats EXCEPT !.queued = @ - 1, !.processed = @ + 1]
  /\ UNCHANGED <<transport, control, pump, dispatch, persist, effects, session,
                 effectStats, rankingGap, prepared>>

TreatsAsReconnect ==                                                  \* mutant
  /\ Ready /\ ~Superseded /\ Item.kind = "connected"
  /\ queue' = Tail(queue) /\ Taken
  /\ sequence' = Item.generation
  /\ dispatch' = Dispatch(IF context = 0 THEN "closing" ELSE "opening", Item)
  /\ UNCHANGED <<transport, control, pump, persist, effects, context, topic, credited,
                 effectStats, rankingGap, prepared>>
\* Connected: the old context ends first, with its session and topic.
TakeConnected ==
  /\ Ready /\ ~Superseded /\ Item.kind = "connected"
  /\ queue' = Tail(queue) /\ Taken
  /\ dispatch' = Dispatch("closing", Item)
  /\ sequence' = Item.generation
  /\ context' = 0
  /\ UNCHANGED <<transport, control, pump, persist, effects, topic, credited,
                 effectStats, rankingGap, prepared>>

Finished ==
  /\ Processed
  /\ dispatch' = WorkerNext

\* handle_connected, unless another connection came in between.
OpensContext ==
  /\ dispatch.step = "closing"
  /\ IF snapshot.generation = sequence
     THEN /\ context' = sequence
          /\ dispatch' = Dispatch("opening", dispatch.item)
          /\ UNCHANGED stats
     ELSE Finished /\ UNCHANGED context
  /\ UNCHANGED <<transport, control, pump, queue, persist, effects, sequence, topic, credited,
                 effectStats, rankingGap, prepared>>

PublishesConnected ==
  /\ dispatch.step = "opening"
  /\ Finished
  /\ topic' = IF snapshot.generation = sequence THEN sequence ELSE topic
  /\ UNCHANGED <<transport, control, pump, queue, persist, effects, sequence, context, credited,
                 effectStats, rankingGap, prepared>>

KeepsContext ==                                                       \* mutant
  /\ Ready /\ ~Superseded /\ Item.kind = "disconnected"
  /\ queue' = Tail(queue) /\ Taken
  /\ dispatch' = Dispatch("ending", Message(snapshot.generation, Item.kind))
  /\ UNCHANGED <<transport, control, pump, persist, effects, session,
                 effectStats, rankingGap, prepared>>
\* Disconnected: the generation of now is remembered, the context ends.
TakeDisconnected ==
  /\ Ready /\ ~Superseded /\ Item.kind = "disconnected"
  /\ queue' = Tail(queue) /\ Taken
  /\ dispatch' = Dispatch("ending", Message(snapshot.generation, Item.kind))
  /\ context' = 0
  /\ UNCHANGED <<transport, control, pump, persist, effects, sequence, topic, credited,
                 effectStats, rankingGap, prepared>>

PublishesDisconnected ==
  /\ dispatch.step = "ending"
  /\ Finished
  /\ topic' = IF snapshot.generation = dispatch.item.generation THEN 0 ELSE topic
  /\ UNCHANGED <<transport, control, pump, queue, persist, effects, sequence, context, credited,
                 effectStats, rankingGap, prepared>>

\* The pump is gone and the queue is drained.
SenderGone == pump.step = "ended"
DispatchEnds ==
  /\ dispatch.step = "receiving" /\ ~emergency /\ queue = <<>> /\ SenderGone
  /\ dispatch' = Dispatch("ended", NoMessage)
  /\ LifecycleAtLeast(IF persist = "ended" THEN Stopped ELSE Draining)
  /\ UNCHANGED <<transport, admission, emergency, ladder, updateSafe, startup, pump, queue,
                 persist, effects, session, counters>>

\* Emergency, between two items: what is still queued is released, counted.
DispatchCancelled ==
  /\ dispatch.step = "receiving" /\ emergency
  /\ dispatch' = Dispatch("ended", NoMessage)
  /\ queue' = <<>>
  /\ stats' = [stats EXCEPT !.queued = @ - Len(queue), !.cancelled = @ + Len(queue)]
  /\ LifecycleAtLeast(IF persist = "ended" THEN Stopped ELSE Draining)
  /\ UNCHANGED <<transport, admission, emergency, ladder, updateSafe, startup, pump, persist,
                 effects, session, effectStats, rankingGap, prepared>>

DispatchStep ==
  \/ TakeStale \/ TakeData \/ FinishData \/ TakeNotice \/ TakeConnected \/ OpensContext
  \/ PublishesConnected \/ TakeDisconnected \/ PublishesDisconnected
  \/ DispatchEnds \/ DispatchCancelled

-----------------------------------------------------------------------------
(* The worker, second loop: effects (analytics and points).                *)

PersistTakes ==
  /\ persist = "receiving" /\ ~emergency /\ effects > 0
  /\ persist' = "applying" /\ effects' = effects - 1
  /\ effectStats' = [effectStats EXCEPT !.queued = @ - 1, !.inFlight = @ + 1]
  /\ UNCHANGED <<transport, control, pump, queue, dispatch, session, stats, rankingGap, prepared>>

PersistFinishes ==
  /\ persist = "applying"
  /\ persist' = "receiving"
  /\ effectStats' = [effectStats EXCEPT !.inFlight = @ - 1, !.processed = @ + 1]
  /\ UNCHANGED <<transport, control, pump, queue, dispatch, effects, session, stats,
                 rankingGap, prepared>>

\* Dispatch dropped its sender and every effect is applied.
PersistEnds ==
  /\ persist = "receiving" /\ ~emergency /\ effects = 0 /\ dispatch.step = "ended"
  /\ persist' = "ended"
  /\ LifecycleAtLeast(Stopped)
  /\ UNCHANGED <<transport, admission, emergency, ladder, updateSafe, startup, pump, queue,
                 dispatch, effects, session, counters>>

ForgetsQueued ==                                                      \* mutant
  [effectStats EXCEPT !.queued = 0, !.dropped = @ + effectStats.queued]
\* The queued effects are released, counted.
Released ==
  [effectStats EXCEPT !.queued = 0, !.dropped = @ + effectStats.queued,
                      !.cancelled = @ + effectStats.queued]

PersistCancelled ==
  /\ persist = "receiving" /\ emergency
  /\ persist' = "ended" /\ effects' = 0
  /\ effectStats' = Released
  /\ LifecycleAtLeast(IF dispatch.step = "ended" THEN Stopped ELSE lifecycle)
  /\ UNCHANGED <<transport, admission, emergency, ladder, updateSafe, startup, pump, queue,
                 dispatch, session, stats, rankingGap, prepared>>

PersistStep == PersistTakes \/ PersistFinishes \/ PersistEnds \/ PersistCancelled

-----------------------------------------------------------------------------
(* The task is cut off inside a handler: a panic, or the ladder's abort.   *)
(* Both loops are dropped with their channels; EffectGuard and             *)
(* PendingEffectsGuard account for the effects.                            *)

CutOff ==
  /\ dispatch' = Dispatch("dead", NoMessage) /\ persist' = "ended"
  /\ queue' = <<>> /\ effects' = 0
  /\ effectStats' =
       LET lost == IF persist = "applying" THEN 1 ELSE 0
       IN  [Released EXCEPT !.inFlight = @ - lost, !.abandoned = @ + lost, !.dropped = @ + lost]

WorkerPanics ==
  /\ Panics
  /\ dispatch.step \in Handling \/ persist = "applying"
  /\ CutOff
  /\ UNCHANGED <<transport, control, pump, session, stats, rankingGap, prepared>>

-----------------------------------------------------------------------------
(* stop_live_ingress.                                                      *)

CloseAdmission ==
  /\ ladder = "running"
  /\ admission' = TRUE /\ ladder' = "pump"
  /\ LifecycleAtLeast(StoppingAdmission)
  /\ UNCHANGED <<transport, emergency, updateSafe, startup, flow, session, counters>>

\* A handle that is not there is not waited for.
Passes(kept) == orphaned' = (orphaned \/ (starter # "no" /\ ~kept))

PumpJoined ==
  /\ ladder = "pump" /\ (PumpKept => pump.step = "ended")
  /\ ladder' = "drain"
  /\ LifecycleAtLeast(Draining)
  /\ Passes(PumpKept)
  /\ UNCHANGED <<transport, admission, emergency, updateSafe, starter, flow, session, counters>>

\* The pump is aborted; an event it held is gone.
PumpDeadline ==
  /\ "pump" \in Deadlines
  /\ ladder = "pump" /\ PumpKept /\ pump.step # "ended"
  /\ pump' = Pump("ended", NoMessage)
  /\ Unsubscribe
  /\ updateSafe' = FALSE /\ ladder' = "drain"
  /\ LifecycleAtLeast(Draining)
  /\ UNCHANGED <<snapshot, sent, admission, emergency, startup, queue, dispatch, persist, effects,
                 session, counters>>

\* A task that panicked fails its join: Ok(Err) while draining only.
WorkerJoined ==
  /\ ladder \in {"drain", "stop"} /\ (WorkerKept => WorkerEnded)
  /\ ladder' = "stopped"
  /\ updateSafe' = (updateSafe /\ ~(WorkerKept /\ ladder = "drain" /\ dispatch.step = "dead"))
  /\ LifecycleAtLeast(Stopped)
  /\ Passes(WorkerKept)
  /\ UNCHANGED <<transport, admission, emergency, starter, flow, session, counters>>

SafeDrainDeadline ==                                                  \* mutant
  /\ "drain" \in Deadlines
  /\ ladder = "drain" /\ WorkerKept /\ ~WorkerEnded
  /\ emergency' = TRUE /\ ladder' = "stop"
  /\ UNCHANGED <<transport, admission, lifecycle, updateSafe, startup, flow, session, counters>>
PatientDrainDeadline ==                                               \* mutant
  /\ "drain" \in Deadlines
  /\ ladder = "drain" /\ WorkerKept /\ ~WorkerEnded /\ dispatch.step \notin Handling
  /\ emergency' = TRUE /\ updateSafe' = FALSE /\ ladder' = "stop"
  /\ UNCHANGED <<transport, admission, lifecycle, startup, flow, session, counters>>
DrainDeadline ==
  /\ "drain" \in Deadlines
  /\ ladder = "drain" /\ WorkerKept /\ ~WorkerEnded
  /\ emergency' = TRUE /\ updateSafe' = FALSE /\ ladder' = "stop"
  /\ UNCHANGED <<transport, admission, lifecycle, startup, flow, session, counters>>

\* abandon_outstanding, derived from accepted.
Outstanding ==
  stats.accepted - stats.processed - stats.stale - stats.cancelled - stats.abandoned
InFlightOnly ==                                                       \* mutant
  [stats EXCEPT !.inFlight = 0, !.queued = 0, !.abandoned = @ + stats.inFlight]
Abandoned ==
  LET queued == IF Outstanding > stats.inFlight THEN Outstanding - stats.inFlight ELSE 0
  IN  [stats EXCEPT !.inFlight = 0, !.queued = 0, !.cancelled = @ + queued,
                    !.abandoned = @ + Outstanding - queued]

StopDeadline ==
  /\ "stop" \in Deadlines
  /\ ladder = "stop" /\ ~WorkerEnded
  /\ CutOff
  /\ stats' = Abandoned
  /\ ladder' = "stopped"
  /\ LifecycleAtLeast(Stopped)
  /\ UNCHANGED <<transport, admission, emergency, updateSafe, startup, pump, session, rankingGap,
                 prepared>>

\* publish_disconnected_event of AppCore::shutdown.
EndSession ==
  /\ ladder = "stopped"
  /\ ladder' = "left" /\ context' = 0
  /\ UNCHANGED <<transport, admission, emergency, lifecycle, updateSafe, startup, flow, sequence,
                 topic, credited, counters>>

Ladder ==
  \/ CloseAdmission \/ PumpJoined \/ PumpDeadline \/ WorkerJoined \/ DrainDeadline
  \/ StopDeadline \/ EndSession

IngressStep == Starts \/ PumpStep \/ DispatchStep \/ PersistStep \/ WorkerPanics \/ Ladder

-----------------------------------------------------------------------------
(* A transport with no order of its own, late events included.             *)

AnyEvent ==
  /\ sent < MaxSent
  /\ \E g \in 1 .. snapshot.generation, kind \in DataKinds \union LifecycleKinds :
       Send(<<Message(g, kind)>>)
  /\ sent' = sent + 1
  /\ UNCHANGED <<snapshot, ingressVars>>

AnyConnection ==
  /\ snapshot.generation < MaxGeneration
  /\ Advance("connecting")
  /\ UNCHANGED <<channel, missed, listening, sent, ingressVars>>

Init == TransportInit /\ IngressInit
Next == AnyEvent \/ AnyConnection \/ IngressStep

Spec == Init /\ [][Next]_vars

\* The ladder is one async function whose waits have deadlines; neither the
\* pump nor the worker is assumed to make progress.
LiveSpec == Spec /\ WF_vars(Ladder)

-----------------------------------------------------------------------------
(* Properties.                                                             *)

TypeOK == TransportTypeOK /\ IngressTypeOK

Accounted(s) == s.processed + s.stale + s.cancelled + s.abandoned + s.queued + s.inFlight

\* ingress.rs, "Accounting invariant": however handling, admission, deadlines
\* and the abort interleave, no admitted item is counted twice or forgotten;
\* while the worker lives, queued and inFlight are what it really holds.
EveryItemAccounted ==
  /\ stats.accepted = Accounted(stats)
  /\ dispatch.step # "dead" =>
       /\ stats.queued = Len(queue)
       /\ stats.inFlight = IF dispatch.step \in Handling THEN 1 ELSE 0

\* The two drop guards and the explicit release: every effect is applied,
\* rejected, cancelled or abandoned exactly once, and every loss is in dropped.
EveryEffectAccounted ==
  /\ effectStats.queued = effects
  /\ effectStats.inFlight = IF persist = "applying" THEN 1 ELSE 0
  /\ effectStats.dropped = effectStats.rejected + effectStats.cancelled + effectStats.abandoned
  /\ dispatch.step # "dead" =>
       prepared = effectStats.processed + effectStats.queued + effectStats.inFlight
                  + effectStats.dropped + (IF dispatch.step = "routing" THEN 1 ELSE 0)

\* ingress_complete of the two checkpoint_shutdown functions.
Complete == ~emergency /\ stats.cancelled = 0 /\ stats.abandoned = 0 /\ stats.refused = 0

HasStopped == ladder \in {"stopped", "left"}

\* update_shutdown_safe: a stop that allows an update drained every queue,
\* unless it overtook the start and found no handle (pump.rs, stop_live_ingress).
SafeStopDrained ==
  HasStopped /\ updateSafe /\ ~orphaned =>
    /\ stats.accepted = stats.processed + stats.stale
    /\ prepared = effectStats.processed + effectStats.rejected

\* A stop that allows an update and leaves clean checkpoints lost no event
\* between the receipt and the rankings: anything shed, lagged or refused
\* leaves a mark that a later boot sees, unless the stop overtook the start.
CleanStopLostNothing ==
  HasStopped /\ updateSafe /\ ~orphaned /\ Complete /\ ~rankingGap =>
    stats.received = stats.processed + stats.stale

\* IngressLifecycle: "Stopped is only reachable once no ingress task remains
\* alive" (ingress.rs), although worker and ladder both advance it; a stop that
\* overtakes the start says so too early.
StoppedIsDead ==
  lifecycle = Stopped /\ ~orphaned => pump.step \in {"off", "ended"} /\ WorkerEnded

\* The generation fence: an event of an older connection is never credited to
\* the creator of a newer one, whatever the transport sends.
NeverToANewerCreator ==
  \A c \in credited : c.generation >= c.context

\* stop_live_ingress: "shutdown never deadlocks", stalled handlers included.
StopTerminates == ladder = "pump" ~> ladder = "left"
=============================================================================
