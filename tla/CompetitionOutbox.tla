-------------------------- MODULE CompetitionOutbox --------------------------
(***************************************************************************)
(* The durable outbox of winner actions and the worker each host runs on   *)
(* it.  A row is inserted with the result it belongs to (Competition's     *)
(* StoreResult, for a definition that names an action); this module says   *)
(* what becomes of it.  Every database call of the worker runs on a        *)
(* blocking thread and is a step of its own, so other hosts, the operator, *)
(* shutdown and a crash come in between.                                   *)
(***************************************************************************)
EXTENDS Naturals

CONSTANTS
  Hosts,           \* the runs of the program; each boots once
  Items,           \* competition generations whose winner has an action
  Usable,          \* the action exists, is enabled and its inputs are an object
  UserWinner,      \* draws and challenges: the action is the onUserWin one
  Malformed,       \* rows whose JSON or key does not match their columns
  ExclusiveHosts,  \* every host is started under the control-host guard
  StorageFaults,   \* a database call may fail
  NoItem

ASSUME OutboxAssumption ==
  /\ Usable \subseteq Items /\ UserWinner \subseteq Items /\ Malformed \subseteq Items
  /\ ExclusiveHosts \in BOOLEAN /\ StorageFaults \in BOOLEAN
  /\ NoItem \notin Items

VARIABLES
  \* Durable.
  status,     \* competition_action_outbox.status, or "none" without a row
  defined,    \* stored definitions
  \* Volatile, one per host.
  host,       \* "off", "up", "stopping" (shutdown_started) or "stopped"
  known,      \* the definitions in memory
  batch,      \* what is left of the worker's last read of pending rows
  worker,     \* where the worker is, on which row, with which outcome
  \* History: how often the automation runtime was given each action.
  effects

vars == <<status, defined, host, known, batch, worker, effects>>

-----------------------------------------------------------------------------
Statuses == {"none", "pending", "running", "completed", "failed", "uncertain"}
Outcomes == {"completed", "failed", "uncertain"}

\* lateClaim and lateRecord: the worker was aborted, its blocking call was not.
Steps == {"off", "recover", "poll", "scan", "claim", "prepare", "ready",
          "execute", "record", "gone", "lateClaim", "lateRecord"}

Worker == [step : Steps, item : Items \union {NoItem}, outcome : Outcomes]

\* The item and the outcome mean something only in the steps that use them.
At(step) == [step |-> step, item |-> NoItem, outcome |-> "uncertain"]
On(step, i) == [step |-> step, item |-> i, outcome |-> "uncertain"]
Settling(step, i, outcome) == [step |-> step, item |-> i, outcome |-> outcome]

TypeOK ==
  /\ status \in [Items -> Statuses]
  /\ defined \subseteq Items
  /\ host \in [Hosts -> {"off", "up", "stopping", "stopped"}]
  /\ known \in [Hosts -> SUBSET Items]
  /\ batch \in [Hosts -> SUBSET Items]
  /\ worker \in [Hosts -> Worker]
  /\ effects \in [Items -> Nat]

Init ==
  /\ status = [i \in Items |-> "none"]
  /\ defined = {}
  /\ host = [h \in Hosts |-> "off"]
  /\ known = [h \in Hosts |-> {}]
  /\ batch = [h \in Hosts |-> {}]
  /\ worker = [h \in Hosts |-> At("off")]
  /\ effects = [i \in Items |-> 0]

Step(h) == worker[h].step
Item(h) == worker[h].item
Go(h, place) == worker' = [worker EXCEPT ![h] = place]
Set(i, to) == status' = [status EXCEPT ![i] = to]

Serves(h) == host[h] \in {"up", "stopping"}

-----------------------------------------------------------------------------
(* The life of a host, and the definitions it knows.                       *)

NoGuard(h) == TRUE                                                   \* mutant
GuardFree(h) == ExclusiveHosts => \A g \in Hosts \ {h} : host[g] \in {"off", "stopped"}

\* CompetitionService::restore reads every stored definition, once.
Loaded == defined

Boot(h) ==
  /\ host[h] = "off" /\ GuardFree(h)
  /\ host' = [host EXCEPT ![h] = "up"]
  /\ known' = [known EXCEPT ![h] = Loaded]
  /\ Go(h, At("recover"))
  /\ UNCHANGED <<status, defined, batch, effects>>

Define(h, i) ==
  /\ Serves(h) /\ i \notin defined
  /\ defined' = defined \union {i}
  /\ known' = [known EXCEPT ![h] = @ \union {i}]
  /\ UNCHANGED <<status, host, batch, worker, effects>>

\* store_competition_result_once, for a result with an action.
Enqueue(h, i) ==
  /\ Serves(h) /\ i \in known[h] /\ status[i] = "none"
  /\ Set(i, "pending")
  /\ UNCHANGED <<defined, host, known, batch, worker, effects>>

BeginShutdown(h) ==
  /\ host[h] = "up"
  /\ host' = [host EXCEPT ![h] = "stopping"]
  /\ UNCHANGED <<status, defined, known, batch, worker, effects>>

\* stop_competition_action_worker gives up after five seconds.  What runs on
\* a blocking thread goes on; a future is dropped where it stands.  Recovery
\* is not waited for here: its statement was issued before shutdown began and
\* SQLite's busy timeout is no longer than the limit.
Abort(h) ==
  /\ host[h] = "stopping" /\ Step(h) \in {"poll", "scan", "claim", "prepare", "ready",
                                          "execute", "record"}
  /\ Go(h, CASE Step(h) = "claim"  -> On("lateClaim", Item(h))
             [] Step(h) = "record" -> Settling("lateRecord", Item(h), worker[h].outcome)
             [] OTHER              -> At("gone"))
  /\ batch' = [batch EXCEPT ![h] = {}]
  /\ UNCHANGED <<status, defined, host, known, effects>>

\* shutdown() returns: the guard is free, and a late call may still commit.
Exit(h) ==
  /\ host[h] = "stopping" /\ Step(h) \in {"gone", "lateClaim", "lateRecord"}
  /\ host' = [host EXCEPT ![h] = "stopped"]
  /\ known' = [known EXCEPT ![h] = {}]
  /\ UNCHANGED <<status, defined, batch, worker, effects>>

Crash(h) ==
  /\ Serves(h) \/ Step(h) \in {"lateClaim", "lateRecord"}
  /\ host' = [host EXCEPT ![h] = "stopped"]
  /\ known' = [known EXCEPT ![h] = {}]
  /\ batch' = [batch EXCEPT ![h] = {}]
  /\ Go(h, At("gone"))
  /\ UNCHANGED <<status, defined, effects>>

-----------------------------------------------------------------------------
(* The worker.                                                             *)

\* mark_interrupted_competition_actions_uncertain takes every running row,
\* whoever claimed it.
Disowned == [i \in Items |-> IF status[i] = "running" THEN "uncertain" ELSE status[i]]

Recover(h) ==
  /\ Step(h) = "recover"
  /\ \/ status' = Disowned
     \/ StorageFaults /\ UNCHANGED status
  /\ Go(h, At("poll"))
  /\ UNCHANGED <<defined, host, known, batch, effects>>

\* One pass over the rows that were pending when it began.
Poll(h) ==
  /\ Step(h) = "poll" /\ host[h] = "up"
  /\ batch' = [batch EXCEPT ![h] = {i \in Items : status[i] = "pending"}]
  /\ Go(h, At("scan"))
  /\ UNCHANGED <<status, defined, host, known, effects>>

Leave(h) ==
  /\ Step(h) = "poll" /\ host[h] = "stopping"
  /\ Go(h, At("gone"))
  /\ UNCHANGED <<status, defined, host, known, batch, effects>>

Take(h, i) ==
  /\ Step(h) = "scan" /\ host[h] = "up" /\ i \in batch[h]
  /\ batch' = [batch EXCEPT ![h] = @ \ {i}]
  /\ Go(h, On("claim", i))
  /\ UNCHANGED <<status, defined, host, known, effects>>

PassDone(h) ==
  /\ Step(h) = "scan" /\ (batch[h] = {} \/ host[h] = "stopping")
  /\ batch' = [batch EXCEPT ![h] = {}]
  /\ Go(h, At("poll"))
  /\ UNCHANGED <<status, defined, host, known, effects>>

\* claim_competition_action_detailed: one transaction looks for a pending row
\* and takes it.
Claimable(i) == status[i] = "pending"

\* A row that does not parse is settled in the same transaction, or it would
\* come back with every pass.
LeavesMalformed(i) == IF i \in Malformed THEN "pending" ELSE "running"  \* mutant
Claimed(i) == IF i \in Malformed THEN "failed" ELSE "running"

Claim(h) ==
  /\ Step(h) = "claim" /\ Claimable(Item(h))
  /\ Set(Item(h), Claimed(Item(h)))
  /\ Go(h, IF Item(h) \in Malformed THEN At("scan") ELSE On("prepare", Item(h)))
  /\ UNCHANGED <<defined, host, known, batch, effects>>

\* The row was taken meanwhile, or the transaction failed.
ClaimNothing(h) ==
  /\ Step(h) = "claim" /\ (~Claimable(Item(h)) \/ StorageFaults)
  /\ Go(h, At("scan"))
  /\ UNCHANGED <<status, defined, host, known, batch, effects>>

\* The claim commits after the worker was aborted: nobody holds the row.
LateClaim(h) ==
  /\ Step(h) = "lateClaim"
  /\ IF Claimable(Item(h))
     THEN Set(Item(h), Claimed(Item(h)))
     ELSE UNCHANGED status
  /\ Go(h, At("gone"))
  /\ UNCHANGED <<defined, host, known, batch, effects>>

\* The action of an option that won is found again among the options of the
\* definition; the action of a user is never among them.
Mismatch(i) == i \in UserWinner

Unprepared(h) == Mismatch(Item(h)) \/ Item(h) \notin Usable \/ Item(h) \notin known[h]

Prepare(h) ==
  /\ Step(h) = "prepare" /\ ~Unprepared(h)
  /\ Go(h, On("ready", Item(h)))
  /\ UNCHANGED <<status, defined, host, known, batch, effects>>

PrepareFails(h) ==
  /\ Step(h) = "prepare" /\ (Unprepared(h) \/ StorageFaults)
  /\ Go(h, Settling("record", Item(h), "failed"))
  /\ UNCHANGED <<status, defined, host, known, batch, effects>>

\* The biased select looks at shutdown_started before it first polls the run.
Dispatch(h) ==
  /\ Step(h) = "ready" /\ host[h] = "up"
  /\ effects' = [effects EXCEPT ![Item(h)] = @ + 1]
  /\ Go(h, On("execute", Item(h)))
  /\ UNCHANGED <<status, defined, host, known, batch>>

Interrupt(h) ==
  /\ Step(h) \in {"ready", "execute"} /\ host[h] = "stopping"
  /\ Go(h, Settling("record", Item(h), "uncertain"))
  /\ UNCHANGED <<status, defined, host, known, batch, effects>>

\* The run ends, or its 125 seconds do: anything but "ok" is uncertain.
ErrorFails(ok) == IF ok THEN "completed" ELSE "failed"               \* mutant
Verdict(ok) == IF ok THEN "completed" ELSE "uncertain"

Return(h, ok) ==
  /\ Step(h) = "execute"
  /\ Go(h, Settling("record", Item(h), Verdict(ok)))
  /\ UNCHANGED <<status, defined, host, known, batch, effects>>

\* record_competition_action_outcome: only a running row is settled.
Recorded(h) ==
  \/ status[Item(h)] = "running" /\ Set(Item(h), worker[h].outcome)
  \/ (status[Item(h)] # "running" \/ StorageFaults) /\ UNCHANGED status

Record(h) ==
  /\ Step(h) = "record" /\ Recorded(h)
  /\ Go(h, At("scan"))
  /\ UNCHANGED <<defined, host, known, batch, effects>>

LateRecord(h) ==
  /\ Step(h) = "lateRecord" /\ Recorded(h)
  /\ Go(h, At("gone"))
  /\ UNCHANGED <<defined, host, known, batch, effects>>

-----------------------------------------------------------------------------
(* The operator.                                                           *)

\* action_inflight is set before the claim and cleared after the outcome, or
\* when the worker is stopped.
InFlightWhenRun(h, i) == Step(h) = "execute" /\ Item(h) = i          \* mutant
InFlight(h, i) ==
  Step(h) \in {"claim", "prepare", "ready", "execute", "record"} /\ Item(h) = i

MarkUncertain(h, i) ==
  /\ Serves(h) /\ i \in known[h]
  /\ ~InFlight(h, i) /\ status[i] = "running"
  /\ Set(i, "uncertain")
  /\ UNCHANGED <<defined, host, known, batch, worker, effects>>

Resolve(h, i, resolution) ==
  /\ Serves(h) /\ i \in known[h]
  /\ status[i] = "uncertain"
  /\ Set(i, resolution)
  /\ UNCHANGED <<defined, host, known, batch, worker, effects>>

-----------------------------------------------------------------------------
Life(h) ==
  \/ Boot(h) \/ BeginShutdown(h) \/ Abort(h) \/ Exit(h) \/ Crash(h)
  \/ (\E i \in Items : Define(h, i) \/ Enqueue(h, i))
Run(h) ==
  \/ Recover(h) \/ Poll(h) \/ Leave(h) \/ PassDone(h) \/ Claim(h) \/ ClaimNothing(h)
  \/ Prepare(h) \/ PrepareFails(h) \/ Dispatch(h) \/ Interrupt(h) \/ Record(h)
  \/ (\E i \in Items : Take(h, i)) \/ (\E ok \in BOOLEAN : Return(h, ok))
Late(h) == LateClaim(h) \/ LateRecord(h)
Operator(h) ==
  \E i \in Items :
    MarkUncertain(h, i) \/ \E resolution \in {"completed", "failed"} : Resolve(h, i, resolution)

Next == \E h \in Hosts : Life(h) \/ Run(h) \/ Late(h) \/ Operator(h)

Spec == Init /\ [][Next]_vars

\* The runtime schedules the worker task and its timers (a run ends within
\* its deadline); a database that fails does not fail every claim for ever.
Fairness == \A h \in Hosts : WF_vars(Run(h)) /\ SF_vars(Claim(h))

LiveSpec == Spec /\ Fairness

-----------------------------------------------------------------------------
(* What the program promises.                                              *)

\* The steps in which a worker may still run what it claimed.
Holds(h, i) == Step(h) \in {"prepare", "ready"} /\ Item(h) = i

Contract == INSTANCE WinnerAction
              WITH permits <- {i \in Items : \E h \in Hosts : Holds(h, i)}

\* The comment on the claim and on the recovery: a running or uncertain action
\* is never dispatched again, whatever hosts, crashes, late commits and
\* operators do, and the recorded outcome agrees with what happened.
KeepsContract == Contract!Spec

\* No winner's action is ever given to the automation runtime twice.
AtMostOnce == \A i \in Items : effects[i] <= 1

\* While a worker is between its claim and its outcome, the row says running:
\* neither the operator nor a recovery takes the action from under it.
LiveInvocationIsRunning ==
  \A h \in Hosts, i \in Items :
    (Serves(h) /\ Item(h) = i /\ Step(h) \in {"prepare", "ready", "execute", "record"})
      => status[i] = "running"

\* The comment at the start of the worker: when recovery runs, a running row
\* belongs to a host that died, so no worker is executing it.  It takes the
\* control-host guard, which only the IPC hosts hold, to make that true.
RunningBelongsToTheDead ==
  [][ \A i \in Items :
        (\E h \in Hosts : Step(h) = "recover" /\ status[i] = "running" /\ status'[i] = "uncertain"
                          /\ worker'[h].step = "poll")
          => ~ \E g \in Hosts : Step(g) = "execute" /\ Item(g) = i ]_vars

\* docs/aggregation/README.md on onUserWin: the worker gives up before the run
\* only on an action that cannot be used, whoever the winner is.
OnlyUnusableFails ==
  [][ \A i \in Items :
        (status[i] = "running" /\ status'[i] = "failed") => i \notin Usable ]_vars

\* A committed result's action is taken up by any host that stays up.
PendingIsTaken ==
  \A h \in Hosts, i \in Items :
    (host[h] = "up" /\ status[i] = "pending") ~> (host[h] # "up" \/ status[i] # "pending")

-----------------------------------------------------------------------------
(* Why the contract is kept: a claimed row has one holder, from the claim  *)
(* to the outcome, however late the outcome comes; before its dispatch the *)
(* effect has not happened, after it it has, and nobody else can cause it. *)

Holding(h, i) ==
  Step(h) \in {"prepare", "ready", "execute", "record", "lateRecord"} /\ Item(h) = i

OneHolder == \A g, h \in Hosts, i \in Items : (Holding(g, i) /\ Holding(h, i)) => g = h

HeldIsClaimed ==
  \A i \in Items :
    status[i] \in {"none", "pending"} =>
      effects[i] = 0 /\ \A h \in Hosts : ~Holding(h, i)

StepTellsEffect ==
  \A h \in Hosts :
    /\ Step(h) \in {"claim", "lateClaim", "prepare", "ready", "execute", "record", "lateRecord"}
         => Item(h) \in Items
    /\ Step(h) \in {"prepare", "ready"} => effects[Item(h)] = 0
    /\ Step(h) = "execute" => effects[Item(h)] = 1
    /\ Step(h) \in {"record", "lateRecord"} =>
         /\ worker[h].outcome = "completed" => effects[Item(h)] = 1
         /\ worker[h].outcome = "failed" => effects[Item(h)] = 0

\* The claim, the run and the outcome of an action belong to one worker, and
\* what it is about to record agrees with whether the action was run.
OutboxInv == TypeOK /\ OneHolder /\ HeldIsClaimed /\ StepTellsEffect /\ AtMostOnce

=============================================================================
