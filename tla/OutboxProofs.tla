---------------------------- MODULE OutboxProofs ----------------------------
(***************************************************************************)
(* Proofs about CompetitionOutbox for any number of hosts and results: the *)
(* inductive invariant, at-most-once dispatch, and that the outbox         *)
(* implements the contract WinnerAction.                                   *)
(***************************************************************************)
EXTENDS CompetitionOutbox, TLAPS

\* The places a worker can be put are well formed.
LEMMA WorkerShapes ==
  ASSUME NEW i \in Items, NEW step \in Steps, NEW o \in Outcomes
  PROVE  At(step) \in Worker /\ On(step, i) \in Worker /\ Settling(step, i, o) \in Worker
BY DEF At, On, Settling, Worker, Outcomes

-----------------------------------------------------------------------------
\* Nothing is claimed and nothing has happened when no host has started.
LEMMA InitOutboxInv == Init => OutboxInv
BY OutboxAssumption
DEF Init, OutboxInv, TypeOK, OneHolder, HeldIsClaimed, StepTellsEffect, AtMostOnce, Holding,
    Step, Item, At, Worker, Steps, Statuses, Outcomes

\* Starting, stopping and crashing never create a holder.
LEMMA LifeKeepsInv ==
  ASSUME OutboxInv, NEW h \in Hosts, Life(h)
  PROVE  OutboxInv'
<1> USE OutboxAssumption DEF OutboxInv, TypeOK, OneHolder, HeldIsClaimed, StepTellsEffect,
        AtMostOnce, Holding, Step, Item, At, On, Settling, Go, Set, Worker, Steps, Statuses,
        Outcomes, Serves
<1>1. CASE Boot(h)
  BY <1>1 DEF Boot, Loaded
<1>2. CASE BeginShutdown(h)
  BY <1>2 DEF BeginShutdown
<1>3. CASE Abort(h)
  <2>1. CASE Step(h) = "claim"
    BY <1>3, <2>1 DEF Abort
  <2>2. CASE Step(h) = "record"
    BY <1>3, <2>2 DEF Abort
  <2>3. CASE Step(h) \notin {"claim", "record"}
    BY <1>3, <2>3 DEF Abort
  <2> QED BY <2>1, <2>2, <2>3
<1>4. CASE Exit(h)
  BY <1>4 DEF Exit
<1>5. CASE Crash(h)
  BY <1>5 DEF Crash
<1>6. CASE \E i \in Items : Define(h, i)
  BY <1>6 DEF Define
<1>7. CASE \E i \in Items : Enqueue(h, i)
  BY <1>7 DEF Enqueue
<1> QED BY <1>1, <1>2, <1>3, <1>4, <1>5, <1>6, <1>7 DEF Life

\* The worker: only a claim of a pending row makes a holder, only a dispatch
\* by the holder changes what has happened.
LEMMA RunKeepsInv ==
  ASSUME OutboxInv, NEW h \in Hosts, Run(h)
  PROVE  OutboxInv'
<1> USE OutboxAssumption DEF OutboxInv, TypeOK, OneHolder, HeldIsClaimed, StepTellsEffect,
        AtMostOnce, Holding, Step, Item, At, On, Settling, Go, Set, Worker, Steps, Statuses,
        Outcomes
<1>1. CASE Recover(h)
  BY <1>1 DEF Recover, Disowned
<1>2. CASE Poll(h) \/ Leave(h) \/ PassDone(h)
  <2>1. CASE Poll(h)
    BY <2>1 DEF Poll
  <2>2. CASE Leave(h)
    BY <2>2 DEF Leave
  <2>3. CASE PassDone(h)
    BY <2>3 DEF PassDone
  <2> QED BY <1>2, <2>1, <2>2, <2>3
<1>3. CASE \E i \in Items : Take(h, i)
  BY <1>3 DEF Take
<1>4. CASE Claim(h)
  <2> DEFINE i == Item(h)
  <2>1. i \in Items /\ status[i] = "pending" /\ effects[i] = 0
    BY <1>4 DEF Claim, Claimed, Claimable
  <2>2. \A g \in Hosts : ~Holding(g, i)
    BY <2>1
  <2>3. CASE i \in Malformed
    <3>1. /\ status' = [status EXCEPT ![i] = "failed"]
          /\ worker' = [worker EXCEPT ![h] = At("scan")]
          /\ UNCHANGED <<defined, host, known, batch, effects>>
      BY <1>4, <2>3 DEF Claim, Claimed
    <3>2. TypeOK' /\ AtMostOnce'
      BY <3>1, <2>1
    <3>3. OneHolder' /\ StepTellsEffect'
      BY <3>1, <2>1
    <3>4. HeldIsClaimed'
      BY <3>1, <2>1, <2>2
    <3> QED BY <3>2, <3>3, <3>4
  <2>4. CASE i \notin Malformed
    <3>1. /\ status' = [status EXCEPT ![i] = "running"]
          /\ worker' = [worker EXCEPT ![h] = On("prepare", i)]
          /\ UNCHANGED <<defined, host, known, batch, effects>>
      BY <1>4, <2>4 DEF Claim, Claimed
    <3>2. TypeOK' /\ AtMostOnce'
      BY <3>1, <2>1
    <3>3. OneHolder'
      BY <3>1, <2>1, <2>2
    <3>4. StepTellsEffect'
      BY <3>1, <2>1
    <3>5. HeldIsClaimed'
      BY <3>1, <2>1, <2>2
    <3> QED BY <3>2, <3>3, <3>4, <3>5
  <2> QED BY <2>3, <2>4
<1>5. CASE ClaimNothing(h)
  BY <1>5 DEF ClaimNothing
<1>6. CASE Prepare(h) \/ PrepareFails(h)
  <2>1. CASE Prepare(h)
    BY <2>1 DEF Prepare
  <2>2. CASE PrepareFails(h)
    BY <2>2 DEF PrepareFails
  <2> QED BY <1>6, <2>1, <2>2
<1>7. CASE Dispatch(h)
  BY <1>7 DEF Dispatch
<1>8. CASE Interrupt(h)
  BY <1>8 DEF Interrupt
<1>9. CASE Record(h)
  <2>1. CASE UNCHANGED status
    BY <1>9, <2>1 DEF Record
  <2>2. CASE status[Item(h)] = "running" /\ Set(Item(h), worker[h].outcome)
    BY <1>9, <2>2 DEF Record
  <2> QED BY <1>9, <2>1, <2>2 DEF Record, Recorded
<1>10. CASE \E ok \in BOOLEAN : Return(h, ok)
  BY <1>10 DEF Return, Verdict
<1> QED BY <1>1, <1>2, <1>3, <1>4, <1>5, <1>6, <1>7, <1>8, <1>9, <1>10 DEF Run

\* Calls that outlive their worker, and the operator, move a row forward only.
LEMMA OthersKeepInv ==
  ASSUME OutboxInv, NEW h \in Hosts, Late(h) \/ Operator(h)
  PROVE  OutboxInv'
<1> USE OutboxAssumption DEF OutboxInv, TypeOK, OneHolder, HeldIsClaimed, StepTellsEffect,
        AtMostOnce, Holding, Step, Item, At, Go, Set, Worker, Steps, Statuses, Outcomes
<1>1. CASE LateClaim(h)
  BY <1>1 DEF LateClaim, Claimed, Claimable
<1>2. CASE LateRecord(h)
  BY <1>2 DEF LateRecord, Recorded
<1>3. CASE \E i \in Items : MarkUncertain(h, i)
  BY <1>3 DEF MarkUncertain
<1>4. CASE \E i \in Items : \E resolution \in {"completed", "failed"} : Resolve(h, i, resolution)
  BY <1>4 DEF Resolve
<1> QED BY <1>1, <1>2, <1>3, <1>4 DEF Late, Operator

\* Stuttering changes nothing the invariant speaks of.
LEMMA StutterKeepsInv == OutboxInv /\ UNCHANGED vars => OutboxInv'
BY DEF OutboxInv, vars, TypeOK, OneHolder, HeldIsClaimed, StepTellsEffect, AtMostOnce, Holding,
       Step, Item

\* The claim, the run and the outcome of an action belong to one worker.
THEOREM OutboxInvariant == Spec => []OutboxInv
<1>1. OutboxInv /\ [Next]_vars => OutboxInv'
  BY LifeKeepsInv, RunKeepsInv, OthersKeepInv, StutterKeepsInv DEF Next
<1> QED BY InitOutboxInv, <1>1, PTL DEF Spec

\* No winner's action is ever given to the automation runtime twice, however
\* many hosts overlap, crash, abort or recover.
THEOREM DispatchedOnce == Spec => []AtMostOnce
<1>1. OutboxInv => AtMostOnce
  BY DEF OutboxInv
<1> QED BY OutboxInvariant, <1>1, PTL

-----------------------------------------------------------------------------
(* The outbox implements the contract.                                     *)

Permits == {i \in Items : \E h \in Hosts : Holds(h, i)}

\* A worker that leaves its row without running it drops the permit it may
\* have; a worker without a permit moves unseen.
LEMMA LeavingIsDropping ==
  ASSUME OutboxInv, NEW h \in Hosts, NEW place \in Worker,
         place.step \notin {"prepare", "ready"},
         worker' = [worker EXCEPT ![h] = place], UNCHANGED <<status, effects>>
  PROVE  [Contract!Next]_(Contract!vars)
<1>1. CASE Step(h) \in {"prepare", "ready"}
  <2>1. Item(h) \in Items
    BY <1>1 DEF OutboxInv, StepTellsEffect
  <2>2. Permits' = Permits \ {Item(h)} /\ Item(h) \in Permits
    BY <1>1, <2>1 DEF OutboxInv, TypeOK, OneHolder, Holding, Holds, Step, Item, Permits
  <2>3. Contract!Drop(Item(h))
    BY <2>2 DEF Contract!Drop, Permits
  <2> QED BY <2>1, <2>3 DEF Contract!Next
<1>2. CASE Step(h) \notin {"prepare", "ready"}
  <2>1. Permits' = Permits
    BY <1>2 DEF OutboxInv, TypeOK, Holds, Step, Item, Permits
  <2> QED BY <2>1 DEF Contract!vars, Permits
<1> QED BY <1>1, <1>2

\* When no worker moves, the permits stay.
LEMMA PermitsStay ==
  ASSUME worker' = worker PROVE Permits' = Permits
BY DEF Permits, Holds, Step, Item

LEMMA LifeRefines ==
  ASSUME OutboxInv, NEW h \in Hosts, Life(h)
  PROVE  [Contract!Next]_(Contract!vars)
<1>1. CASE Boot(h)
  <2>1. At("recover") \in Worker /\ At("recover").step = "recover"
    BY DEF At, Worker, Steps, Outcomes
  <2> QED BY <1>1, <2>1, LeavingIsDropping DEF Boot, Go
<1>2. CASE BeginShutdown(h) \/ Exit(h) \/ \E i \in Items : Define(h, i)
  <2>1. UNCHANGED <<status, effects, worker>>
    BY <1>2 DEF BeginShutdown, Exit, Define
  <2> QED BY <2>1, PermitsStay DEF Contract!vars, Permits
<1>3. CASE Abort(h)
  <2>1. PICK place : /\ worker' = [worker EXCEPT ![h] = place]
                     /\ place = CASE Step(h) = "claim"  -> On("lateClaim", Item(h))
                                  [] Step(h) = "record" ->
                                       Settling("lateRecord", Item(h), worker[h].outcome)
                                  [] OTHER              -> At("gone")
    BY <1>3 DEF Abort, Go
  <2>2. place \in Worker /\ place.step \notin {"prepare", "ready"}
    BY <1>3, <2>1
    DEF Abort, On, Settling, At, Worker, Steps, Outcomes, OutboxInv, TypeOK, StepTellsEffect,
        Step, Item
  <2> QED BY <1>3, <2>1, <2>2, LeavingIsDropping DEF Abort
<1>4. CASE Crash(h)
  <2>1. At("gone") \in Worker /\ At("gone").step = "gone"
    BY DEF At, Worker, Steps, Outcomes
  <2> QED BY <1>4, <2>1, LeavingIsDropping DEF Crash, Go
<1>5. CASE \E i \in Items : Enqueue(h, i)
  <2>1. PICK i \in Items : Enqueue(h, i)
    BY <1>5
  <2>2. Contract!Commit(i)
    BY <2>1, PermitsStay DEF Enqueue, Set, Contract!Commit, Permits
  <2> QED BY <2>2 DEF Contract!Next
<1> QED BY <1>1, <1>2, <1>3, <1>4, <1>5 DEF Life

LEMMA RunRefines ==
  ASSUME OutboxInv, NEW h \in Hosts, Run(h)
  PROVE  [Contract!Next]_(Contract!vars)
<1> DEFINE i == Item(h)
<1>1. CASE Recover(h)
  <2>1. Permits' = Permits
    BY <1>1 DEF Recover, Permits, Holds, Step, Item, Go, At, OutboxInv, TypeOK
  <2>2. CASE UNCHANGED status
    BY <1>1, <2>1, <2>2 DEF Recover, Contract!vars, Permits
  <2>3. CASE status' = Disowned
    <3>1. Contract!Disown
      BY <1>1, <2>1, <2>3 DEF Recover, Disowned, Contract!Disown, Permits
    <3> QED BY <3>1 DEF Contract!Next
  <2> QED BY <1>1, <2>2, <2>3 DEF Recover
<1>2. CASE Poll(h) \/ Leave(h) \/ PassDone(h) \/ ClaimNothing(h)
  <2>1. /\ UNCHANGED <<status, effects>>
        /\ \E step \in {"scan", "gone", "poll"} : worker' = [worker EXCEPT ![h] = At(step)]
    BY <1>2 DEF Poll, Leave, PassDone, ClaimNothing, Go
  <2>2. \A step \in {"scan", "gone", "poll"} : At(step) \in Worker /\ At(step).step = step
    BY DEF At, Worker, Steps, Outcomes
  <2> QED BY <2>1, <2>2, LeavingIsDropping
<1>3. CASE \E j \in Items : Take(h, j)
  <2>1. PICK j \in Items : Take(h, j)
    BY <1>3
  <2>2. On("claim", j) \in Worker /\ On("claim", j).step = "claim"
    BY DEF On, Worker, Steps, Outcomes
  <2> QED BY <2>1, <2>2, LeavingIsDropping DEF Take, Go
<1>4. CASE Claim(h)
  <2>1. i \in Items /\ status[i] = "pending"
    BY <1>4 DEF Claim, Claimed, Claimable, OutboxInv, StepTellsEffect
  <2>2. CASE i \in Malformed
    <3>1. Permits' = Permits
      BY <1>4, <2>2 DEF Claim, Claimed, Permits, Holds, Step, Item, Go, At, OutboxInv, TypeOK
    <3>2. Contract!Reject(i)
      BY <1>4, <2>1, <2>2, <3>1 DEF Claim, Claimed, Set, Contract!Reject, Permits
    <3> QED BY <2>1, <3>2 DEF Contract!Next
  <2>3. CASE i \notin Malformed
    <3>1. Permits' = Permits \union {i}
      BY <1>4, <2>1, <2>3 DEF Claim, Claimed, Permits, Holds, Step, Item, Go, On, OutboxInv, TypeOK
    <3>2. Contract!Claim(i)
      BY <1>4, <2>1, <2>3, <3>1 DEF Claim, Claimed, Set, Contract!Claim, Permits
    <3> QED BY <2>1, <3>2 DEF Contract!Next
  <2> QED BY <2>2, <2>3
<1>5. CASE Prepare(h)
  <2>1. Permits' = Permits
    BY <1>5 DEF Prepare, Permits, Holds, Step, Item, Go, On, OutboxInv, TypeOK
  <2> QED BY <1>5, <2>1 DEF Prepare, Contract!vars, Permits
<1>6. CASE PrepareFails(h) \/ Interrupt(h) \/ \E ok \in BOOLEAN : Return(h, ok)
  <2>1. i \in Items
    BY <1>6 DEF PrepareFails, Interrupt, Return, OutboxInv, StepTellsEffect
  <2>2. /\ UNCHANGED <<status, effects>>
        /\ \E o \in Outcomes : worker' = [worker EXCEPT ![h] = Settling("record", i, o)]
    BY <1>6 DEF PrepareFails, Interrupt, Return, Verdict, Go, Outcomes
  <2>3. \A o \in Outcomes :
          Settling("record", i, o) \in Worker /\ Settling("record", i, o).step = "record"
    BY <2>1 DEF Settling, Worker, Steps
  <2> QED BY <2>2, <2>3, LeavingIsDropping
<1>7. CASE Dispatch(h)
  <2>1. i \in Items /\ Holds(h, i)
    BY <1>7 DEF Dispatch, Holds, OutboxInv, StepTellsEffect
  <2>2. \A g \in Hosts \ {h} : ~Holds(g, i)
    BY <2>1 DEF Holds, OutboxInv, OneHolder, Holding
  <2>3. Permits' = Permits \ {i} /\ i \in Permits
    BY <1>7, <2>1, <2>2 DEF Dispatch, Permits, Holds, Step, Item, Go, On, OutboxInv, TypeOK
  <2>4. Contract!Run(i)
    BY <1>7, <2>3 DEF Dispatch, Contract!Run, Permits
  <2> QED BY <2>1, <2>4 DEF Contract!Next
<1>8. CASE Record(h)
  <2>1. i \in Items /\ Permits' = Permits
    BY <1>8 DEF Record, Permits, Holds, Step, Item, Go, At, OutboxInv, TypeOK, StepTellsEffect
  <2>2. CASE UNCHANGED status
    BY <1>8, <2>1, <2>2 DEF Record, Contract!vars, Permits
  <2>3. CASE status[i] = "running" /\ Set(i, worker[h].outcome)
    <3>1. i \notin Permits
      BY <1>8 DEF Record, Permits, Holds, Holding, OutboxInv, OneHolder, Step, Item
    <3>2. Contract!Settle(i, worker[h].outcome)
      BY <1>8, <2>1, <2>3, <3>1
      DEF Record, Set, Contract!Settle, Permits, OutboxInv, StepTellsEffect
    <3> QED BY <2>1, <3>2 DEF Contract!Next, OutboxInv, TypeOK, Worker, Outcomes
  <2> QED BY <1>8, <2>2, <2>3 DEF Record, Recorded
<1> QED BY <1>1, <1>2, <1>3, <1>4, <1>5, <1>6, <1>7, <1>8 DEF Run

LEMMA OthersRefine ==
  ASSUME OutboxInv, NEW h \in Hosts, Late(h) \/ Operator(h)
  PROVE  [Contract!Next]_(Contract!vars)
<1> DEFINE i == Item(h)
<1>1. CASE LateClaim(h)
  <2>1. i \in Items /\ Permits' = Permits
    BY <1>1 DEF LateClaim, Claimed, Permits, Holds, Step, Item, Go, At, OutboxInv, TypeOK, StepTellsEffect
  <2>2. CASE UNCHANGED status
    BY <1>1, <2>1, <2>2 DEF LateClaim, Claimed, Contract!vars, Permits
  <2>3. CASE status[i] = "pending" /\ Set(i, "failed")
    BY <1>1, <2>1, <2>3 DEF LateClaim, Claimed, Set, Contract!Reject, Contract!Next, Permits
  <2>4. CASE status[i] = "pending" /\ Set(i, "running")
    BY <1>1, <2>1, <2>4 DEF LateClaim, Claimed, Set, Contract!Claim, Contract!Next, Permits
  <2> QED BY <1>1, <2>2, <2>3, <2>4 DEF LateClaim, Claimed, Claimable
<1>2. CASE LateRecord(h)
  <2>1. i \in Items /\ Permits' = Permits
    BY <1>2
    DEF LateRecord, Permits, Holds, Step, Item, Go, At, OutboxInv, TypeOK, StepTellsEffect
  <2>2. CASE UNCHANGED status
    BY <1>2, <2>1, <2>2 DEF LateRecord, Contract!vars, Permits
  <2>3. CASE status[i] = "running" /\ Set(i, worker[h].outcome)
    <3>1. i \notin Permits
      BY <1>2 DEF LateRecord, Permits, Holds, Holding, OutboxInv, OneHolder, Step, Item
    <3>2. Contract!Settle(i, worker[h].outcome)
      BY <1>2, <2>1, <2>3, <3>1
      DEF LateRecord, Set, Contract!Settle, Permits, OutboxInv, StepTellsEffect
    <3> QED BY <2>1, <3>2 DEF Contract!Next, OutboxInv, TypeOK, Worker, Outcomes
  <2> QED BY <1>2, <2>2, <2>3 DEF LateRecord, Recorded
<1>3. CASE \E j \in Items : MarkUncertain(h, j)
  <2>1. PICK j \in Items : MarkUncertain(h, j)
    BY <1>3
  <2>2. Contract!Settle(j, "uncertain")
    BY <2>1, PermitsStay DEF MarkUncertain, Set, Contract!Settle, Permits
  <2> QED BY <2>2 DEF Contract!Next
<1>4. CASE \E j \in Items : \E resolution \in {"completed", "failed"} : Resolve(h, j, resolution)
  <2>1. PICK j \in Items, resolution \in {"completed", "failed"} : Resolve(h, j, resolution)
    BY <1>4
  <2>2. Contract!Resolve(j, resolution)
    BY <2>1, PermitsStay DEF Resolve, Set, Contract!Resolve, Permits
  <2> QED BY <2>2 DEF Contract!Next
<1> QED BY <1>1, <1>2, <1>3, <1>4 DEF Late, Operator

\* Every behaviour of the hosts' workers, the operator, late calls and crashes
\* is one the contract allows.
THEOREM OutboxImplementsContract == Spec => KeepsContract
<1>1. Init => Contract!Init
  BY DEF Init, Contract!Init, Holds, Step, Item, At
<1>2. OutboxInv /\ [Next]_vars => [Contract!Next]_(Contract!vars)
  <2> SUFFICES ASSUME OutboxInv, [Next]_vars PROVE [Contract!Next]_(Contract!vars)
    OBVIOUS
  <2>1. CASE UNCHANGED vars
    BY <2>1, PermitsStay DEF vars, Contract!vars, Permits
  <2>2. CASE Next
    BY <2>2, LifeRefines, RunRefines, OthersRefine DEF Next
  <2> QED BY <2>1, <2>2
<1> QED BY OutboxInvariant, <1>1, <1>2, PTL DEF Spec, KeepsContract, Contract!Spec

-----------------------------------------------------------------------------
(* What the control-host guard adds: with it, one host serves at a time, so *)
(* neither a recovery nor the operator meets another host's invocation.    *)

OneServes == \A g, h \in Hosts : (Serves(g) /\ Serves(h)) => g = h

\* Abort never meets a recovery, and an exit waits for the abort.
AtWork(h) == Step(h) \in {"recover", "poll", "scan", "claim", "prepare", "ready",
                          "execute", "record"}
WorkersAreServed == \A h \in Hosts : AtWork(h) => Serves(h)

GuardedInv == OneServes /\ WorkersAreServed /\ LiveInvocationIsRunning

\* Before the first boot nobody serves.
LEMMA InitGuardedInv == Init => GuardedInv
BY DEF Init, GuardedInv, OneServes, WorkersAreServed, LiveInvocationIsRunning, AtWork, Serves,
       Step, Item, At

\* The guard is taken by Boot and kept until no step of the worker is left.
LEMMA LifeKeepsGuarded ==
  ASSUME ExclusiveHosts, OutboxInv, GuardedInv, NEW h \in Hosts, Life(h)
  PROVE  GuardedInv'
<1> USE DEF OutboxInv, TypeOK, Serves, Step, Item, Go, At, On, Settling
<1>1. OneServes' /\ WorkersAreServed'
  <2> USE DEF GuardedInv, OneServes, WorkersAreServed, AtWork
  <2>1. CASE Boot(h)
    BY <2>1 DEF Boot, GuardFree
  <2>2. CASE BeginShutdown(h)
    BY <2>2 DEF BeginShutdown
  <2>3. CASE Abort(h)
    BY <2>3 DEF Abort
  <2>4. CASE Exit(h)
    BY <2>4 DEF Exit
  <2>5. CASE Crash(h)
    BY <2>5 DEF Crash
  <2>6. CASE \E i \in Items : Define(h, i) \/ Enqueue(h, i)
    BY <2>6 DEF Define, Enqueue
  <2> QED BY <2>1, <2>2, <2>3, <2>4, <2>5, <2>6 DEF Life
<1>2. LiveInvocationIsRunning'
  <2> USE DEF GuardedInv, LiveInvocationIsRunning
  <2>1. CASE Boot(h)
    BY <2>1 DEF Boot
  <2>2. CASE BeginShutdown(h)
    BY <2>2 DEF BeginShutdown
  <2>3. CASE Abort(h)
    BY <2>3 DEF Abort
  <2>4. CASE Exit(h)
    BY <2>4 DEF Exit
  <2>5. CASE Crash(h)
    BY <2>5 DEF Crash
  <2>6. CASE \E i \in Items : Define(h, i)
    BY <2>6 DEF Define
  <2>7. CASE \E i \in Items : Enqueue(h, i)
    BY <2>7 DEF Enqueue, Set
  <2> QED BY <2>1, <2>2, <2>3, <2>4, <2>5, <2>6, <2>7 DEF Life
<1> QED BY <1>1, <1>2 DEF GuardedInv

\* A step that leaves the hosts alone and puts no worker back to work.
LEMMA ServedStay ==
  ASSUME GuardedInv, TypeOK, UNCHANGED host, NEW h \in Hosts, NEW place,
         AtWork(h) \/ place.step \in {"gone"}, worker' = [worker EXCEPT ![h] = place]
  PROVE  OneServes' /\ WorkersAreServed'
BY DEF GuardedInv, OneServes, WorkersAreServed, AtWork, Serves, TypeOK, Step

\* Its own recovery is over before a worker claims, the rows another worker
\* settles are its own, and the operator is refused what is in flight.
LEMMA RunKeepsGuarded ==
  ASSUME OutboxInv, GuardedInv, NEW h \in Hosts, Run(h)
  PROVE  GuardedInv'
<1>1. OneServes' /\ WorkersAreServed'
  <2>1. UNCHANGED host /\ AtWork(h) /\ \E place : worker' = [worker EXCEPT ![h] = place]
    BY DEF Run, Recover, Poll, Leave, PassDone, Claim, ClaimNothing, Prepare, PrepareFails,
           Dispatch, Interrupt, Record, Take, Return, Go, AtWork
  <2> QED BY <2>1, ServedStay DEF OutboxInv
<1>2. LiveInvocationIsRunning'
  <2> USE DEF OutboxInv, TypeOK, OneHolder, Holding, GuardedInv, LiveInvocationIsRunning,
          Serves, Step, Item, Go, At, On, Settling
  <2>1. CASE Recover(h)
    BY <2>1 DEF Recover, OneServes, WorkersAreServed, AtWork, Disowned
  <2>2. CASE Poll(h) \/ Leave(h) \/ PassDone(h) \/ ClaimNothing(h)
    BY <2>2 DEF Poll, Leave, PassDone, ClaimNothing
  <2>3. CASE \E i \in Items : Take(h, i)
    BY <2>3 DEF Take
  <2>4. CASE Claim(h)
    BY <2>4 DEF Claim, Claimable, Claimed, Set, HeldIsClaimed
  <2>5. CASE Prepare(h) \/ PrepareFails(h)
    BY <2>5 DEF Prepare, PrepareFails
  <2>6. CASE Dispatch(h) \/ Interrupt(h)
    BY <2>6 DEF Dispatch, Interrupt
  <2>7. CASE Record(h)
    BY <2>7 DEF Record, Recorded, Set
  <2>8. CASE \E ok \in BOOLEAN : Return(h, ok)
    BY <2>8 DEF Return
  <2> QED BY <2>1, <2>2, <2>3, <2>4, <2>5, <2>6, <2>7, <2>8 DEF Run
<1> QED BY <1>1, <1>2 DEF GuardedInv

\* A late call moves no row that a worker holds, and the operator no row that
\* is in flight.
LEMMA OthersKeepGuarded ==
  ASSUME OutboxInv, GuardedInv, NEW h \in Hosts, Late(h) \/ Operator(h)
  PROVE  GuardedInv'
<1> USE DEF OutboxInv, TypeOK, OneHolder, Holding, Serves, Step, Item, Go, At, Set
<1>1. CASE Late(h)
  <2>1. OneServes' /\ WorkersAreServed'
    BY <1>1, ServedStay DEF Late, LateClaim, LateRecord
  <2>2. CASE LateClaim(h)
    BY <2>1, <2>2 DEF LateClaim, Claimable, Claimed, HeldIsClaimed, GuardedInv,
                      LiveInvocationIsRunning
  <2>3. CASE LateRecord(h)
    BY <2>1, <2>3 DEF LateRecord, Recorded, GuardedInv, LiveInvocationIsRunning
  <2> QED BY <1>1, <2>2, <2>3 DEF Late
<1>2. CASE Operator(h)
  <2>1. OneServes' /\ WorkersAreServed'
    BY <1>2 DEF Operator, MarkUncertain, Resolve, GuardedInv, OneServes, WorkersAreServed, AtWork
  <2>2. CASE \E i \in Items : MarkUncertain(h, i)
    BY <2>1, <2>2 DEF MarkUncertain, InFlight, GuardedInv, OneServes, LiveInvocationIsRunning
  <2>3. CASE \E i \in Items, resolution \in {"completed", "failed"} : Resolve(h, i, resolution)
    BY <2>1, <2>3 DEF Resolve, GuardedInv, LiveInvocationIsRunning
  <2> QED BY <1>2, <2>2, <2>3 DEF Operator
<1> QED BY <1>1, <1>2

\* Together with the holders of the rows, the guard's promise is inductive.
LEMMA GuardedInvariant ==
  ASSUME ExclusiveHosts PROVE Spec => [](OutboxInv /\ GuardedInv)
<1>1. OutboxInv /\ GuardedInv /\ UNCHANGED vars => GuardedInv'
  BY DEF GuardedInv, OneServes, WorkersAreServed, LiveInvocationIsRunning, AtWork, Serves,
         Step, Item, vars
<1>2. OutboxInv /\ GuardedInv /\ [Next]_vars => GuardedInv'
  BY <1>1, LifeKeepsGuarded, RunKeepsGuarded, OthersKeepGuarded DEF Next
<1> QED BY InitGuardedInv, OutboxInvariant, <1>2, PTL DEF Spec

\* Among any number of hosts started under the guard, however they crash and
\* however late their calls commit: the row of an action that a worker is
\* preparing, running or about to record says running.
THEOREM InvocationsAreRunning ==
  ASSUME ExclusiveHosts PROVE Spec => []LiveInvocationIsRunning
<1>1. GuardedInv => LiveInvocationIsRunning
  BY DEF GuardedInv
<1> QED BY GuardedInvariant, <1>1, PTL

\* The comment at the start of the worker, for any number of hosts started
\* under the guard: a row that recovery disowns is executed by nobody.
THEOREM RecoveryTakesFromTheDead ==
  ASSUME ExclusiveHosts PROVE Spec => RunningBelongsToTheDead
<1> DEFINE Spares ==
      \A i \in Items :
        (\E h \in Hosts : Step(h) = "recover" /\ status[i] = "running" /\ status'[i] = "uncertain"
                          /\ worker'[h].step = "poll")
          => ~ \E g \in Hosts : Step(g) = "execute" /\ Item(g) = i
<1>1. OutboxInv /\ GuardedInv => Spares
  BY DEF GuardedInv, OneServes, WorkersAreServed, AtWork
<1> QED BY GuardedInvariant, <1>1, PTL DEF RunningBelongsToTheDead
=============================================================================
