-------------------------- MODULE CompetitionProofs --------------------------
(***************************************************************************)
(* Proofs about Competition for any hosts, events, voters and options.     *)
(***************************************************************************)
EXTENDS CompetitionInvariant, FiniteSetTheorems, TLAPS

-----------------------------------------------------------------------------
(* What the operators return.                                              *)

\* The sums read from the ledger are numbers.
LEMMA LedgerType == Ledger \in [Options -> Int]
<1>1. ASSUME NEW o \in Options PROVE VoteTotal(o) \in Nat
  <2> DEFINE All  == Voters \X (1 .. VoteLimit)
             Cast == {p \in All : /\ assigned[p[1]] # NoAssignment
                                  /\ assigned[p[1]].option = o
                                  /\ p[2] <= assigned[p[1]].votes}
  <2>1. IsFiniteSet(All)
    <3>1. IsFiniteSet(1 .. VoteLimit)
      BY FS_Interval, ConstantsAssumption
    <3> QED BY <3>1, FS_Product, ConstantsAssumption
  <2>2. IsFiniteSet(Cast)
    BY <2>1, FS_Subset
  <2> QED BY <2>2, FS_CardinalityType DEF VoteTotal
<1>2. ASSUME NEW o \in Options PROVE ScoredTotal(o) \in Nat
  <2>1. IsFiniteSet({e \in Events : Kind[e] = "like" /\ receipt[e] = o})
    BY FS_Subset, ConstantsAssumption
  <2> QED BY <2>1, FS_CardinalityType DEF ScoredTotal
<1> QED BY <1>1, <1>2 DEF Ledger

\* Moving votes between options keeps the scores numbers.
LEMMA ReassignedType ==
  ASSUME NEW scores \in [Options -> Int],
         NEW from \in Assignment \union {NoAssignment}, NEW to \in Assignment
  PROVE  Reassigned(scores, from, to) \in [Options -> Int]
<1>1. to.votes \in Int
  BY ConstantsAssumption DEF Assignment
<1>2. from # NoAssignment => from.votes \in Int
  BY ConstantsAssumption DEF Assignment
<1> QED BY <1>1, <1>2 DEF Reassigned

\* The assignment of a counted vote respects the vote limit.
LEMMA NextAssignmentType ==
  ASSUME NEW old \in Assignment \union {NoAssignment}, NEW o \in Options
  PROVE  NextAssignment(old, o) \in Assignment
<1>1. CASE old = NoAssignment
  BY <1>1, ConstantsAssumption DEF NextAssignment, Assignment
<1>2. CASE old # NoAssignment
  <2>1. old.votes \in 1 .. VoteLimit
    BY <1>2 DEF Assignment
  <2> QED BY <1>2, <2>1, ConstantsAssumption DEF NextAssignment, Assignment
<1> QED BY <1>1, <1>2

\* The weights a selection looks at are numbers.
LEMMA WeighedType ==
  ASSUME NEW scores \in [Options -> Int] PROVE Weighed(scores) \in Weights
BY DEF Weighed, Weights

\* Every policy names a candidate or nobody.
LEMMA WinnersType ==
  ASSUME NEW weights \in Weights, NEW manual \in Options \union {NoWinner},
         NEW w \in Winners(weights, manual)
  PROVE  w \in Options \union Voters \union {NoWinner}
<1> DEFINE leaders == Leaders(weights)
<1>1. leaders \subseteq Options \union Voters /\ Candidates(weights) \subseteq Options \union Voters
  BY DEF Leaders, Candidates
<1>2. Cardinality(leaders) >= 2 => leaders # {}
  BY FS_EmptySet
<1>3. Cardinality(leaders) >= 2 => (CHOOSE k \in leaders : TRUE) \in leaders
  BY <1>2
<1> QED BY <1>1, <1>3, ConstantsAssumption DEF Winners

-----------------------------------------------------------------------------
(* The shapes of the work a host can have.                                 *)

\* What each step of an operation carries.
LEMMA WorkFields ==
  ASSUME NEW w \in Work
  PROVE  /\ w.step = "claim" => w.seen \in Lifecycles
         /\ w.step = "totals" => w.clean \in BOOLEAN
         /\ w.step = "reassign" => w.from \in Assignment \union {NoAssignment} /\ w.to \in Assignment
         /\ w.step = "credit" => w.option \in Options
         /\ w.step = "finalize" => w.manual \in Options \union {NoWinner}
         /\ w.step = "store" => /\ w.winner \in Options \union Voters \union {NoWinner}
                               /\ w.eligible \in Weights
         /\ w.step = "save" => w.clean \in BOOLEAN
BY DEF Work, Idle

\* And the other way round.
LEMMA WorkShapes ==
  /\ Idle \in Work
  /\ \A l \in Lifecycles : [step |-> "claim", seen |-> l] \in Work
  /\ \A b \in BOOLEAN : /\ [step |-> "totals", clean |-> b] \in Work
                        /\ [step |-> "save", clean |-> b] \in Work
  /\ \A o \in Options : [step |-> "credit", option |-> o] \in Work
  /\ \A m \in Options \union {NoWinner} : [step |-> "finalize", manual |-> m] \in Work
  /\ \A from \in Assignment \union {NoAssignment}, to \in Assignment :
       [step |-> "reassign", from |-> from, to |-> to] \in Work
  /\ \A w \in Options \union Voters \union {NoWinner}, e \in Weights :
       [step |-> "store", winner |-> w, eligible |-> e] \in Work
BY DEF Work

-----------------------------------------------------------------------------
(* Type correctness, with the generation it needs: a start counts it from  *)
(* zero to one.                                                            *)

Typed == TypeOK /\ GenerationInv

LEMMA InitTyped == Init => Typed
<1> SUFFICES ASSUME Init PROVE Typed
  OBVIOUS
<1>1. Absent \in LifecycleState /\ Absent.lifecycle = "absent" /\ Absent.generation = 0
  BY DEF Absent, LifecycleState, Lifecycles
<1>2. GenerationInv
  BY <1>1 DEF Init, GenerationInv, InUse
<1>3. TypeOK
  <2>1. /\ state \in LifecycleState
        /\ assigned \in [Voters -> Assignment \union {NoAssignment}]
        /\ receipt \in [Events -> Options \union {Unscored, NoReceipt}]
        /\ checkpoint \in {"none", "open", "clean", "degraded"}
        /\ owner \in Hosts \union {NoHost}
        /\ result = NoResult
    BY <1>1 DEF Init
  <2>2. /\ phase \in [Hosts -> Phases]
        /\ work \in [Hosts -> Work]
        /\ held \in [Hosts -> [event : Events, at : Int, late : BOOLEAN] \union {NoEvent}]
        /\ engine \in [Hosts -> [Options -> Int]]
    BY WorkShapes DEF Init, Phases, NoScores
  <2>3. /\ degraded \in [Hosts -> BOOLEAN]
        /\ complete \in [Hosts -> BOOLEAN]
        /\ known \in [Hosts -> BOOLEAN]
        /\ rankingPaused \in [Hosts -> BOOLEAN]
        /\ now \in Nat /\ creates \in Nat /\ ran \in Nat
        /\ lost \in BOOLEAN /\ abandoned \in BOOLEAN
    BY DEF Init
  <2> QED BY <2>1, <2>2, <2>3 DEF TypeOK
<1> QED BY <1>2, <1>3 DEF Typed

LEMMA BootTyped ==
  ASSUME Typed, NEW h \in Hosts, Boot(h)
  PROVE  Typed'
<1> USE WorkShapes, ConstantsAssumption
    DEF Typed, TypeOK, GenerationInv, Phases, durable, memory, history
<1>1. CASE BootRead(h)
  BY <1>1 DEF BootRead, LifecycleState
<1>2. CASE BootClaim(h)
  <2>1. WasClean \in BOOLEAN
    BY DEF WasClean
  <2>2. lost' \in BOOLEAN /\ abandoned' \in BOOLEAN
    BY <1>2 DEF BootClaim
  <2>3. work' \in [Hosts -> Work]
    <3>1. PICK b \in BOOLEAN : work' = [work EXCEPT ![h] = [step |-> "totals", clean |-> b]]
      BY <1>2, <2>1 DEF BootClaim
    <3> QED BY <3>1
  <2>4. checkpoint' \in {"none", "open", "clean", "degraded"} /\ owner' \in Hosts \union {NoHost}
    BY <1>2 DEF BootClaim
  <2> QED BY <1>2, <2>2, <2>3, <2>4 DEF BootClaim
<1>3. CASE BootTotals(h)
  BY <1>3, LedgerType, WorkFields DEF BootTotals
<1>4. CASE BootFailed(h)
  BY <1>4 DEF BootFailed
<1> QED BY <1>1, <1>2, <1>3, <1>4 DEF Boot

\* A step that touches what a host holds, its gap mark and the history alone.
LEMMA LightStepTyped ==
  ASSUME Typed,
         UNCHANGED <<durable, phase, work, engine, complete, known, rankingPaused,
                     now, creates, ran>>,
         held' \in [Hosts -> [event : Events, at : Int, late : BOOLEAN] \union {NoEvent}],
         degraded' \in [Hosts -> BOOLEAN], lost' \in BOOLEAN, abandoned' \in BOOLEAN
  PROVE  Typed'
<1>1. GenerationInv'
  BY DEF Typed, GenerationInv, durable
<1>2. TypeOK'
  BY DEF Typed, TypeOK, durable
<1> QED BY <1>1, <1>2 DEF Typed

\* What such a step does to the two functions.
LEMMA ReleaseTyped ==
  ASSUME Typed, NEW h \in Hosts, Release(h)
  PROVE  held' \in [Hosts -> [event : Events, at : Int, late : BOOLEAN] \union {NoEvent}]
BY DEF Typed, TypeOK, Release

LEMMA MarkGapTyped ==
  ASSUME Typed, NEW h \in Hosts, MarkGap(h)
  PROVE  degraded' \in [Hosts -> BOOLEAN]
<1>1. Gap(h) \in BOOLEAN
  BY DEF Typed, TypeOK, Gap
<1> QED BY <1>1 DEF Typed, TypeOK, MarkGap

LEMMA SameTyped ==
  ASSUME Typed
  PROVE  /\ held \in [Hosts -> [event : Events, at : Int, late : BOOLEAN] \union {NoEvent}]
         /\ degraded \in [Hosts -> BOOLEAN] /\ lost \in BOOLEAN /\ abandoned \in BOOLEAN
BY DEF Typed, TypeOK

LEMMA IngressTyped ==
  ASSUME Typed, NEW h \in Hosts, Ingress(h)
  PROVE  Typed'
<1> USE WorkShapes, ConstantsAssumption
    DEF Typed, TypeOK, GenerationInv, Phases, durable, memory, history
<1> DEFINE e == held[h].event
<1>1. CASE \E f \in Events : Receive(h, f)
  BY <1>1 DEF Receive, IsDue
<1>2. CASE Lag(h)
  <2>1. lost' \in BOOLEAN
    BY <1>2 DEF Lag
  <2>2. UNCHANGED <<durable, phase, work, held, engine, complete, known, rankingPaused,
                    now, creates, ran, abandoned>> /\ MarkGap(h)
    BY <1>2 DEF Lag
  <2> HIDE DEF durable, Typed, TypeOK
  <2> QED BY <2>1, <2>2, SameTyped, MarkGapTyped, LightStepTyped
<1>3. CASE RouteClosed(h)
  <2>1. lost' \in BOOLEAN
    BY <1>3 DEF RouteClosed
  <2>2. /\ UNCHANGED <<durable, phase, work, engine, degraded, complete, known, rankingPaused,
                       now, creates, ran, abandoned>>
        /\ Release(h)
    BY <1>3 DEF RouteClosed
  <2> HIDE DEF durable, Typed, TypeOK
  <2> QED BY <2>1, <2>2, SameTyped, ReleaseTyped, LightStepTyped
<1>9. CASE RouteDuplicate(h)
  <2>1. /\ UNCHANGED <<durable, phase, work, engine, degraded, complete, known, rankingPaused,
                       now, creates, ran, lost, abandoned>>
        /\ Release(h)
    BY <1>9 DEF RouteDuplicate
  <2> HIDE DEF durable, Typed, TypeOK
  <2> QED BY <2>1, SameTyped, ReleaseTyped, LightStepTyped
<1>4. held[h] # NoEvent => /\ e \in Events /\ Sender(h) \in Voters /\ Named(h) \in Options
  BY DEF Sender, Named
<1>5. CASE RouteIgnored(h)
  <2>1. Tombstone(h) \in Options \union {Unscored, NoReceipt}
    BY <1>4, <1>5 DEF Tombstone, RouteIgnored, Admitting, Routing
  <2> QED BY <1>5, <2>1 DEF RouteIgnored, Release
<1>6. CASE RouteVote(h)
  <2> DEFINE to == NextAssignment(assigned[Sender(h)], Named(h))
  <2>1. e \in Events /\ Sender(h) \in Voters /\ Named(h) \in Options
    BY <1>4, <1>6 DEF RouteVote, Admitting, Routing
  <2>2. to \in Assignment
    BY <2>1, NextAssignmentType
  <2> QED BY <1>6, <2>1, <2>2 DEF RouteVote, Release
<1>7. CASE RouteLike(h)
  <2> DEFINE o == assigned[Sender(h)].option
  <2>1. e \in Events /\ Sender(h) \in Voters
    BY <1>4, <1>7 DEF RouteLike, Admitting, Routing
  <2>2. o \in Options
    BY <1>7, <2>1 DEF RouteLike, Refused, Assignment
  <2> QED BY <1>7, <2>1, <2>2 DEF RouteLike, Release
<1>8. CASE RouteFailed(h) \/ RouteInvalid(h)
  <2>1. lost' \in BOOLEAN
    BY <1>8 DEF RouteFailed, RouteInvalid
  <2>2. MarkGap(h) \/ UNCHANGED degraded
    BY <1>8 DEF RouteFailed, RouteInvalid
  <2>3. /\ UNCHANGED <<durable, phase, work, engine, complete, known, rankingPaused,
                       now, creates, ran, abandoned>>
        /\ Release(h)
    BY <1>8 DEF RouteFailed, RouteInvalid
  <2> HIDE DEF durable, Typed, TypeOK
  <2>4. degraded' \in [Hosts -> BOOLEAN]
    BY <2>2, SameTyped, MarkGapTyped
  <2> QED BY <2>1, <2>3, <2>4, SameTyped, ReleaseTyped, LightStepTyped
<1> QED BY <1>1, <1>2, <1>3, <1>5, <1>6, <1>7, <1>8, <1>9 DEF Ingress, Route

LEMMA ApplyTyped ==
  ASSUME Typed, NEW h \in Hosts, Apply(h)
  PROVE  Typed'
<1> USE WorkShapes, ConstantsAssumption
    DEF Typed, TypeOK, GenerationInv, Phases, durable, memory, history
<1>1. CASE ApplyVote(h)
  <2>1. Reassigned(engine[h], work[h].from, work[h].to) \in [Options -> Int]
    BY <1>1, WorkFields, ReassignedType DEF ApplyVote
  <2> QED BY <1>1, <2>1 DEF ApplyVote
<1>2. CASE ApplyLike(h)
  BY <1>2, WorkFields DEF ApplyLike
<1>3. CASE ApplyFailed(h)
  BY <1>3 DEF ApplyFailed, MarkGap, Gap
<1> QED BY <1>1, <1>2, <1>3 DEF Apply

\* Each transition leaves a well-formed record.
LEMMA TransitionsTyped ==
  ASSUME NEW s \in LifecycleState, NEW t \in Nat, s.lifecycle = "draft" => s.generation = 0
  PROVE  /\ CanStart(s) => Started(s, t) \in LifecycleState
         /\ CanPause(s, t) => Paused(s, t) \in LifecycleState
         /\ CanResume(s) => Resumed(s, t) \in LifecycleState
         /\ \A l \in Lifecycles : Closed(s, l) \in LifecycleState
<1> USE DEF LifecycleState, Lifecycles
<1>0. ASSUME NEW span \in Int \union {NoTime} PROVE After(t, span) \in Int \union {NoTime}
  BY <1>0 DEF After
<1>1. CanStart(s) => Started(s, t) \in LifecycleState
  <2>0. Duration \in Int \union {NoTime}
    BY DurationAssumption
  <2>1. After(t, Duration) \in Int \union {NoTime}
    BY <1>0, <2>0
  <2>2. s.lifecycle = "draft" => s.generation + 1 \in {0, 1}
    OBVIOUS
  <2> HIDE DurationAssumption
  <2> QED BY <2>1, <2>2 DEF CanStart, Started
<1>2. CanPause(s, t) => Paused(s, t) \in LifecycleState
  <2> DEFINE left == IF s.deadline = NoTime THEN NoTime ELSE s.deadline - t
  <2>1. left \in Int \union {NoTime}
    OBVIOUS
  <2>2. Paused(s, t) = [s EXCEPT !.lifecycle = "paused", !.deadline = NoTime, !.remaining = left]
    BY DEF Paused
  <2> HIDE DEF left
  <2> QED BY <2>1, <2>2
<1>3. CanResume(s) => Resumed(s, t) \in LifecycleState
  <2>1. After(t, s.remaining) \in Int \union {NoTime}
    BY <1>0
  <2> QED BY <2>1 DEF Resumed
<1>4. \A l \in Lifecycles : Closed(s, l) \in LifecycleState
  BY DEF Closed
<1> QED BY <1>1, <1>2, <1>3, <1>4

\* And says where it went.
LEMMA TransitionsGo ==
  ASSUME NEW s \in LifecycleState, NEW t \in Nat
  PROVE  /\ Started(s, t).lifecycle = "active" /\ Started(s, t).generation = s.generation + 1
         /\ Paused(s, t).lifecycle = "paused" /\ Paused(s, t).generation = s.generation
         /\ Resumed(s, t).lifecycle = "active" /\ Resumed(s, t).generation = s.generation
         /\ \A l \in Lifecycles : Closed(s, l).lifecycle = l /\ Closed(s, l).generation = s.generation
BY DEF LifecycleState, Started, Paused, Resumed, Closed

\* A row that is new or gone has generation zero.
LEMMA NewRows ==
  /\ Draft \in LifecycleState /\ Draft.lifecycle = "draft" /\ Draft.generation = 0
  /\ Absent \in LifecycleState /\ Absent.lifecycle = "absent" /\ Absent.generation = 0
BY DEF Draft, Absent, LifecycleState, Lifecycles

LEMMA ControlTyped ==
  ASSUME Typed, NEW h \in Hosts, Control(h)
  PROVE  Typed'
<1> USE DEF Typed, TypeOK, durable, memory, history
<1>1. CASE Create(h)
  <2>1. state' \in LifecycleState /\ GenerationInv'
    BY <1>1, NewRows DEF Create, GenerationInv, InUse
  <2> QED BY <1>1, <2>1 DEF Create
<1>2. CASE Delete(h)
  <2>1. state' \in LifecycleState /\ GenerationInv'
    BY <1>2, NewRows DEF Delete, GenerationInv, InUse
  <2> QED BY <1>2, <2>1 DEF Delete, Purged
<1>3. CASE Start(h)
  <2>1. state.lifecycle = "draft" /\ state.generation = 0
    BY <1>3 DEF Start, CanStart, GenerationInv
  <2>2. state' \in LifecycleState /\ GenerationInv'
    BY <1>3, <2>1, TransitionsTyped, TransitionsGo DEF Start, GenerationInv
  <2> QED BY <1>3, <2>2 DEF Start
<1>4. CASE Pause(h) \/ Resume(h)
  <2>1. state.lifecycle \in {"active", "paused"} /\ state.generation = 1
    BY <1>4 DEF Pause, Resume, CanPause, CanResume, GenerationInv, InUse
  <2>2. state' \in LifecycleState
    BY <1>4, <2>1, TransitionsTyped DEF Pause, Resume, Transition
  <2>3. GenerationInv'
    BY <1>4, <2>1, TransitionsGo DEF Pause, Resume, Transition, GenerationInv
  <2> QED BY <1>4, <2>2, <2>3 DEF Pause, Resume, Transition
<1>5. CASE Cancel(h)
  <2>1. "cancelled" \in Lifecycles
    BY DEF Lifecycles
  <2>2. state' \in LifecycleState
    BY <1>5, <2>1, TransitionsTyped DEF Cancel, Transition, GenerationInv
  <2>3. GenerationInv'
    BY <1>5, <2>1, TransitionsGo DEF Cancel, Transition, GenerationInv, InUse
  <2> QED BY <1>5, <2>2, <2>3 DEF Cancel, Transition
<1>6. CASE Finish(h) \/ ExpireDue(h)
  <2>1. "finalizing" \in Lifecycles /\ state.generation = 1
    BY <1>6 DEF Lifecycles, Finish, ExpireDue, Closes, Owns
  <2>2. state' = Closed(state, "finalizing")
    BY <1>6 DEF Finish, ExpireDue, Closes
  <2>3. state' \in LifecycleState
    BY <2>1, <2>2, TransitionsTyped DEF GenerationInv
  <2>4. GenerationInv'
    BY <2>1, <2>2, TransitionsGo DEF GenerationInv
  <2>5. [step |-> "finalize", manual |-> NoWinner] \in Work
    BY WorkShapes
  <2> QED BY <1>6, <2>3, <2>4, <2>5 DEF Finish, ExpireDue, Closes
<1>7. CASE Retry(h) \/ \E o \in Options : SelectWinner(h, o)
  <2>1. PICK m \in Options \union {NoWinner} :
          work' = [work EXCEPT ![h] = [step |-> "finalize", manual |-> m]]
    BY <1>7 DEF Retry, SelectWinner
  <2>2. work' \in [Hosts -> Work]
    BY <2>1, WorkShapes
  <2> QED BY <1>7, <2>2 DEF Retry, SelectWinner, GenerationInv
<1> QED BY <1>1, <1>2, <1>3, <1>4, <1>5, <1>6, <1>7 DEF Control

LEMMA FinalizeTyped ==
  ASSUME Typed, NEW h \in Hosts, Finalize(h)
  PROVE  Typed'
<1> USE WorkShapes, ConstantsAssumption
    DEF Typed, TypeOK, GenerationInv, InUse, Lifecycles, durable, memory, history
<1>1. CASE Select(h)
  <2>1. Eligible(h) \in Weights
    BY WeighedType DEF Eligible
  <2>2. work[h].manual \in Options \union {NoWinner}
    BY <1>1, WorkFields DEF Select
  <2>3. PICK w \in Winners(Eligible(h), work[h].manual) :
          work' = [work EXCEPT ![h] = [step |-> "store", winner |-> w, eligible |-> Eligible(h)]]
    BY <1>1 DEF Select
  <2>4. w \in Options \union Voters \union {NoWinner}
    BY <2>1, <2>2, WinnersType
  <2> QED BY <1>1, <2>1, <2>3, <2>4 DEF Select
<1>2. CASE SelectRefused(h) \/ StoreRefused(h)
  <2>1. work' = [work EXCEPT ![h] = Idle] /\ UNCHANGED <<durable, phase, held, memory, now, history>>
    BY <1>2 DEF SelectRefused, StoreRefused
  <2> QED BY <2>1
<1>3. CASE StoreResult(h)
  <2>1. result' \in [winner : Options \union Voters \union {NoWinner}, eligible : Weights]
    BY <1>3, WorkFields DEF StoreResult
  <2> QED BY <1>3, <2>1, TransitionsTyped, TransitionsGo DEF StoreResult, CanStore, Owns
<1> QED BY <1>1, <1>2, <1>3 DEF Finalize

LEMMA RankingTyped ==
  ASSUME Typed, NEW h \in Hosts, Ranking(h)
  PROVE  Typed'
<1> USE DEF Typed, TypeOK, GenerationInv, durable, memory, history
<1>1. CASE RankingReset(h)
  BY <1>1 DEF RankingReset, NoScores
<1>2. CASE RankingPause(h) \/ RankingResume(h)
  BY <1>2 DEF RankingPause, RankingResume
<1> QED BY <1>1, <1>2 DEF Ranking

LEMMA ShutdownTyped ==
  ASSUME Typed, NEW h \in Hosts, Shutdown(h)
  PROVE  Typed'
<1> USE WorkShapes, ConstantsAssumption
    DEF Typed, TypeOK, GenerationInv, Phases, durable, memory, history
<1>1. CASE BeginDrain(h) \/ DrainTimeout(h)
  <2>0. \/ phase' = [phase EXCEPT ![h] = "draining"]
        \/ phase' = [phase EXCEPT ![h] = "aborting"]
    BY <1>1, Zenon DEF BeginDrain, DrainTimeout
  <2>1. phase' \in [Hosts -> Phases]
    BY <2>0
  <2>2. complete' \in [Hosts -> BOOLEAN]
    <3>1. PICK b \in BOOLEAN : complete' = [complete EXCEPT ![h] = b]
      BY <1>1 DEF BeginDrain, DrainTimeout
    <3> QED BY <3>1
  <2>3. UNCHANGED <<durable, work, held, engine, degraded, known, rankingPaused, now, history>>
    BY <1>1 DEF BeginDrain, DrainTimeout
  <2> QED BY <2>1, <2>2, <2>3
<1>2. CASE Abandon(h)
  <2>1. abandoned' \in BOOLEAN
    BY <1>2 DEF Abandon
  <2>2. MarkGap(h) \/ UNCHANGED degraded
    BY <1>2 DEF Abandon
  <2>3. /\ UNCHANGED <<durable, phase, work, engine, complete, known, rankingPaused,
                       now, creates, ran, lost>>
        /\ Release(h)
    BY <1>2 DEF Abandon
  <2> HIDE DEF durable, Typed, TypeOK
  <2>4. degraded' \in [Hosts -> BOOLEAN]
    BY <2>2, SameTyped, MarkGapTyped
  <2> QED BY <2>1, <2>3, <2>4, SameTyped, ReleaseTyped, LightStepTyped
<1>3. CASE CheckpointRead(h)
  <2> DEFINE clean == complete[h] /\ Complete(h)
  <2>1. clean \in BOOLEAN
    OBVIOUS
  <2>2. [step |-> "save", clean |-> clean] \in Work
    BY <2>1
  <2>3. work' \in [Hosts -> Work]
    <3>1. \/ work' = [work EXCEPT ![h] = [step |-> "save", clean |-> clean]]
          \/ UNCHANGED work
      BY <1>3 DEF CheckpointRead
    <3> HIDE DEF clean
    <3> QED BY <2>2, <3>1
  <2>4. phase' \in [Hosts -> Phases]
    <3>1. phase' = [phase EXCEPT ![h] = "saved"] \/ UNCHANGED phase
      BY <1>3, Zenon DEF CheckpointRead
    <3> QED BY <3>1
  <2> QED BY <1>3, <2>3, <2>4 DEF CheckpointRead
<1>4. Gone(h) => lost' \in BOOLEAN /\ abandoned' \in BOOLEAN
  BY DEF Gone
<1>5. CASE CheckpointTimeout(h)
  BY <1>4, <1>5 DEF CheckpointTimeout
<1>6. CASE CheckpointSave(h)
  BY <1>6 DEF CheckpointSave
<1>7. CASE LateSave(h)
  BY <1>7 DEF LateSave
<1>8. CASE Exit(h) \/ Crash(h)
  <2>1. Stop(h)
    BY <1>8 DEF Exit, Crash
  <2>2. engine' \in [Hosts -> [Options -> Int]]
    BY <2>1 DEF Stop, NoScores
  <2>3. lost' \in BOOLEAN /\ abandoned' \in BOOLEAN
    BY <1>4, <2>1 DEF Stop
  <2> QED BY <2>1, <2>2, <2>3 DEF Stop
<1> QED BY <1>1, <1>2, <1>3, <1>5, <1>6, <1>7, <1>8 DEF Shutdown

LEMMA TickTyped == Typed /\ Tick => Typed'
BY ConstantsAssumption DEF Tick, Typed, TypeOK, GenerationInv, durable, memory

LEMMA StutterTyped == Typed /\ UNCHANGED vars => Typed'
BY DEF Typed, TypeOK, GenerationInv, vars, durable, memory, history

LEMMA NextTyped == Typed /\ [Next]_vars => Typed'
BY BootTyped, IngressTyped, ApplyTyped, ControlTyped, FinalizeTyped, RankingTyped,
   ShutdownTyped, TickTyped, StutterTyped DEF Next, HostStep

\* Every reachable state is well formed: a vote never exceeds the limit, a
\* generation is counted once, the operations carry what they need.
THEOREM TypeCorrect == Spec => []TypeOK
<1>1. Typed => TypeOK
  BY DEF Typed
<1> QED BY InitTyped, NextTyped, <1>1, PTL DEF Spec

-----------------------------------------------------------------------------
(* A loss is never hidden.  The induction is over CompetitionInvariant!Inv *)
(* without its types, which are proved above.                              *)

Tracks ==
  /\ StageInv /\ WorkInv /\ BootInv /\ LadderInv
  /\ OwnerProjects /\ MemoryInv /\ ClaimInv /\ SaveInv /\ CleanInv /\ StoreInv
  /\ LossNeverHidden

LEMMA InitTracks == Init => Tracks
BY ConstantsAssumption
DEF Init, Tracks, StageInv, WorkInv, BootInv, LadderInv, OwnerProjects, MemoryInv, ClaimInv,
    SaveInv, CleanInv, StoreInv, LossNeverHidden, Idle, Owns, Absent, Serving, InUse

LEMMA BootTracks ==
  ASSUME Typed, Tracks, NEW h \in Hosts, Boot(h)
  PROVE  Tracks'
<1> USE ConstantsAssumption
    DEF Typed, TypeOK, GenerationInv, Tracks, StageInv, WorkInv, BootInv, LadderInv, OwnerProjects,
        MemoryInv, ClaimInv, SaveInv, CleanInv, StoreInv, LossNeverHidden, Idle, Owns, Serving,
        InUse, durable, memory, history
<1>1. CASE BootRead(h)
  BY <1>1 DEF BootRead
<1>2. CASE BootClaim(h)
  <2>1. CASE work[h].seen \notin InUse
    <3>1. /\ phase[h] = "booting" /\ owner # h
          /\ work' = [work EXCEPT ![h] = [step |-> "totals", clean |-> TRUE]]
          /\ UNCHANGED <<state, result, checkpoint, owner, lost, abandoned, phase, held, memory>>
      BY <1>2, <2>1 DEF BootClaim
    <3> QED BY <3>1
  <2>2. CASE work[h].seen \in InUse
    <3>1. /\ phase[h] = "booting" /\ owner # h /\ checkpoint' = "open" /\ owner' = h
          /\ lost' = (lost \/ Forgotten \/ \E g \in Hosts : held[g] # NoEvent /\ LosesAt(g))
          /\ ~abandoned'
          /\ work' = [work EXCEPT ![h] = [step |-> "totals", clean |-> WasClean]]
          /\ UNCHANGED <<state, result, phase, held, memory>>
      BY <1>2, <2>2 DEF BootClaim
    <3>2. WasClean => ~lost'
      BY <3>1 DEF WasClean, Forgotten, LosesAt
    <3>3. lost' => lost \/ (abandoned /\ result = NoResult) \/ state.lifecycle = "active"
      BY <3>1 DEF Forgotten, LosesAt, Accepting
    <3> HIDE DEF WasClean
    <3>4. StageInv' /\ LossNeverHidden'
      BY <3>1, <3>3
    <3>5. WorkInv' /\ BootInv' /\ LadderInv' /\ OwnerProjects'
      BY <3>1
    <3>6. MemoryInv' /\ ClaimInv' /\ SaveInv' /\ CleanInv' /\ StoreInv'
      BY <3>1, <3>2
    <3> QED BY <3>4, <3>5, <3>6
  <2> QED BY <2>1, <2>2
<1>3. CASE BootTotals(h)
  BY <1>3 DEF BootTotals
<1>4. CASE BootFailed(h)
  BY <1>4 DEF BootFailed
<1> QED BY <1>1, <1>2, <1>3, <1>4 DEF Boot

LEMMA ApplyTracks ==
  ASSUME Typed, Tracks, NEW h \in Hosts, Apply(h)
  PROVE  Tracks'
<1> USE ConstantsAssumption
    DEF Typed, TypeOK, GenerationInv, Tracks, StageInv, WorkInv, BootInv, LadderInv, OwnerProjects,
        MemoryInv, ClaimInv, SaveInv, CleanInv, StoreInv, LossNeverHidden, Idle, Owns, Serving,
        InUse, durable, memory, history
<1>1. CASE ApplyVote(h)
  BY <1>1 DEF ApplyVote
<1>2. CASE ApplyLike(h)
  BY <1>2 DEF ApplyLike
<1>3. CASE ApplyFailed(h)
  BY <1>3 DEF ApplyFailed, MarkGap, Gap
<1> QED BY <1>1, <1>2, <1>3 DEF Apply

LEMMA RankingTracks ==
  ASSUME Typed, Tracks, NEW h \in Hosts, Ranking(h)
  PROVE  Tracks'
<1> USE ConstantsAssumption
    DEF Typed, TypeOK, GenerationInv, Tracks, StageInv, WorkInv, BootInv, LadderInv, OwnerProjects,
        MemoryInv, ClaimInv, SaveInv, CleanInv, StoreInv, LossNeverHidden, Idle, Owns, Serving,
        InUse, durable, memory, history, Controlled, RankingFree
<1>1. CASE RankingReset(h)
  BY <1>1 DEF RankingReset
<1>2. CASE RankingPause(h)
  BY <1>2 DEF RankingPause
<1>3. CASE RankingResume(h)
  BY <1>3 DEF RankingResume
<1> QED BY <1>1, <1>2, <1>3 DEF Ranking

LEMMA IngressTracks ==
  ASSUME Typed, Tracks, NEW h \in Hosts, Ingress(h)
  PROVE  Tracks'
<1> USE ConstantsAssumption
    DEF Typed, TypeOK, GenerationInv, Tracks, StageInv, WorkInv, BootInv, LadderInv, OwnerProjects,
        MemoryInv, ClaimInv, SaveInv, CleanInv, StoreInv, LossNeverHidden, Idle, Owns, Serving,
        InUse, durable, memory, history, Release, MarkGap, Gap, LosesAt, Accepting,
        Routing, Admitting, Quiet
<1>1. CASE \E e \in Events : Receive(h, e)
  BY <1>1 DEF Receive
<1>2. CASE Lag(h)
  BY <1>2 DEF Lag
<1>3. CASE RouteClosed(h)
  BY <1>3 DEF RouteClosed
<1>4. CASE RouteDuplicate(h)
  BY <1>4 DEF RouteDuplicate
<1>5. CASE RouteIgnored(h)
  BY <1>5 DEF RouteIgnored
<1>6. CASE RouteVote(h)
  BY <1>6 DEF RouteVote
<1>7. CASE RouteLike(h)
  BY <1>7 DEF RouteLike
<1>8. CASE RouteFailed(h)
  BY <1>8 DEF RouteFailed
<1>9. CASE RouteInvalid(h)
  BY <1>9 DEF RouteInvalid, IsDue
<1> QED BY <1>1, <1>2, <1>3, <1>4, <1>5, <1>6, <1>7, <1>8, <1>9 DEF Ingress, Route

LEMMA ControlTracks ==
  ASSUME Typed, Tracks, NEW h \in Hosts, Control(h)
  PROVE  Tracks'
<1> USE ConstantsAssumption
    DEF Typed, TypeOK, GenerationInv, Tracks, StageInv, WorkInv, BootInv, LadderInv, OwnerProjects,
        MemoryInv, ClaimInv, SaveInv, CleanInv, StoreInv, LossNeverHidden, Idle, Owns, Serving,
        InUse, durable, memory, history, Controlled, Quiet, Transition, Closes
<1>0. \A l \in Lifecycles : Closed(state, l).lifecycle = l /\ Closed(state, l).generation = state.generation
  BY TransitionsGo
<1>1. CASE Create(h)
  BY <1>1, NewRows DEF Create
<1>2. CASE Delete(h)
  BY <1>2, NewRows DEF Delete, Purged
<1>3. CASE Start(h)
  BY <1>3, TransitionsGo DEF Start, CanStart
<1>4. CASE Pause(h)
  BY <1>4, TransitionsGo DEF Pause, CanPause
<1>5. CASE Resume(h)
  BY <1>5, TransitionsGo DEF Resume, CanResume
<1>6. CASE Cancel(h)
  BY <1>6, TransitionsGo DEF Cancel, CanCancel, Lifecycles
<1>7. CASE Finish(h) \/ ExpireDue(h)
  <2>1. state.lifecycle \in {"active", "paused"} /\ Owns(h)
    BY <1>7 DEF Finish, ExpireDue, CanFinish, CanExpire, IsDue
  <2>2. state'.lifecycle = "finalizing" /\ state'.generation = state.generation
    BY <1>7, TransitionsGo DEF Finish, ExpireDue, Lifecycles
  <2>3. /\ phase[h] \in Serving /\ work[h] = Idle
        /\ work' = [work EXCEPT ![h] = [step |-> "finalize", manual |-> NoWinner]]
        /\ UNCHANGED <<assigned, receipt, checkpoint, owner, result, phase, held, memory, now, history>>
    BY <1>7 DEF Finish, ExpireDue
  <2> QED BY <2>1, <2>2, <2>3
<1>8. CASE Retry(h)
  BY <1>8 DEF Retry
<1>9. CASE \E o \in Options : SelectWinner(h, o)
  BY <1>9 DEF SelectWinner
<1> QED BY <1>1, <1>2, <1>3, <1>4, <1>5, <1>6, <1>7, <1>8, <1>9 DEF Control

LEMMA FinalizeTracks ==
  ASSUME Typed, Tracks, NEW h \in Hosts, Finalize(h)
  PROVE  Tracks'
<1> USE ConstantsAssumption
    DEF Typed, TypeOK, GenerationInv, Tracks, StageInv, WorkInv, BootInv, LadderInv, OwnerProjects,
        MemoryInv, ClaimInv, SaveInv, CleanInv, StoreInv, LossNeverHidden, Idle, Owns, Serving,
        InUse, durable, memory, history
<1>1. CASE Select(h)
  BY <1>1 DEF Select, Selectable, Complete
<1>2. CASE SelectRefused(h)
  BY <1>2 DEF SelectRefused
<1>3. CASE StoreResult(h)
  BY <1>3, TransitionsGo DEF StoreResult, CanStore, Lifecycles
<1>4. CASE StoreRefused(h)
  BY <1>4 DEF StoreRefused
<1> QED BY <1>1, <1>2, <1>3, <1>4 DEF Finalize

LEMMA ShutdownTracks ==
  ASSUME Typed, Tracks, NEW h \in Hosts, Shutdown(h)
  PROVE  Tracks'
<1> USE ConstantsAssumption
    DEF Typed, TypeOK, GenerationInv, Tracks, StageInv, WorkInv, BootInv, LadderInv, OwnerProjects,
        MemoryInv, ClaimInv, SaveInv, CleanInv, StoreInv, LossNeverHidden, Idle, Owns, Serving,
        InUse, durable, memory, history, Quiet, Release, MarkGap, Gap, LosesAt, Accepting, Forgotten, Gone
<1>1. CASE BeginDrain(h)
  BY <1>1 DEF BeginDrain
<1>2. CASE DrainTimeout(h)
  BY <1>2 DEF DrainTimeout
<1>3. CASE Abandon(h)
  BY <1>3 DEF Abandon
<1>4. CASE CheckpointRead(h)
  <2>1. CASE ~(known[h] /\ state.lifecycle \in InUse)
    <3>1. /\ phase' = [phase EXCEPT ![h] = "saved"]
          /\ UNCHANGED <<durable, work, held, memory, now, history>>
      BY <1>4, <2>1, Zenon DEF CheckpointRead
    <3> QED BY <1>4, <3>1 DEF CheckpointRead
  <2>2. CASE known[h] /\ state.lifecycle \in InUse
    <3> DEFINE clean == complete[h] /\ Complete(h)
    <3>1. /\ work' = [work EXCEPT ![h] = [step |-> "save", clean |-> clean]]
          /\ UNCHANGED <<durable, phase, held, memory, now, history>>
      BY <1>4, <2>2, Zenon DEF CheckpointRead
    <3>2. clean => complete[h] /\ ~degraded[h]
      BY DEF Complete
    <3> HIDE DEF clean
    <3> QED BY <1>4, <2>2, <3>1, <3>2 DEF CheckpointRead
  <2> QED BY <2>1, <2>2
<1>5. CASE CheckpointTimeout(h)
  BY <1>5 DEF CheckpointTimeout
<1>6. CASE CheckpointSave(h)
  <2>1. \/ UNCHANGED checkpoint
        \/ Owns(h) /\ checkpoint = "open" /\ work[h].clean /\ checkpoint' = "clean"
        \/ Owns(h) /\ checkpoint = "open" /\ checkpoint' = "degraded"
    BY <1>6 DEF CheckpointSave, MaySave
  <2> QED BY <1>6, <2>1 DEF CheckpointSave
<1>7. CASE LateSave(h)
  <2>1. \/ Owns(h) /\ checkpoint = "open" /\ work[h].clean /\ checkpoint' = "clean"
        \/ Owns(h) /\ checkpoint = "open" /\ checkpoint' = "degraded"
    BY <1>7 DEF LateSave, MaySave
  <2> QED BY <1>7, <2>1 DEF LateSave
<1>8. CASE Exit(h)
  BY <1>8 DEF Exit, Stop
<1>9. CASE Crash(h)
  BY <1>9 DEF Crash, Stop
<1> QED BY <1>1, <1>2, <1>3, <1>4, <1>5, <1>6, <1>7, <1>8, <1>9 DEF Shutdown

LEMMA TickTracks == Typed /\ Tracks /\ Tick => Tracks'
BY DEF Tick, Tracks, StageInv, WorkInv, BootInv, LadderInv, OwnerProjects, MemoryInv, ClaimInv,
       SaveInv, CleanInv, StoreInv, LossNeverHidden, Owns, durable, memory

LEMMA StutterTracks == Tracks /\ UNCHANGED vars => Tracks'
BY DEF vars, Tracks, StageInv, WorkInv, BootInv, LadderInv, OwnerProjects, MemoryInv, ClaimInv,
       SaveInv, CleanInv, StoreInv, LossNeverHidden, Owns, durable, memory, history

\* Wherever a loss of the owner happens it is known to whoever decides next.
THEOREM LossesAreTracked == Spec => []Inv
<1>1. Init => Typed /\ Tracks
  BY InitTyped, InitTracks
<1>2. Typed /\ Tracks /\ [Next]_vars => Tracks'
  BY BootTracks, IngressTracks, ApplyTracks, ControlTracks, FinalizeTracks, RankingTracks,
     ShutdownTracks, TickTracks, StutterTracks DEF Next, HostStep
<1>3. Typed /\ Tracks => Inv
  BY DEF Typed, Tracks, Inv
<1> QED BY <1>1, <1>2, <1>3, NextTyped, PTL DEF Spec

\* No result is ever stored over an event that was lost: not with several
\* hosts, not after crashes, takeovers, late checkpoints or recreated ids.
THEOREM NoLossIsHidden == Spec => []LossNeverHidden
<1>1. Inv => LossNeverHidden
  BY DEF Inv
<1> QED BY LossesAreTracked, <1>1, PTL

\* The owner of a running competition always projects what it commits.
THEOREM OwnersProject == Spec => []OwnerProjects
<1>1. Inv => OwnerProjects
  BY DEF Inv
<1> QED BY LossesAreTracked, <1>1, PTL

\* A clean checkpoint is the last word of a host that has finished.
THEOREM CleanCheckpointIsFinal == Spec => []CleanIsFinal
<1>1. Inv => CleanIsFinal
  BY DEF Inv, CleanInv, CleanIsFinal
<1> QED BY LossesAreTracked, <1>1, PTL

-----------------------------------------------------------------------------
(* A decision is final.                                                    *)

\* Only control operations and the store write the lifecycle row, and none of
\* them accepts a finished competition.
LEMMA DecidedStays ==
  ASSUME Inv, NEW h \in Hosts, HostStep(h), result # NoResult
  PROVE  result' = result /\ state' = state
<1>1. state.lifecycle = "finished"
  BY DEF Inv, StageInv
<1>2. CASE Boot(h)
  BY <1>2 DEF Boot, BootRead, BootClaim, BootTotals, BootFailed, durable
<1>3. CASE Ingress(h)
  BY <1>3 DEF Ingress, Receive, Lag, Route, RouteClosed, RouteDuplicate, RouteIgnored, RouteVote,
              RouteLike, RouteFailed, RouteInvalid, durable
<1>4. CASE Apply(h)
  BY <1>4 DEF Apply, ApplyVote, ApplyLike, ApplyFailed, durable
<1>5. CASE Control(h)
  <2>1. ~(Create(h) \/ Delete(h) \/ Start(h) \/ Retry(h) \/ \E o \in Options : SelectWinner(h, o))
    BY <1>1 DEF Create, Delete, Start, CanStart, Retry, SelectWinner
  <2>2. ~(Pause(h) \/ Resume(h) \/ Cancel(h) \/ Finish(h) \/ ExpireDue(h))
    BY <1>1 DEF Pause, CanPause, Resume, CanResume, Cancel, CanCancel, Finish, CanFinish,
                ExpireDue, CanExpire, IsDue
  <2> QED BY <1>5, <2>1, <2>2 DEF Control
<1>6. CASE Finalize(h)
  BY <1>1, <1>6 DEF Finalize, Select, SelectRefused, StoreResult, CanStore, StoreRefused, durable
<1>7. CASE Ranking(h)
  BY <1>7 DEF Ranking, RankingReset, RankingPause, RankingResume, durable
<1>8. CASE Shutdown(h)
  BY <1>8 DEF Shutdown, BeginDrain, DrainTimeout, Abandon, CheckpointRead, CheckpointTimeout,
              CheckpointSave, LateSave, Exit, Crash, Stop, durable
<1> QED BY <1>2, <1>3, <1>4, <1>5, <1>6, <1>7, <1>8 DEF HostStep

\* The result is written once, by whichever host wins the race, and the
\* competition never leaves finished.
THEOREM ResultsAreFinal == Spec => DecisionIsFinal
<1> DEFINE Kept == result # NoResult => result' = result /\ state' = state
<1>1. Inv /\ [Next]_vars => [Kept]_vars
  <2> SUFFICES ASSUME Inv, [Next]_vars, result # NoResult PROVE result' = result /\ state' = state
    OBVIOUS
  <2>1. CASE UNCHANGED vars
    BY <2>1 DEF vars, durable
  <2>2. CASE Tick
    BY <2>2 DEF Tick, durable
  <2>3. CASE \E h \in Hosts : HostStep(h)
    BY <2>3, DecidedStays
  <2> QED BY <2>1, <2>2, <2>3 DEF Next
<1> QED BY LossesAreTracked, <1>1, PTL DEF Spec, DecisionIsFinal

-----------------------------------------------------------------------------
(* Pausing neither buys nor costs time.                                    *)

\* Steps that leave the row, the clock and the running time alone.
LEMMA BudgetFrame ==
  ASSUME BudgetInv, UNCHANGED <<state, now, ran>> PROVE BudgetInv'
BY DEF BudgetInv, ActiveTimeBudget, IsDue

LEMMA TickKeepsBudget ==
  ASSUME Typed, BudgetInv, Tick PROVE BudgetInv'
<1> SUFFICES ASSUME Duration # NoTime PROVE BudgetInv'
  BY DEF BudgetInv
<1>1. /\ Duration \in Nat \ {0} /\ now \in Nat /\ ran \in Nat /\ NoTime \notin Int
      /\ state' = state /\ now' = now + 1
  BY DurationAssumption DEF Typed, TypeOK, Tick, durable
<1>2. CASE state.lifecycle = "active"
  <2>1. state.deadline \in Int /\ state.deadline # NoTime
    BY <1>1, <1>2 DEF LifecycleState, Typed, TypeOK, BudgetInv
  <2>2. CASE now >= state.deadline
    <3>1. ran = Duration /\ ran' = ran
      BY <1>2, <2>1, <2>2 DEF Tick, IsDue, Accepting, BudgetInv, ActiveTimeBudget
    <3>2. now' >= state.deadline
      BY <1>1, <2>1, <2>2
    <3> QED BY <1>1, <1>2, <2>1, <3>1, <3>2 DEF IsDue, BudgetInv, ActiveTimeBudget
  <2>3. CASE ~(now >= state.deadline)
    <3>1. ran + (state.deadline - now) = Duration /\ ran' = ran + 1
      BY <1>2, <2>1, <2>3 DEF Tick, IsDue, Accepting, BudgetInv, ActiveTimeBudget
    <3>2. ran' + (state.deadline - now') = Duration
      BY <1>1, <2>1, <3>1
    <3>3. now' >= state.deadline => ran' = Duration
      BY <1>1, <2>1, <2>3, <3>1, <3>2
    <3> QED BY <1>1, <1>2, <2>1, <3>2, <3>3 DEF IsDue, BudgetInv, ActiveTimeBudget
  <2> QED BY <2>2, <2>3
<1>3. CASE state.lifecycle = "paused"
  <2>1. ran' = ran
    BY <1>3 DEF Tick, Accepting
  <2> QED BY <1>1, <1>3, <2>1 DEF BudgetInv, ActiveTimeBudget
<1>4. CASE state.lifecycle \notin {"active", "paused"}
  BY <1>1, <1>4 DEF BudgetInv, ActiveTimeBudget
<1> QED BY <1>2, <1>3, <1>4

LEMMA ControlKeepsBudget ==
  ASSUME Typed, BudgetInv, NEW h \in Hosts, Control(h) PROVE BudgetInv'
<1> SUFFICES ASSUME Duration # NoTime PROVE BudgetInv'
  BY DEF BudgetInv
<1>0. /\ Duration \in Nat \ {0} /\ now \in Nat /\ ran \in Nat
      /\ NoTime \notin Int /\ state \in LifecycleState
  BY DurationAssumption DEF Typed, TypeOK
<1>1. CASE Create(h) \/ Delete(h) \/ Cancel(h) \/ Finish(h) \/ ExpireDue(h)
  <2>1. state'.lifecycle \notin {"active", "paused"}
    <3>1. \/ state' \in {Draft, Absent}
          \/ \E l \in {"cancelled", "finalizing"} : state' = Closed(state, l)
      BY <1>1 DEF Create, Delete, Cancel, Finish, ExpireDue, Closes, Transition
    <3>2. "cancelled" \in Lifecycles /\ "finalizing" \in Lifecycles
      BY DEF Lifecycles
    <3> QED BY <1>0, <3>1, <3>2, NewRows, TransitionsGo
  <2> QED BY <2>1 DEF BudgetInv, ActiveTimeBudget
<1>2. CASE Start(h)
  <2>1. /\ state'.lifecycle = "active" /\ state'.deadline = now + Duration
        /\ ran' = 0 /\ now' = now
    BY <1>0, <1>2 DEF Start, Started, After, LifecycleState
  <2> QED BY <1>0, <2>1 DEF BudgetInv, ActiveTimeBudget, IsDue
<1>3. CASE Pause(h)
  <2>1. state.lifecycle = "active" /\ state.deadline \in Int /\ now < state.deadline
        /\ ran + (state.deadline - now) = Duration
    BY <1>0, <1>3 DEF Pause, CanPause, IsDue, BudgetInv, ActiveTimeBudget, LifecycleState
  <2>2. /\ state'.lifecycle = "paused" /\ state'.remaining = state.deadline - now
        /\ ran' = ran /\ now' = now
    BY <1>0, <1>3, <2>1 DEF Pause, Transition, Paused, LifecycleState, history
  <2> QED BY <1>0, <2>1, <2>2 DEF BudgetInv, ActiveTimeBudget
<1>4. CASE Resume(h)
  <2>1. state.lifecycle = "paused" /\ state.remaining \in Int
        /\ ran + state.remaining = Duration /\ ran < Duration
    BY <1>0, <1>4 DEF Resume, CanResume, BudgetInv, ActiveTimeBudget, LifecycleState
  <2>2. /\ state'.lifecycle = "active" /\ state'.deadline = now + state.remaining
        /\ ran' = ran /\ now' = now
    BY <1>0, <1>4, <2>1 DEF Resume, Transition, Resumed, After, LifecycleState, history
  <2> QED BY <1>0, <2>1, <2>2 DEF BudgetInv, ActiveTimeBudget, IsDue
<1>5. CASE Retry(h) \/ \E o \in Options : SelectWinner(h, o)
  BY <1>5, BudgetFrame DEF Retry, SelectWinner, durable, history
<1> QED BY <1>1, <1>2, <1>3, <1>4, <1>5 DEF Control

LEMMA OthersKeepBudget ==
  ASSUME Typed, BudgetInv, NEW h \in Hosts,
         Boot(h) \/ Ingress(h) \/ Apply(h) \/ Finalize(h) \/ Ranking(h) \/ Shutdown(h)
  PROVE  BudgetInv'
<1>1. CASE UNCHANGED <<state, now, ran>>
  BY <1>1, BudgetFrame
<1>2. CASE StoreResult(h)
  <2>1. state'.lifecycle = "finished"
    BY <1>2 DEF StoreResult, Closed, Typed, TypeOK, LifecycleState
  <2> QED BY <2>1 DEF BudgetInv, ActiveTimeBudget
<1>3. CASE Boot(h)
  BY <1>1, <1>3 DEF Boot, BootRead, BootClaim, BootTotals, BootFailed, durable, history
<1>4. CASE Ingress(h)
  BY <1>1, <1>4 DEF Ingress, Receive, Lag, Route, RouteClosed, RouteDuplicate, RouteIgnored,
                    RouteVote, RouteLike, RouteFailed, RouteInvalid, durable, history
<1>5. CASE Apply(h) \/ Ranking(h)
  BY <1>1, <1>5 DEF Apply, ApplyVote, ApplyLike, ApplyFailed, Ranking, RankingReset, RankingPause,
                    RankingResume, durable, history
<1>6. CASE Finalize(h)
  BY <1>1, <1>2, <1>6 DEF Finalize, Select, SelectRefused, StoreRefused, durable, history
<1>7. CASE Shutdown(h)
  BY <1>1, <1>7 DEF Shutdown, BeginDrain, DrainTimeout, Abandon, CheckpointRead, CheckpointTimeout,
                    CheckpointSave, LateSave, Exit, Crash, Stop, durable, history
<1> QED BY <1>3, <1>4, <1>5, <1>6, <1>7

\* What has run and what is left always add up to the duration.
THEOREM TimeIsConserved == Spec => []ActiveTimeBudget
<1>1. Init => BudgetInv
  BY DEF Init, Absent, BudgetInv, ActiveTimeBudget
<1>2. Typed /\ BudgetInv /\ [Next]_vars => BudgetInv'
  <2> SUFFICES ASSUME Typed, BudgetInv, [Next]_vars PROVE BudgetInv'
    OBVIOUS
  <2>1. CASE UNCHANGED vars
    BY <2>1, BudgetFrame DEF vars, durable, history
  <2> QED BY <2>1, TickKeepsBudget, ControlKeepsBudget, OthersKeepBudget DEF Next, HostStep
<1>3. BudgetInv => ActiveTimeBudget
  BY DEF BudgetInv, ActiveTimeBudget
<1> QED BY InitTyped, NextTyped, <1>1, <1>2, <1>3, PTL DEF Spec

-----------------------------------------------------------------------------
(* What the control-host guard adds at boot.  The lifecycle and the claim  *)
(* are read in two transactions; with one host at a time nothing deletes   *)
(* and creates the competition in between, so a draft keeps no rows.       *)

Alive(h) == phase[h] \notin {"off", "leaving", "stopped"}

OneAlive == \A g, h \in Hosts : (Alive(g) /\ Alive(h)) => g = h

SeenIsCurrent == \A h \in Hosts : work[h].step = "claim" => work[h].seen = state.lifecycle

NoRows ==
  state.lifecycle \in {"absent", "draft"} =>
    /\ checkpoint = "none" /\ owner = NoHost
    /\ \A v \in Voters : assigned[v] = NoAssignment
    /\ \A e \in Events : receipt[e] = NoReceipt

FreshInv == OneAlive /\ SeenIsCurrent /\ NoRows

\* Only a boot makes a host alive, and only with the guard.
LEMMA AliveStep ==
  ASSUME Inv, ExclusiveHosts, OneAlive, NEW h \in Hosts, HostStep(h)
  PROVE  OneAlive'
<1>1. CASE BootRead(h)
  BY <1>1 DEF BootRead, GuardFree, OneAlive, Alive, Inv, TypeOK
<1>2. CASE ~BootRead(h)
  <2>1. \/ UNCHANGED phase
        \/ \E p : /\ phase' = [phase EXCEPT ![h] = p]
                  /\ Alive(h) \/ p \in {"leaving", "stopped"}
    <3>1. CASE Boot(h)
      BY <1>2, <3>1 DEF Boot, BootClaim, BootTotals, BootFailed, Alive, Inv, WorkInv
    <3>2. CASE Ingress(h)
      BY <3>2 DEF Ingress, Receive, Lag, Route, RouteClosed, RouteDuplicate, RouteIgnored,
                  RouteVote, RouteLike, RouteFailed, RouteInvalid
    <3>3. CASE Apply(h) \/ Ranking(h) \/ Finalize(h)
      BY <3>3 DEF Apply, ApplyVote, ApplyLike, ApplyFailed, Ranking, RankingReset, RankingPause,
                  RankingResume, Finalize, Select, SelectRefused, StoreResult, StoreRefused
    <3>4. CASE Control(h)
      BY <3>4 DEF Control, Create, Delete, Start, Pause, Resume, Cancel, Transition, Finish,
                  ExpireDue, Closes, Retry, SelectWinner
    <3>5. CASE Shutdown(h)
      BY <3>5 DEF Shutdown, BeginDrain, DrainTimeout, Abandon, CheckpointRead, CheckpointTimeout,
                  CheckpointSave, LateSave, Exit, Crash, Stop, Alive, Inv, WorkInv
    <3> QED BY <3>1, <3>2, <3>3, <3>4, <3>5 DEF HostStep
  <2> QED BY <2>1 DEF OneAlive, Alive, Inv, TypeOK
<1> QED BY <1>1, <1>2

\* Operations change the lifecycle, and an operation needs a host that serves.
LEMMA StateMoves ==
  ASSUME Inv, NEW h \in Hosts, HostStep(h)
  PROVE  \/ UNCHANGED state
         \/ phase[h] \in Serving /\ work'[h].step # "claim"
<1>1. CASE Boot(h) \/ Ingress(h)
  BY <1>1 DEF Boot, BootRead, BootClaim, BootTotals, BootFailed, Ingress, Receive, Lag, Route,
              RouteClosed, RouteDuplicate, RouteIgnored, RouteVote, RouteLike, RouteFailed,
              RouteInvalid, durable
<1>2. CASE Apply(h) \/ Ranking(h)
  BY <1>2 DEF Apply, ApplyVote, ApplyLike, ApplyFailed, Ranking, RankingReset, RankingPause,
              RankingResume, durable
<1>3. CASE Finalize(h)
  <2>1. CASE StoreResult(h)
    BY <2>1 DEF StoreResult, Inv, TypeOK, WorkInv, Idle
  <2> QED BY <1>3, <2>1 DEF Finalize, Select, SelectRefused, StoreRefused, durable
<1>4. CASE Control(h)
  BY <1>4 DEF Control, Create, Delete, Start, Pause, Resume, Cancel, Transition, Finish,
              ExpireDue, Closes, Retry, SelectWinner, Controlled, Quiet, Idle, Inv, TypeOK
<1>5. CASE Shutdown(h)
  BY <1>5 DEF Shutdown, BeginDrain, DrainTimeout, Abandon, CheckpointRead, CheckpointTimeout,
              CheckpointSave, LateSave, Exit, Crash, Stop, durable
<1> QED BY <1>1, <1>2, <1>3, <1>4, <1>5 DEF HostStep

\* Only the first read of a boot leaves a claim to make.
LEMMA ClaimsStay ==
  ASSUME Inv, NEW h \in Hosts, HostStep(h), NEW g \in Hosts, work'[g].step = "claim"
  PROVE  work'[g] = work[g] \/ (g = h /\ work'[g].seen = state.lifecycle /\ BootRead(h))
<1> USE DEF Inv, TypeOK, Idle, durable, memory
<1>1. CASE Boot(h)
  BY <1>1 DEF Boot, BootRead, BootClaim, BootTotals, BootFailed
<1>2. CASE Ingress(h)
  BY <1>2 DEF Ingress, Receive, Lag, Route, RouteClosed, RouteDuplicate, RouteIgnored, RouteVote,
              RouteLike, RouteFailed, RouteInvalid
<1>3. CASE Apply(h) \/ Ranking(h)
  BY <1>3 DEF Apply, ApplyVote, ApplyLike, ApplyFailed, Ranking, RankingReset, RankingPause,
              RankingResume
<1>4. CASE Finalize(h)
  BY <1>4 DEF Finalize, Select, SelectRefused, StoreResult, StoreRefused
<1>5. CASE Control(h)
  BY <1>5 DEF Control, Create, Delete, Start, Pause, Resume, Cancel, Transition, Finish,
              ExpireDue, Closes, Retry, SelectWinner
<1>6. CASE Shutdown(h)
  BY <1>6 DEF Shutdown, BeginDrain, DrainTimeout, Abandon, CheckpointRead, CheckpointTimeout,
              CheckpointSave, LateSave, Exit, Crash, Stop
<1> QED BY <1>1, <1>2, <1>3, <1>4, <1>5, <1>6 DEF HostStep

\* Nobody moves the lifecycle while a host stands between its two reads.
LEMMA SeenStaysCurrent ==
  ASSUME Inv, OneAlive, SeenIsCurrent, NEW h \in Hosts, HostStep(h)
  PROVE  SeenIsCurrent'
<1> SUFFICES ASSUME NEW g \in Hosts, work'[g].step = "claim"
             PROVE  work'[g].seen = state'.lifecycle
  BY DEF SeenIsCurrent
<1>1. CASE UNCHANGED state
  BY <1>1, ClaimsStay DEF SeenIsCurrent
<1>2. CASE state' # state
  <2>1. phase[h] \in Serving /\ work'[h].step # "claim"
    BY <1>2, StateMoves
  <2>2. g # h /\ work'[g] = work[g]
    BY <2>1, ClaimsStay
  <2>3. Alive(g) /\ Alive(h)
    BY <2>1, <2>2 DEF Inv, WorkInv, Alive, Serving
  <2> QED BY <2>2, <2>3 DEF OneAlive
<1> QED BY <1>1, <1>2

\* Rows appear with the start, and go with the deletion.
LEMMA RowsStayAway ==
  ASSUME Inv, SeenIsCurrent, NoRows, NEW h \in Hosts, HostStep(h)
  PROVE  NoRows'
<1> USE DEF Inv, NoRows, GenerationInv, InUse, durable
<1>1. CASE UNCHANGED <<state, checkpoint, owner, assigned, receipt>>
  BY <1>1
<1>2. CASE BootClaim(h)
  <2>1. work[h].seen = state.lifecycle
    BY <1>2 DEF BootClaim, SeenIsCurrent
  <2>2. state.lifecycle \in {"absent", "draft"} => UNCHANGED <<checkpoint, owner>>
    BY <1>2, <2>1 DEF BootClaim
  <2> QED BY <1>2, <2>2 DEF BootClaim
<1>3. CASE RouteIgnored(h) \/ RouteVote(h) \/ RouteLike(h)
  BY <1>3 DEF RouteIgnored, RouteVote, RouteLike, Admitting
<1>4. CASE Control(h)
  <2>1. CASE Create(h)
    BY <2>1 DEF Create, Draft
  <2>2. CASE Delete(h)
    BY <2>2 DEF Delete, Purged
  <2>3. CASE Start(h)
    <3>1. state \in LifecycleState /\ now \in Nat /\ state' = Started(state, now)
      BY <2>3 DEF Start, TypeOK
    <3>2. state'.lifecycle = "active"
      BY <3>1, TransitionsGo
    <3> QED BY <3>2
  <2>4. CASE Pause(h) \/ Resume(h) \/ Cancel(h) \/ Finish(h) \/ ExpireDue(h)
    <3>1. state \in LifecycleState /\ now \in Nat
      BY DEF TypeOK
    <3>2. \/ state' \in {Paused(state, now), Resumed(state, now)}
          \/ state' \in {Closed(state, "cancelled"), Closed(state, "finalizing")}
      BY <2>4 DEF Pause, Resume, Cancel, Finish, ExpireDue, Transition, Closes
    <3>3. state'.lifecycle \in {"active", "paused", "cancelled", "finalizing"}
      <4>1. "cancelled" \in Lifecycles /\ "finalizing" \in Lifecycles
        BY DEF Lifecycles
      <4>2. /\ Paused(state, now).lifecycle = "paused"
            /\ Resumed(state, now).lifecycle = "active"
            /\ Closed(state, "cancelled").lifecycle = "cancelled"
            /\ Closed(state, "finalizing").lifecycle = "finalizing"
        BY <3>1, <4>1, TransitionsGo
      <4> QED BY <3>2, <4>2
    <3> QED BY <3>3
  <2>5. CASE Retry(h) \/ \E o \in Options : SelectWinner(h, o)
    BY <1>1, <2>5 DEF Retry, SelectWinner
  <2> QED BY <1>4, <2>1, <2>2, <2>3, <2>4, <2>5 DEF Control
<1>5. CASE StoreResult(h)
  BY <1>5 DEF StoreResult, CanStore, Closed, TypeOK, LifecycleState
<1>6. CASE CheckpointSave(h) \/ LateSave(h)
  BY <1>6 DEF CheckpointSave, LateSave, MaySave, Owns
<1>7. CASE Boot(h) \/ Ingress(h)
  BY <1>1, <1>2, <1>3, <1>7 DEF Boot, BootRead, BootTotals, BootFailed, Ingress, Receive, Lag,
     Route, RouteClosed, RouteDuplicate, RouteFailed, RouteInvalid
<1>8. CASE Apply(h) \/ Ranking(h) \/ Finalize(h)
  BY <1>1, <1>5, <1>8 DEF Apply, ApplyVote, ApplyLike, ApplyFailed, Ranking, RankingReset,
     RankingPause, RankingResume, Finalize, Select, SelectRefused, StoreRefused
<1>9. CASE Shutdown(h)
  BY <1>1, <1>6, <1>9 DEF Shutdown, BeginDrain, DrainTimeout, Abandon, CheckpointRead,
     CheckpointTimeout, Exit, Crash, Stop
<1> QED BY <1>4, <1>7, <1>8, <1>9 DEF HostStep

\* Under the control-host guard a draft, created for the first time or again
\* under a deleted id, has no rows of an earlier run, whatever shutdown, crash
\* or boot goes on: competitions.start can always succeed.
THEOREM DraftsAreFresh == ASSUME ExclusiveHosts PROVE Spec => []FreshDraft
<1>1. Init => FreshInv
  BY DEF Init, FreshInv, OneAlive, Alive, SeenIsCurrent, NoRows, Idle
<1>2. Inv /\ FreshInv /\ [Next]_vars => FreshInv'
  <2> SUFFICES ASSUME Inv, FreshInv, [Next]_vars PROVE FreshInv'
    OBVIOUS
  <2>1. CASE UNCHANGED <<durable, phase, work>>
    BY <2>1 DEF FreshInv, OneAlive, Alive, SeenIsCurrent, NoRows, durable
  <2>2. ASSUME NEW h \in Hosts, HostStep(h) PROVE FreshInv'
    BY <2>2, AliveStep, SeenStaysCurrent, RowsStayAway DEF FreshInv
  <2> QED BY <2>1, <2>2 DEF Next, Tick, vars
<1>3. FreshInv => FreshDraft
  <2> SUFFICES ASSUME FreshInv, state.lifecycle \in {"absent", "draft"} PROVE FreshDraft
    BY DEF FreshDraft
  <2>1. Participants = {} /\ {e \in Events : receipt[e] # NoReceipt} = {}
    BY DEF FreshInv, NoRows, Participants
  <2>2. Contributions = 0
    BY <2>1, FS_EmptySet DEF Contributions
  <2> QED BY <2>1, <2>2 DEF FreshInv, NoRows, FreshDraft
<1> QED BY LossesAreTracked, <1>1, <1>2, <1>3, PTL DEF Spec

-----------------------------------------------------------------------------
(* Why a late event never scores: the deadline it missed stays missed.  A  *)
(* pause would move the deadline, and it asks the same clock again; all    *)
(* that is left is to close, and then to delete and create again.          *)

Missed(s, t) ==
  IsDue(s, t) \/ s.lifecycle \in {"absent", "finalizing", "finished", "cancelled"}

LateInv ==
  /\ state.lifecycle # "absent" => creates >= 1
  /\ \A h \in Hosts : held[h] # NoEvent => held[h].at \in Int /\ held[h].at <= now
  /\ \A h \in Hosts : held[h] # NoEvent /\ held[h].late =>
       creates >= 1 /\ (creates = 1 => Missed(state, held[h].at))

\* An event is received, kept or let go.
LEMMA HeldMoves ==
  ASSUME Typed, NEW h \in Hosts, HostStep(h), NEW g \in Hosts, held'[g] # NoEvent
  PROVE  \/ held'[g] = held[g]
         \/ /\ held'[g].at = now /\ held'[g].late = IsDue(state, now)
            /\ UNCHANGED <<state, creates>>
<1> USE DEF Typed, TypeOK, durable, history, Release
<1>1. CASE Boot(h) \/ Apply(h) \/ Ranking(h) \/ Finalize(h)
  BY <1>1 DEF Boot, BootRead, BootClaim, BootTotals, BootFailed, Apply, ApplyVote, ApplyLike,
              ApplyFailed, Ranking, RankingReset, RankingPause, RankingResume, Finalize, Select,
              SelectRefused, StoreResult, StoreRefused
<1>2. CASE \E e \in Events : Receive(h, e)
  BY <1>2 DEF Receive
<1>3. CASE Lag(h) \/ Route(h)
  BY <1>3 DEF Lag, Route, RouteClosed, RouteDuplicate, RouteIgnored, RouteVote, RouteLike,
              RouteFailed, RouteInvalid
<1>4. CASE Control(h)
  BY <1>4 DEF Control, Create, Delete, Start, Pause, Resume, Cancel, Transition, Finish,
              ExpireDue, Closes, Retry, SelectWinner
<1>5. CASE Shutdown(h)
  BY <1>5 DEF Shutdown, BeginDrain, DrainTimeout, Abandon, CheckpointRead, CheckpointTimeout,
              CheckpointSave, LateSave, Exit, Crash, Stop
<1> QED BY <1>1, <1>2, <1>3, <1>4, <1>5 DEF HostStep, Ingress

\* Every operation leaves a missed deadline missed, or makes a new competition.
LEMMA MissedStays ==
  ASSUME Typed, NEW h \in Hosts, HostStep(h),
         state.lifecycle # "absent" => creates >= 1
  PROVE  /\ now' = now /\ creates' >= creates
         /\ state'.lifecycle # "absent" => creates' >= 1
         /\ \A t \in Int :
              (t <= now /\ creates >= 1 /\ (creates = 1 => Missed(state, t)))
                => (creates' = 1 => Missed(state', t))
<1>0. state \in LifecycleState /\ now \in Nat /\ creates \in Nat /\ NoTime \notin Int
  BY DurationAssumption DEF Typed, TypeOK
<1>1. CASE UNCHANGED <<state, now, creates>>
  BY <1>0, <1>1 DEF Missed, IsDue
<1>2. CASE StoreResult(h)
  <2>1. state'.lifecycle = "finished" /\ UNCHANGED <<now, creates>>
    BY <1>0, <1>2 DEF StoreResult, Closed, LifecycleState, history, CanStore
  <2>2. state.lifecycle = "finalizing"
    BY <1>2 DEF StoreResult, CanStore
  <2> QED BY <1>0, <2>1, <2>2 DEF Missed
<1>3. CASE Control(h)
  <2>1. CASE Create(h)
    BY <1>0, <2>1 DEF Create, Draft, Absent
  <2>2. CASE Delete(h)
    BY <1>0, <2>2 DEF Delete, Absent, Missed
  <2>3. CASE Start(h)
    BY <1>0, <2>3 DEF Start, CanStart, Missed, IsDue, history
  <2>4. CASE Pause(h)
    <3>1. ~IsDue(state, now) /\ state.lifecycle = "active" /\ UNCHANGED <<now, creates>>
      BY <2>4 DEF Pause, CanPause, Transition, history
    <3>2. \A t \in Int : t <= now => ~Missed(state, t)
      BY <1>0, <3>1 DEF Missed, IsDue, LifecycleState
    <3> QED BY <1>0, <3>1, <3>2
  <2>5. CASE Resume(h)
    BY <1>0, <2>5 DEF Resume, CanResume, Transition, Missed, IsDue, history
  <2>6. CASE Cancel(h) \/ Finish(h) \/ ExpireDue(h)
    <3>1. /\ state' \in {Closed(state, "cancelled"), Closed(state, "finalizing")}
          /\ state.lifecycle # "absent" /\ UNCHANGED <<now, creates>>
      BY <2>6 DEF Cancel, Finish, ExpireDue, Transition, Closes, CanCancel, CanFinish,
                  CanExpire, IsDue, history
    <3>2. state'.lifecycle \in {"cancelled", "finalizing"}
      BY <1>0, <3>1 DEF Closed, LifecycleState
    <3> QED BY <1>0, <3>1, <3>2 DEF Missed
  <2>7. CASE Retry(h) \/ \E o \in Options : SelectWinner(h, o)
    BY <1>1, <2>7 DEF Retry, SelectWinner, durable, history
  <2> QED BY <1>3, <2>1, <2>2, <2>3, <2>4, <2>5, <2>6, <2>7 DEF Control
<1>4. CASE Boot(h)
  BY <1>1, <1>4 DEF Boot, BootRead, BootClaim, BootTotals, BootFailed, durable, history
<1>5. CASE Ingress(h)
  BY <1>1, <1>5 DEF Ingress, Receive, Lag, Route, RouteClosed, RouteDuplicate, RouteIgnored,
                    RouteVote, RouteLike, RouteFailed, RouteInvalid, durable, history
<1>6. CASE Apply(h) \/ Ranking(h)
  BY <1>1, <1>6 DEF Apply, ApplyVote, ApplyLike, ApplyFailed, Ranking, RankingReset, RankingPause,
                    RankingResume, durable, history
<1>7. CASE Finalize(h)
  BY <1>1, <1>2, <1>7 DEF Finalize, Select, SelectRefused, StoreRefused, durable, history
<1>8. CASE Shutdown(h)
  BY <1>1, <1>8 DEF Shutdown, BeginDrain, DrainTimeout, Abandon, CheckpointRead, CheckpointTimeout,
                    CheckpointSave, LateSave, Exit, Crash, Stop, durable, history
<1> QED BY <1>3, <1>4, <1>5, <1>6, <1>7, <1>8 DEF HostStep

\* Every step, the clock's too, keeps late events late.
LEMMA LateStays == Typed /\ LateInv /\ [Next]_vars => LateInv'
<1> SUFFICES ASSUME Typed, LateInv, [Next]_vars PROVE LateInv'
  OBVIOUS
<1>1. ASSUME NEW h \in Hosts, HostStep(h) PROVE LateInv'
  <2>1. /\ now' = now /\ creates' >= creates
        /\ state'.lifecycle # "absent" => creates' >= 1
    BY <1>1, MissedStays DEF LateInv
  <2>2. ASSUME NEW g \in Hosts, held'[g] # NoEvent
        PROVE  /\ held'[g].at \in Int /\ held'[g].at <= now'
               /\ held'[g].late => creates' >= 1 /\ (creates' = 1 => Missed(state', held'[g].at))
    <3>1. now \in Nat /\ creates \in Nat /\ creates' \in Nat
      BY <1>1, NextTyped DEF Typed, TypeOK, Next
    <3>2. CASE held'[g] = held[g]
      <4>1. held[g] # NoEvent /\ held[g].at \in Int /\ held[g].at <= now
        BY <2>2, <3>2 DEF LateInv
      <4>2. ASSUME held[g].late
            PROVE  creates' >= 1 /\ (creates' = 1 => Missed(state', held[g].at))
        <5>1. creates >= 1 /\ (creates = 1 => Missed(state, held[g].at))
          BY <4>1, <4>2 DEF LateInv
        <5>2. creates' = 1 => Missed(state', held[g].at)
          BY <1>1, <4>1, <5>1, MissedStays DEF LateInv
        <5> QED BY <2>1, <3>1, <5>1, <5>2
      <4> QED BY <2>1, <3>2, <4>1, <4>2
    <3>3. CASE held'[g] # held[g]
      <4>1. /\ held'[g].at = now /\ held'[g].late = IsDue(state, now)
            /\ UNCHANGED <<state, creates>>
        BY <1>1, <2>2, <3>3, HeldMoves
      <4>2. IsDue(state, now) => creates >= 1 /\ IsDue(state', held'[g].at)
        BY <4>1 DEF IsDue, LateInv
      <4> QED BY <2>1, <3>1, <4>1, <4>2 DEF Missed
    <3> QED BY <3>2, <3>3
  <2> QED BY <2>1, <2>2 DEF LateInv
<1>2. CASE Tick
  BY <1>2 DEF Tick, LateInv, Missed, IsDue, Typed, TypeOK, durable
<1>3. CASE UNCHANGED vars
  BY <1>3 DEF vars, LateInv, Missed, IsDue, durable, history
<1> QED BY <1>1, <1>2, <1>3 DEF Next

\* The step that lets a late event go counts nothing for it.
LEMMA LateCountsNothing ==
  ASSUME Typed, LateInv, NEW g \in Hosts, HostStep(g), NEW h \in Hosts,
         held[h] # NoEvent, held[h].late, held'[h] = NoEvent, creates = 1
  PROVE  assigned' = assigned /\ (work'[h].step = "credit" => work'[h] = work[h])
<1> USE DEF Typed, TypeOK, durable
<1>1. held' # held
  OBVIOUS
<1>2. g = h /\ Missed(state, held[h].at)
  <2>1. \A e \in Events : Receive(g, e) => held[g] = NoEvent /\ \A f \in Hosts \ {g} : held'[f] = held[f]
    BY DEF Receive
  <2>2. CASE Ingress(g)
    BY <2>1, <2>2 DEF Ingress, Lag, Route, RouteClosed, RouteDuplicate, RouteIgnored, RouteVote,
                      RouteLike, RouteFailed, RouteInvalid, Release, LateInv
  <2>3. CASE Boot(g) \/ Apply(g) \/ Ranking(g) \/ Finalize(g) \/ Control(g)
    BY <1>1, <2>3
    DEF Boot, BootRead, BootClaim, BootTotals, BootFailed, Apply, ApplyVote, ApplyLike,
        ApplyFailed, Ranking, RankingReset, RankingPause, RankingResume, Finalize, Select,
        SelectRefused, StoreResult, StoreRefused, Control, Create, Delete, Start, Pause, Resume,
        Cancel, Transition, Finish, ExpireDue, Closes, Retry, SelectWinner
  <2>4. CASE Shutdown(g)
    BY <2>4 DEF Shutdown, BeginDrain, DrainTimeout, Abandon, CheckpointRead, CheckpointTimeout,
                CheckpointSave, LateSave, Exit, Crash, Stop, Release, LateInv
  <2> QED BY <2>2, <2>3, <2>4 DEF HostStep
<1>3. ~Accepting(held[h].at)
  BY <1>2 DEF Missed, Accepting, IsDue
<1>4. ~RouteVote(h) /\ ~RouteLike(h)
  BY <1>3 DEF RouteVote, RouteLike, Refused
<1>5. CASE Ingress(h)
  BY <1>4, <1>5 DEF Ingress, Receive, Lag, Route, RouteClosed, RouteDuplicate, RouteIgnored,
                    RouteFailed, RouteInvalid
<1>6. CASE Shutdown(h)
  BY <1>1, <1>6 DEF Shutdown, BeginDrain, DrainTimeout, Abandon, CheckpointRead,
                    CheckpointTimeout, CheckpointSave, LateSave, Exit, Crash, Stop, Idle
<1>7. CASE Boot(h) \/ Apply(h) \/ Ranking(h) \/ Finalize(h) \/ Control(h)
  BY <1>1, <1>7
  DEF Boot, BootRead, BootClaim, BootTotals, BootFailed, Apply, ApplyVote, ApplyLike,
      ApplyFailed, Ranking, RankingReset, RankingPause, RankingResume, Finalize, Select,
      SelectRefused, StoreResult, StoreRefused, Control, Create, Delete, Start, Pause, Resume,
      Cancel, Transition, Finish, ExpireDue, Closes, Retry, SelectWinner
<1> QED BY <1>2, <1>5, <1>6, <1>7 DEF HostStep

\* An event received at or after the deadline never scores, as a vote or as a
\* like, whatever pause, resume or delay follows, on any number of hosts.
THEOREM LateEventsNeverScore == Spec => NoLateVote
<1> DEFINE Counted ==
      \A h \in Hosts :
        (held[h] # NoEvent /\ held[h].late /\ held'[h] = NoEvent /\ creates = 1)
          => /\ assigned' = assigned
             /\ work'[h].step = "credit" => work'[h] = work[h]
<1>1. Init => LateInv
  BY DEF Init, LateInv, Absent
<1>2. Typed /\ LateInv /\ [Next]_vars => [Counted]_vars
  BY LateCountsNothing DEF Next, Tick
<1> QED BY InitTyped, NextTyped, LateStays, <1>1, <1>2, PTL DEF Spec, NoLateVote

-----------------------------------------------------------------------------
(* Receipts: what is taken once can never be taken again.                  *)

\* A receipt is written for an event that has none, with the assignment of
\* its sender, and it is never the absence of one.
LEMMA ReceiptMoves ==
  ASSUME Typed, NEW h \in Hosts, HostStep(h)
  PROVE  \/ UNCHANGED <<receipt, assigned>>
         \/ Delete(h)
         \/ /\ held[h] # NoEvent /\ held[h].event \in Events /\ NewReceipt(h)
            /\ \E mark : /\ mark # NoReceipt
                         /\ receipt' = [receipt EXCEPT ![held[h].event] = mark]
            /\ \A v \in Voters \ {Sender(h)} : assigned'[v] = assigned[v]
<1>1. CASE RouteIgnored(h)
  <2>1. held[h] # NoEvent /\ held[h].event \in Events /\ NewReceipt(h)
    BY <1>1 DEF RouteIgnored, Admitting, Routing, Typed, TypeOK
  <2>2. Tombstone(h) # NoReceipt
    BY <2>1, ConstantsAssumption, ReceiptAssumption DEF Tombstone, Named, Unscored, NoReceipt
  <2> QED BY <1>1, <2>1, <2>2 DEF RouteIgnored
<1>2. CASE RouteVote(h)
  <2>1. held[h] # NoEvent /\ held[h].event \in Events /\ NewReceipt(h)
    BY <1>2 DEF RouteVote, Admitting, Routing, Typed, TypeOK
  <2>2. Named(h) # NoReceipt
    BY <2>1, ConstantsAssumption, ReceiptAssumption DEF Named
  <2>3. PICK to : assigned' = [assigned EXCEPT ![Sender(h)] = to]
    BY <1>2 DEF RouteVote
  <2> QED BY <1>2, <2>1, <2>2, <2>3 DEF RouteVote, Typed, TypeOK
<1>3. CASE RouteLike(h)
  <2>1. held[h] # NoEvent /\ held[h].event \in Events /\ NewReceipt(h)
    BY <1>3 DEF RouteLike, Admitting, Routing, Typed, TypeOK
  <2>2. Sender(h) \in Voters /\ assigned[Sender(h)] # NoAssignment
    BY <1>3, <2>1, ConstantsAssumption DEF RouteLike, Refused, Sender
  <2>3. assigned[Sender(h)].option # NoReceipt
    BY <2>2, ReceiptAssumption DEF Typed, TypeOK, Assignment
  <2> QED BY <1>3, <2>1, <2>3 DEF RouteLike
<1>4. CASE Boot(h) \/ Apply(h) \/ Ranking(h) \/ Finalize(h)
  BY <1>4 DEF Boot, BootRead, BootClaim, BootTotals, BootFailed, Apply, ApplyVote, ApplyLike,
              ApplyFailed, Ranking, RankingReset, RankingPause, RankingResume, Finalize, Select,
              SelectRefused, StoreResult, StoreRefused, durable
<1>5. CASE Ingress(h)
  BY <1>1, <1>2, <1>3, <1>5
  DEF Ingress, Receive, Lag, Route, RouteClosed, RouteDuplicate, RouteFailed, RouteInvalid, durable
<1>6. CASE Control(h)
  BY <1>6 DEF Control, Create, Start, Pause, Resume, Cancel, Transition, Finish, ExpireDue,
              Closes, Retry, SelectWinner, durable
<1>7. CASE Shutdown(h)
  BY <1>7 DEF Shutdown, BeginDrain, DrainTimeout, Abandon, CheckpointRead, CheckpointTimeout,
              CheckpointSave, LateSave, Exit, Crash, Stop, durable
<1> QED BY <1>4, <1>5, <1>6, <1>7 DEF HostStep

\* However often, wherever and in whatever order an event is delivered again,
\* it changes no receipt and moves no vote.
THEOREM ReplaysAreInert == Spec => ReplayIsInert
<1> DEFINE Inert ==
      state'.lifecycle # "absent" =>
        /\ \A e \in Events : receipt[e] # NoReceipt => receipt'[e] = receipt[e]
        /\ \A v \in Voters :
             assigned'[v] # assigned[v] =>
               \E e \in Events : Voter[e] = v /\ receipt[e] = NoReceipt /\ receipt'[e] # NoReceipt
<1>1. Typed /\ [Next]_vars => [Inert]_vars
  <2> SUFFICES ASSUME Typed, [Next]_vars PROVE Inert
    OBVIOUS
  <2>1. CASE UNCHANGED <<receipt, assigned>>
    BY <2>1
  <2>2. ASSUME NEW h \in Hosts, HostStep(h) PROVE Inert
    <3>1. CASE Delete(h)
      BY <3>1 DEF Delete, Absent
    <3>2. CASE ~Delete(h) /\ ~UNCHANGED <<receipt, assigned>>
      <4>1. /\ held[h].event \in Events /\ receipt[held[h].event] = NoReceipt
            /\ \A v \in Voters \ {Voter[held[h].event]} : assigned'[v] = assigned[v]
        BY <2>2, <3>2, ReceiptMoves DEF NewReceipt, Sender
      <4>2. PICK mark : mark # NoReceipt /\ receipt' = [receipt EXCEPT ![held[h].event] = mark]
        BY <2>2, <3>2, ReceiptMoves
      <4> QED BY <4>1, <4>2 DEF Typed, TypeOK
    <3> QED BY <2>1, <3>1, <3>2
  <2> QED BY <2>1, <2>2 DEF Next, Tick, vars, durable
<1> QED BY InitTyped, NextTyped, <1>1, PTL DEF Spec, ReplayIsInert

\* The owner settles what it takes: whatever leaves its hands before the
\* deadline has a receipt, or the ranking knows that it is incomplete.
LEMMA SettledByOwner ==
  ASSUME Inv, NEW g \in Hosts, HostStep(g), NEW h \in Hosts,
         Admitting(h), ~IsDue(state, now), held'[h] = NoEvent, phase'[h] = phase[h],
         ~degraded'[h]
  PROVE  receipt'[held[h].event] # NoReceipt
<1>0. Typed
  BY DEF Typed, Inv
<1> USE <1>0 DEF Typed, TypeOK, durable
<1>1. /\ held[h] # NoEvent /\ phase[h] \in {"up", "draining"} /\ work[h] = Idle /\ known[h]
      /\ Owns(h) /\ state.lifecycle \in {"active", "paused"}
  BY DEF Admitting, Routing, Quiet
<1>2. ~rankingPaused[h]
  BY <1>1 DEF Inv, OwnerProjects, Serving, InUse
<1>3. CASE RouteIgnored(g) \/ RouteVote(g) \/ RouteLike(g)
  <2>1. g = h
    BY <1>1, <1>3 DEF RouteIgnored, RouteVote, RouteLike, Release
  <2>2. receipt' # receipt
    BY <1>3, ConstantsAssumption, ReceiptAssumption, <2>1, <1>1
    DEF RouteIgnored, RouteVote, RouteLike, NewReceipt, Tombstone, Named, Unscored, NoReceipt,
        Refused, Sender, Assignment
  <2>3. ~Delete(g)
    BY <1>1, <2>1, <1>3 DEF Delete, Admitting
  <2>4. held[h].event \in Events
    BY <1>1
  <2> QED BY <2>1, <2>2, <2>3, <2>4, ReceiptMoves
<1>4. CASE RouteDuplicate(g)
  BY <1>1, <1>4 DEF RouteDuplicate, Release, NewReceipt
<1>5. CASE RouteFailed(g) \/ RouteInvalid(g)
  BY <1>1, <1>2, <1>5 DEF RouteFailed, RouteInvalid, Release, MarkGap, Gap, IsDue
<1>6. CASE RouteClosed(g)
  BY <1>1, <1>6 DEF RouteClosed, Release
<1>7. CASE Lag(g) \/ \E e \in Events : Receive(g, e)
  BY <1>1, <1>7 DEF Lag, Receive
<1>8. CASE Boot(g) \/ Apply(g) \/ Ranking(g) \/ Finalize(g) \/ Control(g)
  <2>1. held' = held
    BY <1>8
    DEF Boot, BootRead, BootClaim, BootTotals, BootFailed, Apply, ApplyVote, ApplyLike,
        ApplyFailed, Ranking, RankingReset, RankingPause, RankingResume, Finalize, Select,
        SelectRefused, StoreResult, StoreRefused, Control, Create, Delete, Start, Pause, Resume,
        Cancel, Transition, Finish, ExpireDue, Closes, Retry, SelectWinner
  <2> QED BY <1>1, <2>1
<1>9. CASE Shutdown(g)
  <2>1. CASE BeginDrain(g) \/ DrainTimeout(g) \/ CheckpointRead(g) \/ CheckpointSave(g) \/ LateSave(g)
    <3>1. held' = held
      BY <2>1 DEF BeginDrain, DrainTimeout, CheckpointRead, CheckpointSave, LateSave
    <3> QED BY <1>1, <3>1
  <2>2. CASE Abandon(g)
    BY <1>1, <2>2 DEF Abandon, Release
  <2>3. CASE CheckpointTimeout(g)
    BY <1>1, <2>3 DEF CheckpointTimeout, Idle
  <2>4. CASE Exit(g) \/ Crash(g)
    BY <1>1, <2>4 DEF Exit, Crash, Stop
  <2> QED BY <1>9, <2>1, <2>2, <2>3, <2>4 DEF Shutdown
<1> QED BY <1>3, <1>4, <1>5, <1>6, <1>7, <1>8, <1>9 DEF HostStep, Ingress, Route

\* Whatever the owner takes before the deadline leaves a receipt or marks the
\* ranking, on any number of hosts and through any shutdown.
THEOREM SettlementsLeaveReceipts == Spec => SettledLeavesReceipt
<1> DEFINE Left ==
      \A h \in Hosts :
        (/\ Admitting(h) /\ ~IsDue(state, now)
         /\ held'[h] = NoEvent /\ phase'[h] = phase[h] /\ ~degraded'[h])
          => receipt'[held[h].event] # NoReceipt
<1>1. Inv /\ [Next]_vars => [Left]_vars
  BY SettledByOwner DEF Next, Tick, Admitting, Routing
<1> QED BY LossesAreTracked, <1>1, PTL DEF Spec, SettledLeavesReceipt
=============================================================================
