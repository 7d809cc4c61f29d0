--------------------------- MODULE ConnectionProofs ---------------------------
(***************************************************************************)
(* Proofs about the real connection in front of the pipeline, for any      *)
(* callers, generations and queues: one live connection at a time, a       *)
(* snapshot that tells the truth about it, and, as long as the channel     *)
(* does not lag, events that go to their own connection only and a context *)
(* that agrees with the transport once everything is handled.              *)
(***************************************************************************)
EXTENDS LivePipeline, LiveProofs

-----------------------------------------------------------------------------
\* The task the owner holds is the current one; later ones do not exist yet.
ActiveIsCurrent ==
  /\ active \in {0, snapshot.generation}
  /\ \A g \in Generations : g > snapshot.generation => task[g] = "none"

\* The mutex: one caller retires at a time, and it retires something.
RetiringIsLocked ==
  /\ \A c \in Callers : call[c].step = "retiring" => active # 0 /\ CanAdvance
  /\ \A c, d \in Callers :
       call[c].step = "retiring" /\ call[d].step = "retiring" => c = d

\* The owner, its task and the snapshot.
ConnectionInv ==
  /\ snapshot \in Snapshots /\ ConnectionTypeOK
  /\ ActiveIsCurrent /\ RetiringIsLocked
  /\ OneConnection /\ SnapshotHonest

\* No task, no caller, and an idle snapshot.
LEMMA InitConnectionInv == PipelineInit => ConnectionInv
<1> SUFFICES ASSUME PipelineInit PROVE ConnectionInv
  OBVIOUS
<1> USE TransportAssumption DEF PipelineInit, TransportInit, ConnectionInit, NoCall
<1>1. snapshot \in Snapshots
  BY DEF Snapshots, States
<1>2. ConnectionTypeOK
  BY DEF ConnectionTypeOK, TaskSteps, Alive
<1>3. ActiveIsCurrent /\ RetiringIsLocked /\ OneConnection /\ SnapshotHonest
  BY DEF ActiveIsCurrent, RetiringIsLocked, OneConnection, SnapshotHonest, Alive, Generations
<1> QED BY <1>1, <1>2, <1>3 DEF ConnectionInv

\* The pipeline reads the snapshot and never writes it.
LEMMA IngressLeavesSnapshot == IngressStep => UNCHANGED snapshot
<1>0. Starts => UNCHANGED snapshot
  BY StartMoves
<1>1. PumpStep => UNCHANGED snapshot
  BY DEF PumpStep, PumpReceive, PumpLagged, PumpRefuses, PumpAdmits, PumpWaits,
     PumpSheds, PumpGivesUp, PumpFindsNoWorker, PumpEnds, transport
<1>2. DispatchStep => UNCHANGED snapshot
  BY DEF DispatchStep, TakeStale, TakeData, FinishData, TakeNotice, TakeConnected, OpensContext,
     PublishesConnected, TakeDisconnected, PublishesDisconnected, DispatchEnds, DispatchCancelled,
     transport
<1>3. PersistStep \/ WorkerPanics \/ Ladder => UNCHANGED snapshot
  BY DEF PersistStep, PersistTakes, PersistFinishes, PersistEnds, PersistCancelled, WorkerPanics,
     Ladder, CloseAdmission, PumpJoined, PumpDeadline, WorkerJoined, DrainDeadline, StopDeadline,
     EndSession, transport
<1> QED BY <1>0, <1>1, <1>2, <1>3 DEF IngressStep

\* The two ways a caller replaces the owner's task, with the old one gone.
LEMMA ReplaceKept ==
  ASSUME ConnectionInv, NEW c \in Callers, NEW op \in {"connect", "disconnect"}, Replace(c, op),
         CanAdvance, UNCHANGED <<stop, told>>,
         active = 0 \/ task[active] \notin Alive,
         \A d \in Callers \ {c} : call[d].step # "retiring"
  PROVE  ConnectionInv'
<1> DEFINE g == snapshot.generation + 1
<1>0. /\ snapshot.generation \in Nat /\ g \in Generations /\ g > snapshot.generation
      /\ snapshot.generation \in {0} \union Generations
  BY TransportAssumption DEF ConnectionInv, Snapshots, Generations, CanAdvance
<1>1. \A h \in Generations : task[h] \notin Alive
  <2> 0 \notin Generations
    BY DEF Generations
  <2> QED BY DEF ConnectionInv, OneConnection
<1>2. CASE op = "connect"
  <2>1. /\ snapshot' = [generation |-> g, state |-> "connecting"]
        /\ task' = [task EXCEPT ![g] = "opening"] /\ active' = g
        /\ call' = [call EXCEPT ![c] = [step |-> "waiting", op |-> "connect", generation |-> g]]
    BY <1>2 DEF Replace, Launch, Advance, Becomes
  <2>2. snapshot' \in Snapshots
    BY <1>0, <2>1 DEF Snapshots, States
  <2> HIDE DEF g
  <2>3. ConnectionTypeOK'
    BY <1>0, <2>1 DEF ConnectionInv, ConnectionTypeOK, TaskSteps, Alive
  <2>4. ActiveIsCurrent'
    BY <1>0, <2>1 DEF ConnectionInv, ConnectionTypeOK, ActiveIsCurrent, Generations
  <2>5. RetiringIsLocked'
    BY <2>1 DEF ConnectionInv, ConnectionTypeOK, RetiringIsLocked
  <2>6. OneConnection' /\ SnapshotHonest'
    BY <1>0, <1>1, <2>1 DEF ConnectionInv, ConnectionTypeOK, OneConnection, SnapshotHonest, Alive
  <2> QED BY <2>2, <2>3, <2>4, <2>5, <2>6 DEF ConnectionInv
<1>3. CASE op = "disconnect"
  <2>1. /\ snapshot' = [generation |-> g, state |-> "idle"]
        /\ UNCHANGED task /\ active' = 0
        /\ call' = [call EXCEPT ![c] = [step |-> "telling", op |-> "disconnect", generation |-> g]]
    BY <1>3 DEF Replace, Detach, Advance, Becomes
  <2>2. snapshot' \in Snapshots
    BY <1>0, <2>1 DEF Snapshots, States
  <2> HIDE DEF g
  <2>3. ConnectionTypeOK'
    BY <1>0, <2>1 DEF ConnectionInv, ConnectionTypeOK
  <2>4. ActiveIsCurrent'
    BY <1>0, <2>1 DEF ConnectionInv, ConnectionTypeOK, ActiveIsCurrent, Generations
  <2>5. RetiringIsLocked'
    BY <2>1 DEF ConnectionInv, ConnectionTypeOK, RetiringIsLocked
  <2>6. OneConnection' /\ SnapshotHonest'
    BY <1>0, <1>1, <2>1 DEF OneConnection, SnapshotHonest
  <2> QED BY <2>2, <2>3, <2>4, <2>5, <2>6 DEF ConnectionInv
<1> QED BY <1>2, <1>3

\* A caller asks: the lock is free.
LEMMA RequestKept ==
  ASSUME ConnectionInv, NEW c \in Callers, NEW op \in {"connect", "disconnect"}, Request(c, op)
  PROVE  ConnectionInv'
<1>1. \A d \in Callers : call[d].step # "retiring"
  BY DEF Request, Locked
<1>2. CASE active = 0
  BY <1>1, <1>2, ReplaceKept DEF Request
<1>3. CASE active # 0
  <2>1. /\ stop' = [stop EXCEPT ![active] = TRUE]
        /\ snapshot' = [snapshot EXCEPT !.state = "disconnecting"]
        /\ call' = [call EXCEPT ![c] = [step |-> "retiring", op |-> op, generation |-> 0]]
        /\ UNCHANGED <<task, active, told>> /\ CanAdvance
    BY <1>3 DEF Request, Transition, Becomes
  <2>2. snapshot' \in Snapshots /\ snapshot'.generation = snapshot.generation
        /\ snapshot'.state = "disconnecting"
    BY <2>1 DEF ConnectionInv, Snapshots, States
  <2>3. ConnectionTypeOK'
    BY <2>1 DEF ConnectionInv, ConnectionTypeOK
  <2>4. ActiveIsCurrent'
    BY <2>1, <2>2 DEF ConnectionInv, ActiveIsCurrent
  <2>5. RetiringIsLocked'
    BY <1>1, <1>3, <2>1, <2>2 DEF ConnectionInv, ConnectionTypeOK, RetiringIsLocked, CanAdvance
  <2>6. OneConnection' /\ SnapshotHonest'
    BY <2>1, <2>2 DEF ConnectionInv, OneConnection, SnapshotHonest
  <2> QED BY <2>2, <2>3, <2>4, <2>5, <2>6 DEF ConnectionInv
<1> QED BY <1>2, <1>3

\* A call that ends without a replacement may only mark the snapshot failed.
LEMMA EndsKept ==
  ASSUME ConnectionInv, NEW c \in Callers, Ends(c), UNCHANGED <<task, stop>>,
         snapshot' = snapshot \/ \E g \in {0} \union Generations : Transition(g, "failed"),
         active' \in {0, active},
         active' # active => task[active] \notin Alive /\ call[c].step = "retiring",
         told' \in {0} \union Generations
  PROVE  ConnectionInv'
<1>1. /\ snapshot' \in Snapshots /\ snapshot'.generation = snapshot.generation
      /\ snapshot' = snapshot \/ snapshot'.state = "failed"
  BY DEF ConnectionInv, Snapshots, States, Transition
<1>2. call' = [call EXCEPT ![c] = [step |-> "none", op |-> "connect", generation |-> 0]]
  BY DEF Ends, NoCall
<1>3. ConnectionTypeOK'
  BY <1>2 DEF ConnectionInv, ConnectionTypeOK
<1>4. ActiveIsCurrent'
  BY <1>1 DEF ConnectionInv, ActiveIsCurrent
<1>5. RetiringIsLocked'
  BY <1>1, <1>2 DEF ConnectionInv, ConnectionTypeOK, RetiringIsLocked, CanAdvance
<1>6. OneConnection' /\ SnapshotHonest'
  BY <1>1 DEF ConnectionInv, OneConnection, SnapshotHonest, ActiveIsCurrent
<1> QED BY <1>1, <1>3, <1>4, <1>5, <1>6 DEF ConnectionInv

\* A waiting caller goes on or gives up.
LEMMA CallerKept ==
  ASSUME ConnectionInv, NEW c \in Callers, CallerStep(c)
  PROVE  ConnectionInv'
<1> USE DEF ConnectionInv
<1>1. /\ call[c].step = "retiring" => active \in Generations
      /\ call[c].op \in {"connect", "disconnect"}
      /\ call[c].generation \in {0} \union Generations
      /\ told \in {0} \union Generations
  BY DEF ConnectionTypeOK, RetiringIsLocked
<1>2. CASE Retired(c)
  <2>1. \A d \in Callers \ {c} : call[d].step # "retiring"
    BY <1>2 DEF Retired, RetiringIsLocked
  <2>2. CanAdvance /\ task[active] \notin Alive
    BY <1>2 DEF Retired, RetiringIsLocked, Alive
  <2> QED BY <1>1, <1>2, <2>1, <2>2, ReplaceKept DEF Retired
<1>3. CASE RetiredPanicked(c)
  <2>1. task[active] \notin Alive /\ call[c].step = "retiring"
    BY <1>3 DEF RetiredPanicked, Alive
  <2>2. snapshot.generation \in {0} \union Generations
    BY DEF Snapshots
  <2> HIDE DEF ConnectionInv
  <2> QED BY <1>1, <1>3, <2>1, <2>2, EndsKept DEF RetiredPanicked
<1>4. CASE RetireTimeout(c)
  <2>2. snapshot.generation \in {0} \union Generations
    BY DEF Snapshots
  <2> HIDE DEF ConnectionInv
  <2> QED BY <1>1, <1>4, <2>2, EndsKept DEF RetireTimeout
<1>5. CASE Tell(c)
  <2> HIDE DEF ConnectionInv
  <2> QED BY <1>1, <1>5, EndsKept DEF Tell
<1>6. CASE Answered(c)
  <2> HIDE DEF ConnectionInv
  <2> QED BY <1>1, <1>6, EndsKept DEF Answered
<1>7. CASE CallDropped(c)
  <2> HIDE DEF ConnectionInv
  <2> QED BY <1>1, <1>7, EndsKept DEF CallDropped, transport
<1> QED BY <1>2, <1>3, <1>4, <1>5, <1>6, <1>7 DEF CallerStep

\* The task moves: what it writes to the snapshot is about itself.
LEMMA TaskKept ==
  ASSUME ConnectionInv, NEW g \in Generations, TaskStep(g)
  PROVE  ConnectionInv'
<1>1. /\ UNCHANGED <<stop, active, call>> /\ told' \in {told, g}
      /\ task[g] \in Alive
  BY DEF TaskStep, Retries, Opens, Announces, OpenFails, Frame, TransportEnds, StopSeen, TaskPanics,
     Moves, Alive
<1>2. active = g /\ snapshot.generation = g
  BY <1>1 DEF ConnectionInv, OneConnection, ActiveIsCurrent, Generations
<1>3. /\ \E to \in TaskSteps \ {"none"} : task' = [task EXCEPT ![g] = to]
      /\ \/ task'[g] \in Alive
            /\ \/ UNCHANGED snapshot
               \/ \E s \in {"reconnecting", "connected"} : Transition(g, s)
         \/ task'[g] \notin Alive /\ \E s \in {"idle", "failed"} : Transition(g, s)
  <2> task \in [Generations -> TaskSteps]
    BY DEF ConnectionInv, ConnectionTypeOK
  <2> USE DEF Moves, Alive, TaskSteps, ExitState
  <2>1. CASE Retries(g)
    <3>1. CASE task[g] \in {"opening", "reopening"} /\ UNCHANGED task
      <4>1. task' = [task EXCEPT ![g] = task[g]]
        BY <3>1
      <4> QED BY <2>1, <3>1, <4>1 DEF Retries
    <3>2. CASE Moves(g, {"open"}, "reopening")
      BY <2>1, <3>2 DEF Retries
    <3> QED BY <2>1, <3>1, <3>2 DEF Retries
  <2>2. CASE Opens(g)
    BY <2>2 DEF Opens, transport
  <2>3. CASE Announces(g)
    BY <2>3 DEF Announces
  <2>4. CASE OpenFails(g)
    BY <2>4 DEF OpenFails
  <2>5. CASE Frame(g)
    <3>1. task' = [task EXCEPT ![g] = task[g]] /\ UNCHANGED <<snapshot, task>>
      BY <1>2, <2>5 DEF Frame
    <3> QED BY <1>1, <3>1
  <2>6. CASE TransportEnds(g)
    BY <2>6 DEF TransportEnds
  <2>7. CASE StopSeen(g)
    BY <2>7 DEF StopSeen
  <2>8. CASE TaskPanics(g)
    BY <2>8 DEF TaskPanics
  <2> QED BY <2>1, <2>2, <2>3, <2>4, <2>5, <2>6, <2>7, <2>8 DEF TaskStep
<1>4. PICK to \in TaskSteps \ {"none"} : task' = [task EXCEPT ![g] = to]
  BY <1>3
<1>5. /\ snapshot' \in Snapshots /\ snapshot'.generation = g
      /\ \/ UNCHANGED snapshot /\ task'[g] \in Alive
         \/ snapshot'.state \in {"reconnecting", "connected"} /\ task'[g] \in Alive
         \/ snapshot'.state = "failed"
         \/ snapshot'.state = "idle" /\ task'[g] \notin Alive
  BY <1>2, <1>3 DEF ConnectionInv, Transition, Snapshots, States
<1>6. ConnectionTypeOK'
  BY <1>1, <1>4 DEF ConnectionInv, ConnectionTypeOK
<1>7. ActiveIsCurrent'
  BY <1>1, <1>2, <1>4, <1>5 DEF ConnectionInv, ConnectionTypeOK, ActiveIsCurrent
<1>8. RetiringIsLocked'
  BY <1>1, <1>2, <1>5 DEF ConnectionInv, RetiringIsLocked, CanAdvance
<1>9. OneConnection'
  BY <1>1, <1>2, <1>4 DEF ConnectionInv, ConnectionTypeOK, OneConnection
<1>10. SnapshotHonest'
  <2> g # 0
    BY DEF Generations
  <2> QED BY <1>1, <1>2, <1>5 DEF ConnectionInv, SnapshotHonest
<1> QED BY <1>5, <1>6, <1>7, <1>8, <1>9, <1>10 DEF ConnectionInv

\* The invariant is inductive.
THEOREM ConnectionInvariant == PipelineSpec => []ConnectionInv
<1>1. ConnectionInv /\ UNCHANGED snapshot /\ UNCHANGED owner => ConnectionInv'
  BY DEF owner, ConnectionInv, ConnectionTypeOK, ActiveIsCurrent, RetiringIsLocked, OneConnection,
     SnapshotHonest, CanAdvance
<1>2. ConnectionInv /\ PipelineNext => ConnectionInv'
  <2> SUFFICES ASSUME ConnectionInv, PipelineNext PROVE ConnectionInv'
    OBVIOUS
  <2>1. CASE \E c \in Callers : Connects(c) \/ Disconnects(c)
    BY <2>1, RequestKept DEF Connects, Disconnects
  <2>2. CASE ConnectionStep
    BY <2>2, CallerKept, TaskKept DEF ConnectionStep
  <2>3. CASE IngressStep /\ UNCHANGED owner
    BY <1>1, <2>3, IngressLeavesSnapshot
  <2> QED BY <2>1, <2>2, <2>3 DEF PipelineNext
<1>3. ConnectionInv /\ [PipelineNext]_everything => ConnectionInv'
  BY <1>1, <1>2 DEF everything, transport
<1> QED BY InitConnectionInv, <1>3, PTL DEF PipelineSpec

\* "Replacement waits for cancellation to complete", for any callers, deadlines
\* and panics: the only live connection task is the one the owner holds.
THEOREM AtMostOneConnection == PipelineSpec => []OneConnection
BY ConnectionInvariant, PTL DEF ConnectionInv

\* What the snapshot says of a live connection is true of the owner's task.
THEOREM SnapshotTellsTheTruth == PipelineSpec => []SnapshotHonest
BY ConnectionInvariant, PTL DEF ConnectionInv

-----------------------------------------------------------------------------
(* What a line of messages holds, and in which order.                      *)

\* What announces a connection, and what announces its end.
Up(g) == Message(g, "connected")
Over(g) == Message(g, "disconnected")
\* A message is somewhere in a line; a line speaks of the first n connections.
Has(s, m) == \E i \in DOMAIN s : s[i] = m
Within(s, n) == \A i \in DOMAIN s : s[i].generation \in 1 .. n

\* Before an event of a connection the line announces the connection, unless it is known.
Covered(s, known) ==
  \A i \in DOMAIN s : IsData(s[i]) =>
    \/ s[i].generation \in known
    \/ \E j \in DOMAIN s : j < i /\ s[j] = Up(s[i].generation)

\* After the last word that a connection is up comes one that it is not.
EndsLast(s, g) ==
  \E i \in DOMAIN s : s[i] = Over(g) /\ \A j \in DOMAIN s : s[j] = Up(g) => j < i

\* Where the elements of a concatenation come from.
LEMMA ConcatPlaces ==
  ASSUME NEW S, NEW s \in Seq(S), NEW t \in Seq(S)
  PROVE  /\ s \o t \in Seq(S) /\ Len(s) \in Nat /\ Len(t) \in Nat
         /\ DOMAIN s = 1 .. Len(s) /\ DOMAIN t = 1 .. Len(t)
         /\ DOMAIN (s \o t) = 1 .. Len(s) + Len(t)
         /\ \A i \in 1 .. Len(s) : (s \o t)[i] = s[i]
         /\ \A i \in 1 .. Len(t) : (s \o t)[Len(s) + i] = t[i]
         /\ \A i \in Len(s) + 1 .. Len(s) + Len(t) :
              i - Len(s) \in 1 .. Len(t) /\ (s \o t)[i] = t[i - Len(s)]
OBVIOUS

\* Where the elements of a tail come from.
LEMMA TailPlaces ==
  ASSUME NEW S, NEW s \in Seq(S), s # <<>>
  PROVE  /\ Tail(s) \in Seq(S) /\ Head(s) = s[1] /\ Len(s) \in Nat \ {0}
         /\ DOMAIN s = 1 .. Len(s) /\ DOMAIN Tail(s) = 1 .. Len(s) - 1
         /\ \A i \in 1 .. Len(s) - 1 : Tail(s)[i] = s[i + 1]
         /\ \A i \in 2 .. Len(s) : i - 1 \in 1 .. Len(s) - 1 /\ Tail(s)[i - 1] = s[i]
OBVIOUS

\* What is in a concatenation is in either part.
LEMMA HasInConcat ==
  ASSUME NEW S, NEW s \in Seq(S), NEW t \in Seq(S), NEW m
  PROVE  Has(s \o t, m) <=> Has(s, m) \/ Has(t, m)
<1>1. Has(s, m) => Has(s \o t, m)
  <2> SUFFICES ASSUME NEW i \in DOMAIN s, s[i] = m  PROVE Has(s \o t, m)
    BY DEF Has
  <2>1. i \in DOMAIN (s \o t) /\ (s \o t)[i] = m
    BY ConcatPlaces
  <2> QED
    BY <2>1 DEF Has
<1>2. Has(t, m) => Has(s \o t, m)
  <2> SUFFICES ASSUME NEW i \in DOMAIN t, t[i] = m  PROVE Has(s \o t, m)
    BY DEF Has
  <2>1. Len(s) + i \in DOMAIN (s \o t) /\ (s \o t)[Len(s) + i] = m
    BY ConcatPlaces
  <2> QED
    BY <2>1 DEF Has
<1>3. Has(s \o t, m) => Has(s, m) \/ Has(t, m)
  <2> SUFFICES ASSUME NEW i \in DOMAIN (s \o t), (s \o t)[i] = m  PROVE Has(s, m) \/ Has(t, m)
    BY DEF Has
  <2>1. CASE i \in 1 .. Len(s)
    <3>1. i \in DOMAIN s /\ s[i] = m
      BY <2>1, ConcatPlaces
    <3> QED
      BY <3>1 DEF Has
  <2>2. CASE i \in Len(s) + 1 .. Len(s) + Len(t)
    <3>1. i - Len(s) \in DOMAIN t /\ t[i - Len(s)] = m
      BY <2>2, ConcatPlaces
    <3> QED
      BY <3>1 DEF Has
  <2> QED
    BY <2>1, <2>2, ConcatPlaces
<1> QED
  BY <1>1, <1>2, <1>3

\* What is in a line is its head or in its tail.
LEMMA HasInTail ==
  ASSUME NEW S, NEW s \in Seq(S), s # <<>>, NEW m
  PROVE  Has(s, m) <=> Head(s) = m \/ Has(Tail(s), m)
<1>1. Has(s, m) => Head(s) = m \/ Has(Tail(s), m)
  <2> SUFFICES ASSUME NEW i \in DOMAIN s, s[i] = m, i # 1  PROVE Has(Tail(s), m)
    BY TailPlaces DEF Has
  <2>1. i - 1 \in DOMAIN Tail(s) /\ Tail(s)[i - 1] = m
    BY TailPlaces
  <2> QED
    BY <2>1 DEF Has
<1>2. Has(Tail(s), m) => Has(s, m)
  <2> SUFFICES ASSUME NEW i \in DOMAIN Tail(s), Tail(s)[i] = m  PROVE Has(s, m)
    BY DEF Has
  <2>1. i + 1 \in DOMAIN s /\ s[i + 1] = m
    BY TailPlaces
  <2> QED
    BY <2>1 DEF Has
<1>3. Head(s) = m => Has(s, m)
  BY TailPlaces DEF Has
<1> QED
  BY <1>1, <1>2, <1>3

\* A line of one, and the empty line.
LEMMA HasAlone == \A x, m : (Has(<<x>>, m) <=> x = m) /\ ~Has(<<>>, m)
BY DEF Has

\* The bound on the generations, for parts, wholes and larger bounds.
LEMMA WithinMoves ==
  ASSUME NEW s \in Seq(Messages), NEW t \in Seq(Messages), NEW n \in Nat, NEW k \in Nat, n <= k
  PROVE  /\ Within(s \o t, n) <=> Within(s, n) /\ Within(t, n)
         /\ Within(s, n) => Within(s, k)
         /\ Within(s, n) /\ s # <<>> => Within(Tail(s), n) /\ Head(s).generation \in 1 .. n
<1>1. Within(s, n) /\ Within(t, n) => Within(s \o t, n)
  <2> SUFFICES ASSUME Within(s, n), Within(t, n), NEW i \in DOMAIN (s \o t)
               PROVE  (s \o t)[i].generation \in 1 .. n
    BY DEF Within
  <2>1. CASE i \in 1 .. Len(s)
    BY <2>1, ConcatPlaces DEF Within
  <2>2. CASE i \in Len(s) + 1 .. Len(s) + Len(t)
    BY <2>2, ConcatPlaces DEF Within
  <2> QED
    BY <2>1, <2>2, ConcatPlaces
<1>2. Within(s \o t, n) => Within(s, n)
  <2> SUFFICES ASSUME Within(s \o t, n), NEW i \in DOMAIN s  PROVE s[i].generation \in 1 .. n
    BY DEF Within
  <2>1. i \in DOMAIN (s \o t) /\ (s \o t)[i] = s[i]
    BY ConcatPlaces
  <2> QED
    BY <2>1 DEF Within
<1>3. Within(s \o t, n) => Within(t, n)
  <2> SUFFICES ASSUME Within(s \o t, n), NEW i \in DOMAIN t  PROVE t[i].generation \in 1 .. n
    BY DEF Within
  <2>1. Len(s) + i \in DOMAIN (s \o t) /\ (s \o t)[Len(s) + i] = t[i]
    BY ConcatPlaces
  <2> QED
    BY <2>1 DEF Within
<1>4. Within(s, n) => Within(s, k)
  <2> SUFFICES ASSUME Within(s, n), NEW i \in DOMAIN s  PROVE s[i].generation \in 1 .. k
    BY DEF Within
  <2>1. s[i].generation \in 1 .. n
    BY DEF Within
  <2> QED
    BY <2>1
<1>5. ASSUME Within(s, n), s # <<>>
      PROVE  Within(Tail(s), n) /\ Head(s).generation \in 1 .. n
  BY <1>5, TailPlaces DEF Within
<1> QED
  BY <1>1, <1>2, <1>3, <1>4, <1>5

\* An event at the end is covered by an announcement before it.
LEMMA CoveredAppend ==
  ASSUME NEW s \in Seq(Messages), NEW t \in Seq(Messages), NEW known, Covered(s, known),
         \A i \in DOMAIN t : IsData(t[i]) =>
           t[i].generation \in known \/ Has(s, Up(t[i].generation))
  PROVE  Covered(s \o t, known)
<1> SUFFICES ASSUME NEW i \in DOMAIN (s \o t), IsData((s \o t)[i]),
                    (s \o t)[i].generation \notin known
             PROVE  \E j \in DOMAIN (s \o t) :
                      j < i /\ (s \o t)[j] = Up((s \o t)[i].generation)
  BY DEF Covered
<1>1. CASE i \in 1 .. Len(s)
  <2>1. (s \o t)[i] = s[i] /\ i \in DOMAIN s
    BY <1>1, ConcatPlaces
  <2>2. PICK j \in DOMAIN s : j < i /\ s[j] = Up(s[i].generation)
    BY <2>1 DEF Covered
  <2>3. j \in DOMAIN (s \o t) /\ (s \o t)[j] = s[j]
    BY ConcatPlaces
  <2> QED
    BY <2>1, <2>2, <2>3
<1>2. CASE i \in Len(s) + 1 .. Len(s) + Len(t)
  <2>1. i - Len(s) \in DOMAIN t /\ (s \o t)[i] = t[i - Len(s)]
    BY <1>2, ConcatPlaces
  <2>2. PICK j \in DOMAIN s : s[j] = Up((s \o t)[i].generation)
    BY <2>1 DEF Has
  <2>3. j \in DOMAIN (s \o t) /\ (s \o t)[j] = s[j] /\ j < i
    BY <1>2, ConcatPlaces
  <2> QED
    BY <2>2, <2>3
<1> QED
  BY <1>1, <1>2, ConcatPlaces

\* Losing the end of the line loses no announcement of what stays.
LEMMA CoveredPrefix ==
  ASSUME NEW s \in Seq(Messages), NEW t \in Seq(Messages), NEW known, Covered(s \o t, known)
  PROVE  Covered(s, known)
<1> SUFFICES ASSUME NEW i \in DOMAIN s, IsData(s[i]), s[i].generation \notin known
             PROVE  \E j \in DOMAIN s : j < i /\ s[j] = Up(s[i].generation)
  BY DEF Covered
<1>1. i \in DOMAIN (s \o t) /\ (s \o t)[i] = s[i] /\ i \in 1 .. Len(s)
  BY ConcatPlaces
<1>2. PICK j \in DOMAIN (s \o t) : j < i /\ (s \o t)[j] = Up(s[i].generation)
  BY <1>1 DEF Covered
<1>3. j \in DOMAIN s /\ (s \o t)[j] = s[j]
  BY <1>1, <1>2, ConcatPlaces
<1> QED
  BY <1>2, <1>3

\* Taking the oldest, which becomes known if it was an announcement.
LEMMA CoveredTail ==
  ASSUME NEW s \in Seq(Messages), s # <<>>, NEW known, NEW more, Covered(s, known),
         known \subseteq more,
         \A g : Head(s) = Up(g) => g \in more
  PROVE  Covered(Tail(s), more)
<1> SUFFICES ASSUME NEW i \in DOMAIN Tail(s), IsData(Tail(s)[i]), Tail(s)[i].generation \notin more
             PROVE  \E j \in DOMAIN Tail(s) : j < i /\ Tail(s)[j] = Up(Tail(s)[i].generation)
  BY DEF Covered
<1>1. i + 1 \in DOMAIN s /\ Tail(s)[i] = s[i + 1] /\ i \in Nat
  BY TailPlaces
<1>2. PICK j \in DOMAIN s : j < i + 1 /\ s[j] = Up(s[i + 1].generation)
  BY <1>1 DEF Covered
<1>3. j # 1
  BY <1>1, <1>2, TailPlaces
<1>4. j - 1 \in DOMAIN Tail(s) /\ Tail(s)[j - 1] = s[j] /\ j - 1 < i
  BY <1>1, <1>2, <1>3, TailPlaces
<1> QED
  BY <1>1, <1>2, <1>4

\* Knowing more connections needs fewer announcements.
LEMMA CoveredMore ==
  ASSUME NEW s, NEW known, NEW more, Covered(s, known), known \subseteq more
  PROVE  Covered(s, more)
BY DEF Covered

\* Taking one out of the middle.
LEMMA WithoutPlaces ==
  ASSUME NEW S, NEW a \in Seq(S), NEW d \in S, NEW b \in Seq(S),
         NEW s, s = (a \o <<d>>) \o b, NEW t, t = a \o b, NEW n, n = Len(a), NEW k, k = Len(b)
  PROVE  /\ n \in Nat /\ k \in Nat /\ DOMAIN s = 1 .. n + 1 + k /\ DOMAIN t = 1 .. n + k
         /\ s[n + 1] = d
         /\ \A i \in 1 .. n : t[i] = s[i]
         /\ \A i \in n + 1 .. n + k : t[i] = s[i + 1]
OBVIOUS

\* Losing an event or a notice loses no announcement.
LEMMA CoveredWithout ==
  ASSUME NEW a \in Seq(Messages), NEW d \in Messages, NEW b \in Seq(Messages), NEW known,
         Covered((a \o <<d>>) \o b, known), d.kind # "connected"
  PROVE  Covered(a \o b, known)
<1>1. PICK s, t : s = (a \o <<d>>) \o b /\ t = a \o b
  OBVIOUS
<1>2. PICK n, k : n = Len(a) /\ k = Len(b)
  OBVIOUS
<1>3. /\ n \in Nat /\ k \in Nat /\ DOMAIN s = 1 .. n + 1 + k /\ DOMAIN t = 1 .. n + k
      /\ s[n + 1] = d
      /\ \A i \in 1 .. n : t[i] = s[i]
      /\ \A i \in n + 1 .. n + k : t[i] = s[i + 1]
  BY <1>1, <1>2, WithoutPlaces
<1>4. Covered(s, known)
  BY <1>1
<1>5. ASSUME NEW i \in DOMAIN t, IsData(t[i]), t[i].generation \notin known
      PROVE  \E j \in DOMAIN t : j < i /\ t[j] = Up(t[i].generation)
  <2>1. PICK e \in DOMAIN s : s[e] = t[i] /\ e \in {i, i + 1} /\ (e = i + 1 => i > n)
    <3>1. CASE i \in 1 .. n
      BY <1>3, <3>1
    <3>2. CASE i \in n + 1 .. n + k
      <4>1. i + 1 \in DOMAIN s /\ s[i + 1] = t[i] /\ i > n
        BY <1>3, <3>2
      <4> QED
        BY <4>1
    <3> QED
      BY <1>3, <3>1, <3>2
  <2>2. PICK j \in DOMAIN s : j < e /\ s[j] = Up(t[i].generation)
    BY <1>4, <1>5, <2>1 DEF Covered
  <2>3. /\ j # n + 1 /\ i \in Nat /\ e \in Nat /\ j \in Nat /\ j < e
        /\ j >= 1 /\ i >= 1 /\ i <= n + k
    BY <1>3, <2>2 DEF Up, Message
  <2>4. CASE j < n + 1
    <3>1. j < i
      BY <1>3, <2>1, <2>3, <2>4
    <3>2. j \in 1 .. n /\ j \in 1 .. n + k
      BY <1>3, <2>3, <2>4
    <3> QED
      BY <1>3, <2>2, <3>1, <3>2
  <2>5. CASE j > n + 1
    <3>1. j - 1 \in n + 1 .. n + k /\ (j - 1) + 1 = j
      BY <1>3, <2>3, <2>5
    <3>2. j - 1 \in DOMAIN t /\ t[j - 1] = s[j]
      BY <1>3, <3>1
    <3>3. j - 1 < i
      BY <1>3, <2>1, <2>3, <2>5
    <3> QED
      BY <2>2, <3>2, <3>3
  <2> QED
    BY <1>3, <2>2, <2>3, <2>4, <2>5
<1>6. Covered(t, known)
  BY <1>5 DEF Covered
<1> QED
  BY <1>1, <1>6

\* Losing an event or a notice loses no end.
LEMMA EndsLastWithout ==
  ASSUME NEW a \in Seq(Messages), NEW d \in Messages, NEW b \in Seq(Messages), NEW g,
         EndsLast((a \o <<d>>) \o b, g), d.kind # "disconnected"
  PROVE  EndsLast(a \o b, g)
<1>1. PICK s, t : s = (a \o <<d>>) \o b /\ t = a \o b
  OBVIOUS
<1>2. PICK n, k : n = Len(a) /\ k = Len(b)
  OBVIOUS
<1>3. /\ n \in Nat /\ k \in Nat /\ DOMAIN s = 1 .. n + 1 + k /\ DOMAIN t = 1 .. n + k
      /\ s[n + 1] = d
      /\ \A i \in 1 .. n : t[i] = s[i]
      /\ \A i \in n + 1 .. n + k : t[i] = s[i + 1]
  BY <1>1, <1>2, WithoutPlaces
<1>4. PICK e \in DOMAIN s : s[e] = Over(g) /\ \A j \in DOMAIN s : s[j] = Up(g) => j < e
  BY <1>1 DEF EndsLast
<1>5. e # n + 1
  BY <1>3, <1>4 DEF Over, Message
<1>6. PICK i \in DOMAIN t : t[i] = s[e] /\ (e <= n => i = e) /\ (e > n => i = e - 1)
  <2>1. CASE e <= n
    BY <1>3, <1>4, <2>1
  <2>2. CASE e > n
    <3>1. e - 1 \in n + 1 .. n + k /\ (e - 1) + 1 = e
      BY <1>3, <1>4, <1>5, <2>2
    <3> QED
      BY <1>3, <1>4, <2>2, <3>1
  <2> QED
    BY <1>3, <1>4, <2>1, <2>2
<1>7. ASSUME NEW j \in DOMAIN t, t[j] = Up(g)  PROVE j < i
  <2>1. CASE j \in 1 .. n
    <3>1. j \in DOMAIN s /\ s[j] = Up(g)
      BY <1>3, <1>7, <2>1
    <3> QED
      BY <1>3, <1>4, <1>5, <1>6, <2>1, <3>1
  <2>2. CASE j \in n + 1 .. n + k
    <3>1. j + 1 \in DOMAIN s /\ s[j + 1] = Up(g)
      BY <1>3, <1>7, <2>2
    <3> QED
      BY <1>3, <1>4, <1>6, <2>2, <3>1
  <2> QED
    BY <1>3, <2>1, <2>2
<1> QED
  BY <1>1, <1>4, <1>6, <1>7 DEF EndsLast

\* An end that was appended is the last word of its connection.
LEMMA EndsLastAppended ==
  ASSUME NEW s \in Seq(Messages), NEW m \in Messages, NEW g
  PROVE  /\ m = Over(g) => EndsLast(s \o <<m>>, g)
         /\ m # Up(g) /\ EndsLast(s, g) => EndsLast(s \o <<m>>, g)
<1>1. /\ Len(s) \in Nat /\ DOMAIN s = 1 .. Len(s) /\ DOMAIN (s \o <<m>>) = 1 .. Len(s) + 1
      /\ (s \o <<m>>)[Len(s) + 1] = m /\ \A i \in 1 .. Len(s) : (s \o <<m>>)[i] = s[i]
  OBVIOUS
<1>2. m = Over(g) => m # Up(g)
  BY DEF Over, Up, Message
<1>3. ASSUME m = Over(g)  PROVE EndsLast(s \o <<m>>, g)
  <2>1. \A j \in DOMAIN (s \o <<m>>) : (s \o <<m>>)[j] = Up(g) => j < Len(s) + 1
    BY <1>1, <1>2, <1>3
  <2> QED
    BY <1>1, <1>3, <2>1 DEF EndsLast
<1>4. ASSUME m # Up(g), EndsLast(s, g)  PROVE EndsLast(s \o <<m>>, g)
  <2>1. PICK e \in DOMAIN s : s[e] = Over(g) /\ \A j \in DOMAIN s : s[j] = Up(g) => j < e
    BY <1>4 DEF EndsLast
  <2>2. \A j \in DOMAIN (s \o <<m>>) : (s \o <<m>>)[j] = Up(g) => j < e
    BY <1>1, <1>4, <2>1
  <2>3. e \in DOMAIN (s \o <<m>>) /\ (s \o <<m>>)[e] = Over(g)
    BY <1>1, <2>1
  <2> QED
    BY <2>2, <2>3 DEF EndsLast
<1> QED
  BY <1>3, <1>4

\* Once the end is taken, nothing is left that says the connection is up.
LEMMA EndsLastTail ==
  ASSUME NEW s \in Seq(Messages), s # <<>>, NEW g, EndsLast(s, g)
  PROVE  /\ Head(s) # Over(g) => EndsLast(Tail(s), g)
         /\ EndsLast(Tail(s), g) \/ ~Has(Tail(s), Up(g))
<1>1. PICK e \in DOMAIN s : s[e] = Over(g) /\ \A j \in DOMAIN s : s[j] = Up(g) => j < e
  BY DEF EndsLast
<1>2. CASE e = 1
  <2>1. ASSUME NEW j \in DOMAIN Tail(s)  PROVE Tail(s)[j] # Up(g)
    BY <1>1, <1>2, TailPlaces
  <2> QED
    BY <1>1, <1>2, <2>1, TailPlaces DEF Has
<1>3. CASE e # 1
  <2>1. e - 1 \in DOMAIN Tail(s) /\ Tail(s)[e - 1] = Over(g)
    BY <1>1, <1>3, TailPlaces
  <2>2. ASSUME NEW j \in DOMAIN Tail(s), Tail(s)[j] = Up(g)  PROVE j < e - 1
    <3>1. j + 1 \in DOMAIN s /\ s[j + 1] = Up(g) /\ j \in Nat /\ e \in Nat
      BY <1>1, <2>2, TailPlaces
    <3> QED
      BY <1>1, <3>1
  <2> QED
    BY <2>1, <2>2 DEF EndsLast
<1> QED
  BY <1>2, <1>3

-----------------------------------------------------------------------------
(* The line: what was sent and not yet taken by the worker, oldest first.  *)

\* Concatenation of three.
LEMMA Reassociate ==
  ASSUME NEW s \in Seq(Messages), NEW t \in Seq(Messages), NEW u \in Seq(Messages)
  PROVE  (s \o t) \o u = s \o (t \o u) /\ (s \o t) \o u \in Seq(Messages)
OBVIOUS

\* The event the pump holds; what of the channel is sure to be received.
Held == IF Holding THEN <<pump.item>> ELSE <<>>
Sure == IF missed THEN <<>> ELSE channel
Line == (queue \o Held) \o Sure

\* The parts of the line are sequences of messages.
LEMMA LineTypes ==
  ASSUME TypeOK
  PROVE  /\ queue \in Seq(Messages) /\ Held \in Seq(Messages) /\ Sure \in Seq(Messages)
         /\ queue \o Held \in Seq(Messages) /\ Line \in Seq(Messages)
         /\ queue \o Sure \in Seq(Messages) /\ pump.item \in Messages
<1>1. queue \in Seq(Messages) /\ pump.item \in Messages /\ channel \in Seq(Messages)
  BY DEF TypeOK, TransportTypeOK, IngressTypeOK
<1>2. Held \in Seq(Messages) /\ Sure \in Seq(Messages)
  BY <1>1 DEF Held, Sure
<1>3. queue \o Held \in Seq(Messages) /\ queue \o Sure \in Seq(Messages)
  BY <1>1, <1>2
<1> QED
  BY <1>1, <1>2, <1>3 DEF Line

\* Only the queue, the pump and the channel make the line.
LEMMA LineUnmoved ==
  ASSUME UNCHANGED <<queue, pump, channel, missed>>
  PROVE  Line' = Line
BY DEF Line, Held, Sure, Holding

\* The worker takes the oldest.
LEMMA LineTaken ==
  ASSUME TypeOK, queue # <<>>, queue' = Tail(queue), UNCHANGED <<pump, channel, missed>>
  PROVE  Line # <<>> /\ Head(Line) = Head(queue) /\ Line' = Tail(Line)
<1>1. PICK q, r : q = queue /\ r = Held \o Sure
  OBVIOUS
<1>2. q \in Seq(Messages) /\ r \in Seq(Messages) /\ q # <<>>
  BY <1>1, LineTypes
<1>3. (queue \o Held) \o Sure = queue \o (Held \o Sure)
  <2>1. queue \in Seq(Messages) /\ Held \in Seq(Messages) /\ Sure \in Seq(Messages)
    BY LineTypes
  <2> QED
    BY Zenon, <2>1, Reassociate
<1>4. (Tail(queue) \o Held) \o Sure = Tail(queue) \o (Held \o Sure)
  <2>1. Tail(queue) \in Seq(Messages) /\ Held \in Seq(Messages) /\ Sure \in Seq(Messages)
    BY <1>1, <1>2, LineTypes
  <2> QED
    BY Zenon, <2>1, Reassociate
<1>5. q \o r # <<>> /\ Head(q \o r) = Head(q) /\ Tail(q \o r) = Tail(q) \o r
  BY <1>2
<1>6. Line = q \o r /\ Line' = Tail(q) \o r
  BY <1>1, <1>3, <1>4 DEF Line, Held, Sure, Holding
<1> QED
  BY <1>1, <1>5, <1>6

\* What the pump receives and admits only moves along the line.
LEMMA LineReceived ==
  ASSUME TypeOK, PumpReceive
  PROVE  Line' = Line
<1>1. /\ channel # <<>> /\ channel \in Seq(Messages) /\ queue \in Seq(Messages)
      /\ channel' = Tail(channel) /\ ~missed /\ ~missed' /\ UNCHANGED queue
      /\ Held = <<>> /\ Held' = <<Head(channel)>>
  BY DEF PumpReceive, Receive, TypeOK, TransportTypeOK, IngressTypeOK, Held, Holding, Pump
<1>2. PICK q, c : q = queue /\ c = channel
  OBVIOUS
<1>3. q \in Seq(Messages) /\ c \in Seq(Messages) /\ c # <<>>
  BY <1>1, <1>2
<1>4. (q \o <<Head(c)>>) \o Tail(c) = q \o c /\ q \o <<>> = q
  <2>1. /\ <<Head(c)>> \in Seq(Messages) /\ Tail(c) \in Seq(Messages)
        /\ <<Head(c)>> \o Tail(c) = c
    BY <1>3
  <2>2. (q \o <<Head(c)>>) \o Tail(c) = q \o (<<Head(c)>> \o Tail(c))
    BY <1>3, <2>1, Reassociate
  <2> QED
    BY <1>3, <2>1, <2>2
<1> QED
  BY <1>1, <1>2, <1>4 DEF Line, Sure

\* publish_reserved moves the event from the pump to the queue.
LEMMA LineAdmitted ==
  ASSUME TypeOK, PumpAdmits
  PROVE  Line' = Line
<1>1. /\ queue' = Append(queue, pump.item) /\ Held = <<pump.item>> /\ Held' = <<>>
      /\ UNCHANGED <<channel, missed>>
  BY DEF PumpAdmits, Held, Holding, PumpNext, Pump, transport
<1>2. PICK q, m : q = queue /\ m = pump.item
  OBVIOUS
<1>3. q \in Seq(Messages) /\ m \in Messages
  BY <1>2, LineTypes
<1>4. Append(q, m) \o <<>> = q \o <<m>>
  BY <1>3
<1> QED
  BY <1>1, <1>2, <1>4 DEF Line, Sure

\* A pump that waits still holds its event.
LEMMA LineWaits ==
  ASSUME TypeOK, PumpWaits
  PROVE  Line' = Line
BY DEF PumpWaits, Line, Held, Sure, Holding, Pump, transport, TypeOK, IngressTypeOK

\* What the pump sheds or gives up is missing from the middle.
LEMMA LineShed ==
  ASSUME TypeOK, PumpSheds \/ PumpGivesUp
  PROVE  /\ Line = (queue \o <<pump.item>>) \o Sure /\ Line' = queue \o Sure
         /\ pump.item.kind \in {"tick", "gift"}
<1>1. /\ Held = <<pump.item>> /\ Held' = <<>> /\ UNCHANGED <<queue, channel, missed>>
      /\ pump.item.kind \in {"tick", "gift"}
  BY DEF PumpSheds, PumpGivesUp, Held, Holding, PumpNext, Pump, transport
<1>2. queue \o <<>> = queue
  BY LineTypes
<1> QED
  BY <1>1, <1>2 DEF Line, Sure

\* What is sent comes to the end of the line, unless the channel overflows: then
\* only what has left it is sure.
Sends(ms) == Send(ms) \/ (ms = <<>> /\ UNCHANGED <<channel, missed, listening>>)

LEMMA LineSent ==
  ASSUME TypeOK, listening, NEW ms \in Seq(Messages), Sends(ms), UNCHANGED <<queue, pump>>,
         missed => channel # <<>>
  PROVE  /\ listening' /\ missed' \in BOOLEAN /\ (missed' => channel' # <<>>)
         /\ \/ missed' /\ \E rest \in Seq(Messages) : Line' \in Seq(Messages) /\ Line = Line' \o rest
            \/ ~missed /\ ~missed' /\ Line' = Line \o ms
<1>1. /\ queue \o Held \in Seq(Messages) /\ channel \in Seq(Messages) /\ missed \in BOOLEAN
      /\ ChannelSize \in Nat \ {0}
  BY LineTypes, TransportAssumption DEF TypeOK, TransportTypeOK
<1>2. PICK front, c : front = queue \o Held /\ c = channel
  OBVIOUS
<1>3. /\ front \in Seq(Messages) /\ c \in Seq(Messages) /\ (queue \o Held)' = front
      /\ front \o <<>> = front /\ c \o <<>> = c /\ <<>> \in Seq(Messages)
      /\ Line = front \o Sure /\ Line' = front \o Sure'
  BY <1>1, <1>2 DEF Held, Holding, Line
<1>4. CASE UNCHANGED <<channel, missed, listening>> /\ ms = <<>>
  <2>1. Line' = Line /\ Line \in Seq(Messages) /\ Line \o <<>> = Line
    BY <1>4, LineTypes, LineUnmoved
  <2> QED
    BY <1>1, <1>3, <1>4, <2>1
<1>5. CASE Send(ms)
  <2>1. PICK all : all = c \o ms
    OBVIOUS
  <2>2. all \in Seq(Messages) /\ Len(all) \in Nat
    BY <1>3, <2>1
  <2>3. /\ channel' = Newest(all, ChannelSize) /\ listening'
        /\ missed' = (missed \/ Len(all) > ChannelSize)
    BY <1>2, <1>5, <2>1 DEF Send
  <2>4. CASE missed'
    <3>1. channel' # <<>>
      <4>1. CASE Len(all) > ChannelSize
        <5>1. channel' = SubSeq(all, Len(all) - ChannelSize + 1, Len(all))
          BY <1>1, <2>2, <2>3, <4>1 DEF Newest
        <5>2. Len(all) - ChannelSize + 1 \in 1 .. Len(all)
          BY <1>1, <2>2, <4>1
        <5>3. Len(channel') = Len(all) - (Len(all) - ChannelSize + 1) + 1
          BY <2>2, <5>1, <5>2, SubSeqProperties
        <5> QED
          BY <1>1, <2>2, <5>3
      <4>2. CASE ~(Len(all) > ChannelSize)
        <5>1. channel' = all /\ missed
          BY <1>1, <2>2, <2>3, <2>4, <4>2 DEF Newest
        <5>2. c # <<>>
          BY <1>2, <5>1
        <5> QED
          BY <1>3, <2>1, <5>1, <5>2
      <4> QED
        BY <4>1, <4>2
    <3>2. Line' = front
      BY <1>3, <2>4 DEF Sure
    <3>3. \E rest \in Seq(Messages) : Line = front \o rest
      BY <1>3, LineTypes
    <3> QED
      BY <1>3, <2>3, <2>4, <3>1, <3>2, <3>3
  <2>5. CASE ~missed'
    <3>1. ~missed /\ channel' = all
      <4>1. ~missed /\ ~(Len(all) > ChannelSize)
        BY <2>3, <2>5
      <4>2. Len(all) <= ChannelSize
        BY <1>1, <2>2, <4>1
      <4> QED
        BY <2>3, <4>1, <4>2 DEF Newest
    <3>2. Line = front \o c /\ Line' = front \o (c \o ms)
      BY <1>2, <1>3, <2>1, <2>5, <3>1 DEF Sure
    <3>3. front \o (c \o ms) = (front \o c) \o ms
      <4>1. front \in Seq(Messages) /\ c \in Seq(Messages) /\ ms \in Seq(Messages)
        BY <1>3
      <4> QED
        BY Zenon, <4>1, Reassociate
    <3> QED
      BY <2>3, <2>5, <3>1, <3>2, <3>3
  <2> QED
    BY <1>1, <2>3, <2>4, <2>5
<1> QED
  BY <1>4, <1>5 DEF Sends

-----------------------------------------------------------------------------
(* What a step of the connection does, and says.                           *)

\* The worker has taken the announcement of g and is on its way to its context,
\* or has it and has published it.
Opened(g) ==
  /\ sequence = g
  /\ \/ dispatch.step = "closing"
     \/ context = g /\ (dispatch.step = "opening" \/ topic = g)

\* No context is left and nothing about to open one; the topic is gone or goes next.
Ended(g) ==
  /\ context = 0 /\ dispatch.step \notin {"closing", "opening"}
  /\ topic = 0 \/ (dispatch.step = "ending" /\ dispatch.item.generation = g)

\* What is announced as over is over, and was never a later connection.
CallsInOrder ==
  /\ told <= snapshot.generation
  /\ told # 0 => task[told] \notin Alive
  /\ snapshot.state = "connected" => snapshot.generation # 0
  /\ \A c \in Callers : call[c].step = "telling" =>
       /\ call[c].generation \in 1 .. snapshot.generation
       /\ task[call[c].generation] = "none"

\* The steps of the callers and of the connection task.
Connection ==
  ConnectionStep \/ \E c \in Callers : Connects(c) \/ Disconnects(c)

\* A connection, or the time after a disconnect, begins with nothing said.
Begins ==
  LET g == snapshot.generation + 1
  IN  /\ g \in Generations /\ snapshot'.generation = g /\ snapshot'.state # "connected"
      /\ UNCHANGED <<channel, missed, listening, sent, told>>
      /\ \/ task' = [task EXCEPT ![g] = "opening"]
         \/ UNCHANGED task
      /\ \A c \in Callers : call'[c].step = "telling" =>
           call'[c] = call[c] \/ (call'[c].generation = g /\ UNCHANGED task)

\* An error notice may come before the end.
Notices(g) == {<<>>, <<Message(g, "notice")>>}

\* No task opens that was not open.
NoneOpens ==
  \A h \in Generations : task'[h] \in {"open", "reopening"} => task[h] \in {"open", "reopening"}

\* The four things a step may say: nothing or a notice, the announcement of a live
\* connection, one event of an open one, or the end of one that is over.
SaysLittle(g, ms) ==
  /\ ms = <<>> \/ (g \in Generations /\ ms = <<Message(g, "notice")>>)
  /\ UNCHANGED told /\ NoneOpens
SaysConnected(g, ms) ==
  /\ g \in Generations /\ ms = <<Up(g)>>
  /\ task[g] \in Alive /\ UNCHANGED told
SaysData(g, ms) ==
  /\ g \in Generations /\ \E kind \in DataKinds : ms = <<Message(g, kind)>>
  /\ task[g] = "open" /\ UNCHANGED <<task, told>>
SaysDisconnected(g, ms) ==
  /\ \E h \in 1 .. g, front \in Notices(g) :
       /\ h \in Generations
       /\ front = <<>> \/ g \in Generations
       /\ ms = front \o <<Over(h)>> /\ told' = h /\ task'[h] \notin Alive
  /\ NoneOpens
\* One of them.
Says(g, ms) ==
  SaysLittle(g, ms) \/ SaysConnected(g, ms) \/ SaysData(g, ms) \/ SaysDisconnected(g, ms)

\* The connection goes on under the same generation, saying ms.
Goes(ms) ==
  /\ snapshot'.generation = snapshot.generation
  /\ snapshot'.state = "connected" => snapshot.state = "connected" \/ snapshot.generation # 0
  /\ \A c \in Callers : call'[c].step = "telling" => call'[c] = call[c]
  /\ \A g \in Generations : /\ task'[g] \in Alive => task[g] \in Alive
                            /\ task[g] = "none" => task'[g] = "none"
  /\ Sends(ms) /\ Says(snapshot.generation, ms)
  /\ sent' \in {sent, sent + 1}

\* Launch and Detach begin the next generation.
LEMMA ReplaceBegins ==
  ASSUME ConnectionInv, NEW c \in Callers, NEW op \in {"connect", "disconnect"}, Replace(c, op),
         CanAdvance, UNCHANGED <<channel, missed, listening, sent, told>>
  PROVE  Begins
<1>1. /\ snapshot.generation + 1 \in Generations
      /\ call \in [Callers -> [step : {"none", "retiring", "waiting", "telling"},
                              op : {"connect", "disconnect"},
                              generation : {0} \union Generations]]
  BY TransportAssumption DEF ConnectionInv, ConnectionTypeOK, Snapshots, Generations, CanAdvance
<1>2. CASE op = "connect"
  BY <1>1, <1>2 DEF Replace, Launch, Advance, Becomes, Begins
<1>3. CASE op = "disconnect"
  BY <1>1, <1>3 DEF Replace, Detach, Advance, Becomes, Begins
<1> QED BY <1>2, <1>3

\* A step that leaves the transport alone says nothing.
LEMMA SaysNothing ==
  ASSUME UNCHANGED <<channel, missed, listening, told>>,
         \A h \in Generations : task'[h] \in {"open", "reopening"} => task[h] \in {"open", "reopening"}
  PROVE  Sends(<<>>) /\ Says(snapshot.generation, <<>>)
<1>1. Sends(<<>>)
  BY DEF Sends
<1>2. Says(snapshot.generation, <<>>)
  BY DEF Says, SaysLittle, NoneOpens
<1> QED BY <1>1, <1>2

\* connect and disconnect: a new generation, or the old task is told to stop.
LEMMA RequestMoves ==
  ASSUME ConnectionInv, NEW c \in Callers, NEW op \in {"connect", "disconnect"}, Request(c, op)
  PROVE  Begins \/ Goes(<<>>)
<1>1. CASE active = 0
  BY <1>1, ReplaceBegins DEF Request
<1>2. CASE active # 0
  <2>1. /\ snapshot' = [snapshot EXCEPT !.state = "disconnecting"] /\ snapshot \in Snapshots
        /\ call' = [call EXCEPT ![c] = [step |-> "retiring", op |-> op, generation |-> 0]]
        /\ UNCHANGED <<task, told, channel, missed, listening, sent>>
    BY <1>2 DEF Request, Transition, Becomes, ConnectionInv
  <2>2. \A d \in Callers : call'[d].step = "telling" => call'[d] = call[d]
    BY <2>1 DEF ConnectionInv, ConnectionTypeOK
  <2>3. snapshot'.generation = snapshot.generation /\ snapshot'.state = "disconnecting"
    BY <2>1 DEF Snapshots
  <2>4. Sends(<<>>) /\ Says(snapshot.generation, <<>>)
    BY <2>1, SaysNothing
  <2> QED BY <2>1, <2>2, <2>3, <2>4 DEF Goes
<1> QED BY <1>1, <1>2

\* A caller goes on: a new generation, an end announced, or nothing said.
LEMMA CallerMoves ==
  ASSUME ConnectionInv, CallsInOrder, NEW c \in Callers, CallerStep(c)
  PROVE  Begins \/ \E ms \in Seq(Messages) : Goes(ms)
<1>1. CASE Retired(c)
  <2>1. CanAdvance /\ call[c].op \in {"connect", "disconnect"}
    BY <1>1 DEF Retired, RetiringIsLocked, ConnectionInv, ConnectionTypeOK
  <2> QED BY <1>1, <2>1, ReplaceBegins DEF Retired
<1>2. ASSUME Ends(c)
      PROVE  \A d \in Callers : call'[d].step = "telling" => call'[d] = call[d]
  BY <1>2 DEF Ends, NoCall, ConnectionInv, ConnectionTypeOK
<1>3. ASSUME NEW g \in {0} \union Generations, Transition(g, "failed")
      PROVE  snapshot'.generation = snapshot.generation
             /\ (snapshot'.state = "connected" => snapshot.state = "connected")
  BY <1>3 DEF Transition, ConnectionInv, Snapshots
<1>4. CASE RetiredPanicked(c) \/ RetireTimeout(c) \/ Answered(c) \/ CallDropped(c)
  <2>1. Ends(c) /\ UNCHANGED <<channel, missed, listening, sent, task, told>>
    BY <1>4 DEF RetiredPanicked, RetireTimeout, Answered, CallDropped, transport
  <2>2. UNCHANGED snapshot \/ \E g \in {0} \union Generations : Transition(g, "failed")
    BY <1>4 DEF RetiredPanicked, RetireTimeout, Answered, CallDropped, transport,
       ConnectionInv, Snapshots, ConnectionTypeOK
  <2>3. Goes(<<>>)
    <3>1. Sends(<<>>) /\ Says(snapshot.generation, <<>>)
      BY <2>1, SaysNothing
    <3> QED BY <1>2, <1>3, <2>1, <2>2, <3>1 DEF Goes
  <2>4. <<>> \in Seq(Messages)
    OBVIOUS
  <2> QED BY <2>3, <2>4
<1>5. CASE Tell(c)
  <2>1. PICK h : h = call[c].generation
    OBVIOUS
  <2>2. h \in 1 .. snapshot.generation /\ h \in Generations /\ task[h] = "none"
    BY <1>5, <2>1, TransportAssumption DEF Tell, CallsInOrder, ConnectionInv, Snapshots, Generations
  <2>3. /\ Send(<<Over(h)>>) /\ told' = h /\ UNCHANGED <<snapshot, sent, task>>
    BY <1>5, <2>1 DEF Tell, Over
  <2>4. <<Over(h)>> \in Seq(Messages) /\ <<>> \o <<Over(h)>> = <<Over(h)>>
    BY <2>2 DEF Over, Message, Messages, LifecycleKinds
  <2>5. \E k \in 1 .. snapshot.generation, front \in Notices(snapshot.generation) :
          /\ k \in Generations
          /\ front = <<>> \/ snapshot.generation \in Generations
          /\ <<Over(h)>> = front \o <<Over(k)>> /\ told' = k /\ task'[k] \notin Alive
    BY <2>2, <2>3, <2>4 DEF Notices, Alive
  <2>6. Says(snapshot.generation, <<Over(h)>>)
    BY <2>3, <2>5 DEF Says, SaysDisconnected, NoneOpens
  <2>7. Goes(<<Over(h)>>)
    BY <1>2, <1>5, <2>3, <2>6 DEF Goes, Sends, Tell
  <2> QED BY <2>4, <2>7
<1> QED BY <1>1, <1>4, <1>5 DEF CallerStep

\* Each step of the connection task is one of the four.
LEMMA TaskMoves ==
  ASSUME ConnectionInv, CallsInOrder, NEW g \in Generations, TaskStep(g)
  PROVE  \E ms \in Seq(Messages) : Goes(ms)
<1>1. /\ UNCHANGED <<stop, active, call>> /\ task[g] \in Alive
      /\ sent' \in {sent, sent + 1}
  BY DEF TaskStep, Retries, Opens, Announces, OpenFails, Frame, TransportEnds, StopSeen, TaskPanics,
     Moves, Alive, transport
<1>2. /\ active = g /\ snapshot.generation = g /\ g # 0 /\ g \in 1 .. g /\ snapshot \in Snapshots
      /\ task \in [Generations -> TaskSteps]
  BY <1>1, TransportAssumption
     DEF ConnectionInv, ConnectionTypeOK, OneConnection, ActiveIsCurrent, Generations
<1>3. /\ <<>> \in Seq(Messages) /\ <<Message(g, "notice")>> \in Seq(Messages)
      /\ <<Up(g)>> \in Seq(Messages) /\ <<Over(g)>> \in Seq(Messages)
      /\ \A kind \in DataKinds : <<Message(g, kind)>> \in Seq(Messages)
  BY DEF Messages, Message, LifecycleKinds, Up, Over
<1>4. ASSUME NEW s, Transition(g, s)
      PROVE  snapshot'.generation = snapshot.generation
  BY <1>2, <1>4 DEF Transition, Snapshots
<1>5. ASSUME NEW to \in TaskSteps \ {"none"}, task' = [task EXCEPT ![g] = to]
      PROVE  /\ task'[g] = to /\ \A h \in Generations \ {g} : task'[h] = task[h]
             /\ \A h \in Generations : /\ task'[h] \in Alive => task[h] \in Alive
                                       /\ task[h] = "none" => task'[h] = "none"
  BY <1>1, <1>2, <1>5 DEF Alive
<1>6. ASSUME NEW ms \in Seq(Messages), Sends(ms), Says(g, ms),
             snapshot'.generation = snapshot.generation,
             \A h \in Generations : /\ task'[h] \in Alive => task[h] \in Alive
                                    /\ task[h] = "none" => task'[h] = "none"
      PROVE  Goes(ms)
  BY <1>1, <1>2, <1>6 DEF Goes
<1>7. CASE Retries(g)
  <2>1. /\ Send(<<Message(g, "notice")>>) /\ UNCHANGED told
        /\ snapshot'.generation = snapshot.generation
    BY <1>4, <1>7 DEF Retries
  <2>2. /\ UNCHANGED task \/ (task[g] = "open" /\ task' = [task EXCEPT ![g] = "reopening"])
        /\ "reopening" \in TaskSteps \ {"none"}
    BY <1>7 DEF Retries, Moves, TaskSteps, Alive
  <2>3. /\ \A h \in Generations : /\ task'[h] \in Alive => task[h] \in Alive
                                  /\ task[h] = "none" => task'[h] = "none"
        /\ NoneOpens
    BY <1>5, <2>2 DEF NoneOpens
  <2>4. Says(g, <<Message(g, "notice")>>)
    BY <2>1, <2>3 DEF Says, SaysLittle
  <2> QED BY <1>3, <1>6, <2>1, <2>3, <2>4 DEF Sends
<1>8. CASE Opens(g)
  <2>1. /\ UNCHANGED <<snapshot, channel, missed, listening, told>>
        /\ task' = [task EXCEPT ![g] = "announcing"] /\ "announcing" \in TaskSteps \ {"none"}
    BY <1>8 DEF Opens, Moves, TaskSteps, Alive, transport
  <2>2. NoneOpens
    BY <1>5, <2>1 DEF NoneOpens
  <2>3. Sends(<<>>) /\ Says(g, <<>>)
    BY <1>2, <2>1, <2>2, SaysNothing DEF NoneOpens
  <2> QED BY <1>3, <1>5, <1>6, <2>1, <2>3
<1>9. CASE Announces(g)
  <2>1. /\ Send(<<Up(g)>>) /\ UNCHANGED told
        /\ task' = [task EXCEPT ![g] = "open"] /\ "open" \in TaskSteps \ {"none"}
        /\ snapshot'.generation = snapshot.generation
    BY <1>4, <1>9 DEF Announces, Moves, TaskSteps, Alive, Up
  <2>2. Says(g, <<Up(g)>>)
    BY <1>1, <2>1 DEF Says, SaysConnected
  <2> QED BY <1>3, <1>5, <1>6, <2>1, <2>2 DEF Sends
<1>10. CASE OpenFails(g) \/ StopSeen(g) \/ TaskPanics(g)
  <2>1. PICK to \in {"exited", "panicked"} : task' = [task EXCEPT ![g] = to]
    BY <1>10 DEF OpenFails, StopSeen, TaskPanics, Moves
  <2>2. /\ UNCHANGED told /\ snapshot'.generation = snapshot.generation
        /\ to \in TaskSteps \ {"none"} /\ to \notin {"open", "reopening"}
    BY <1>4, <1>10 DEF OpenFails, StopSeen, TaskPanics, ExitState, TaskSteps
  <2>3. NoneOpens
    BY <1>5, <2>1, <2>2 DEF NoneOpens
  <2>4. \E ms \in {<<>>, <<Message(g, "notice")>>} : Sends(ms)
    BY <1>10 DEF OpenFails, StopSeen, TaskPanics, Sends
  <2>5. PICK ms \in {<<>>, <<Message(g, "notice")>>} : Sends(ms)
    BY <2>4
  <2>6. Says(g, ms)
    BY <2>2, <2>3, <2>5 DEF Says, SaysLittle
  <2>7. ms \in Seq(Messages)
    BY <1>3, <2>5
  <2> QED BY <1>5, <1>6, <2>1, <2>2, <2>5, <2>6, <2>7
<1>11. CASE Frame(g)
  <2>1. PICK kind \in DataKinds : Send(<<Message(g, kind)>>)
    BY <1>2, <1>11 DEF Frame
  <2>2. UNCHANGED <<snapshot, task, told>> /\ task[g] = "open"
    BY <1>2, <1>11 DEF Frame
  <2>3. Says(g, <<Message(g, kind)>>)
    BY <2>2 DEF Says, SaysData
  <2> QED BY <1>3, <1>6, <2>1, <2>2, <2>3 DEF Sends
<1>12. CASE TransportEnds(g)
  <2>1. PICK front \in Notices(g) : Send(front \o <<Over(g)>>)
    BY <1>12 DEF TransportEnds, Notices, Over
  <2>2. /\ told' = g /\ snapshot'.generation = snapshot.generation
        /\ task' = [task EXCEPT ![g] = "exited"] /\ "exited" \in TaskSteps \ {"none"}
    BY <1>4, <1>12 DEF TransportEnds, Moves, ExitState, TaskSteps
  <2>3. NoneOpens /\ task'[g] \notin Alive
    BY <1>5, <2>2 DEF NoneOpens, Alive
  <2>4. PICK ms : ms = front \o <<Over(g)>>
    OBVIOUS
  <2>5. ms \in Seq(Messages)
    <3>1. front \in Seq(Messages) /\ <<Over(g)>> \in Seq(Messages)
      BY <1>3, <2>1 DEF Notices
    <3> QED BY <2>4, <3>1
  <2>6. Says(g, ms)
    BY <1>2, <2>1, <2>2, <2>3, <2>4 DEF Says, SaysDisconnected
  <2> QED BY <1>5, <1>6, <2>1, <2>2, <2>4, <2>5, <2>6 DEF Sends
<1> QED BY <1>7, <1>8, <1>9, <1>10, <1>11, <1>12 DEF TaskStep

\* Every step of callers and task begins a generation or goes on with it.
LEMMA ConnectionMoves ==
  ASSUME ConnectionInv, CallsInOrder, Connection
  PROVE  Begins \/ \E ms \in Seq(Messages) : Goes(ms)
<1>1. ASSUME NEW c \in Callers, Connects(c) \/ Disconnects(c)
      PROVE  Begins \/ \E ms \in Seq(Messages) : Goes(ms)
  <2>1. Begins \/ Goes(<<>>)
    BY <1>1, RequestMoves DEF Connects, Disconnects
  <2>2. <<>> \in Seq(Messages)
    OBVIOUS
  <2> QED BY <2>1, <2>2
<1> QED BY <1>1, CallerMoves, TaskMoves DEF Connection, ConnectionStep

\* The calls and tasks that were superseded stay so.
LEMMA CallsKept ==
  ASSUME ConnectionInv, CallsInOrder, Connection
  PROVE  CallsInOrder'
<1> DEFINE g == snapshot.generation
<1>1. /\ g \in Nat /\ g \in {0} \union Generations /\ g + 1 > g /\ told \in {0} \union Generations
      /\ task \in [Generations -> TaskSteps] /\ \A h \in Generations : h \in Nat \ {0}
      /\ \A h \in Generations : h > g => task[h] = "none"
      /\ \A c \in Callers : call[c].generation \in {0} \union Generations
  BY TransportAssumption DEF ConnectionInv, ConnectionTypeOK, ActiveIsCurrent, Snapshots, Generations
<1>2. CASE Begins
  <2>1. /\ g + 1 \in Generations /\ snapshot'.generation = g + 1 /\ snapshot'.state # "connected"
        /\ told' = told
        /\ task' = [task EXCEPT ![g + 1] = "opening"] \/ task' = task
        /\ \A c \in Callers : call'[c].step = "telling" =>
             call'[c] = call[c] \/ (call'[c].generation = g + 1 /\ task' = task)
    BY <1>2 DEF Begins
  <2> HIDE DEF g
  <2>2. \A h \in Generations : h # g + 1 => task'[h] = task[h]
    BY <1>1, <2>1
  <2>3. told <= g /\ (told # 0 => task[told] \notin Alive)
        /\ \A c \in Callers : call[c].step = "telling" =>
             call[c].generation \in 1 .. g /\ task[call[c].generation] = "none"
    BY DEF CallsInOrder, g
  <2>4. told' <= g + 1 /\ (told' # 0 => task'[told'] \notin Alive)
    BY <1>1, <2>1, <2>2, <2>3
  <2>5. ASSUME NEW c \in Callers, call'[c].step = "telling"
        PROVE  call'[c].generation \in 1 .. g + 1 /\ task'[call'[c].generation] = "none"
    <3>1. CASE call'[c] = call[c]
      <4>1. call[c].generation \in Generations /\ call[c].generation # g + 1
            /\ call[c].generation \in 1 .. g /\ task[call[c].generation] = "none"
        BY <1>1, <2>3, <2>5, <3>1
      <4> QED BY <1>1, <2>2, <3>1, <4>1
    <3>2. CASE call'[c].generation = g + 1 /\ task' = task
      BY <1>1, <2>1, <3>2
    <3> QED BY <2>1, <2>5, <3>1, <3>2
  <2> QED BY <1>1, <2>1, <2>4, <2>5 DEF CallsInOrder
<1>3. ASSUME NEW ms \in Seq(Messages), Goes(ms)
      PROVE  CallsInOrder'
  <2>1. /\ snapshot'.generation = g
        /\ snapshot'.state = "connected" => snapshot.state = "connected" \/ g # 0
        /\ \A c \in Callers : call'[c].step = "telling" => call'[c] = call[c]
        /\ \A h \in Generations : /\ task'[h] \in Alive => task[h] \in Alive
                                  /\ task[h] = "none" => task'[h] = "none"
        /\ Says(g, ms)
    BY <1>3 DEF Goes
  <2> HIDE DEF g
  <2>2. \/ told' = told
        \/ told' \in 1 .. g /\ task'[told'] \notin Alive
    BY <2>1 DEF Says, SaysLittle, SaysConnected, SaysData, SaysDisconnected
  <2>3. told <= g /\ (told # 0 => task[told] \notin Alive)
        /\ (snapshot.state = "connected" => g # 0)
        /\ \A c \in Callers : call[c].step = "telling" =>
             call[c].generation \in 1 .. g /\ task[call[c].generation] = "none"
    BY DEF CallsInOrder, g
  <2>4. told' <= g /\ (told' # 0 => task'[told'] \notin Alive)
    BY <1>1, <2>1, <2>2, <2>3
  <2>5. ASSUME NEW c \in Callers, call'[c].step = "telling"
        PROVE  call'[c].generation \in 1 .. g /\ task'[call'[c].generation] = "none"
    <3>1. call'[c] = call[c] /\ call[c].generation \in 1 .. g
          /\ task[call[c].generation] = "none" /\ call[c].generation \in Generations
      BY <1>1, <2>1, <2>3, <2>5
    <3> QED BY <2>1, <3>1
  <2> QED BY <2>1, <2>3, <2>4, <2>5 DEF CallsInOrder
<1> QED BY <1>2, <1>3, ConnectionMoves

-----------------------------------------------------------------------------
\* The transport's variables keep their types under the connection.
LEMMA ConnectionTyped ==
  ASSUME ConnectionInv, ConnectionInv', CallsInOrder, TransportTypeOK, Connection
  PROVE  TransportTypeOK'
<1>1. snapshot' \in Snapshots
  BY DEF ConnectionInv
<1>2. CASE Begins
  BY <1>1, <1>2 DEF Begins, TransportTypeOK
<1>3. ASSUME NEW ms \in Seq(Messages), Goes(ms)
      PROVE  TransportTypeOK'
  <2>1. Sends(ms) /\ sent' \in Nat
    BY <1>3 DEF Goes, TransportTypeOK
  <2>2. channel' \in Seq(Messages) /\ missed' \in BOOLEAN /\ listening' \in BOOLEAN
    BY <2>1, SendTyped DEF Sends, TransportTypeOK
  <2> QED BY <1>1, <2>1, <2>2 DEF TransportTypeOK
<1> QED BY <1>2, <1>3, ConnectionMoves

\* The invariant of the ingress speaks of its own state and of typed messages.
LEMMA IngressUnmoved ==
  ASSUME IngressInv, UNCHANGED ingressVars, TransportTypeOK'
  PROVE  IngressInv'
<1> USE DEF ingressVars, control, startup, flow, session, counters
<1>1. TypeOK'
  BY DEF IngressInv, TypeOK, IngressTypeOK
<1>2. TaskOrder' /\ LadderOrder'
  BY DEF IngressInv, TaskOrder, LadderOrder, WorkerGone, WorkerEnded, HasStopped, WorkerKept
<1>3. Emptied' /\ ReceiptAccounted'
  BY DEF IngressInv, Emptied, ReceiptAccounted, Holding
<1>4. EveryItemAccounted' /\ EveryEffectAccounted'
  BY DEF IngressInv, EveryItemAccounted, EveryEffectAccounted, Accounted
<1>5. StoppedIsDead' /\ ContextIsCurrent' /\ NeverToANewerCreator'
  BY DEF IngressInv, StoppedIsDead, WorkerEnded, ContextIsCurrent, NeverToANewerCreator
<1> QED BY <1>1, <1>2, <1>3, <1>4, <1>5 DEF IngressInv

-----------------------------------------------------------------------------
(* What the line and the worker tell of the connection.                    *)

\* Connections an event may belong to without one more announcement.
Known == {g \in {0} \union Generations : g <= sequence \/ g < snapshot.generation}

\* No lag so far, and the worker lives.
Working == ladder = "running" /\ dispatch.step # "dead" /\ stats.lagged = 0

\* Without the pump nothing was ever received or credited.
BeforePump ==
  /\ ~listening /\ channel = <<>> /\ ~missed
  /\ sequence = 0 /\ context = 0 /\ topic = 0 /\ credited = {}

\* The worker and the line know of no connection that has not begun.
Bounded ==
  /\ sequence <= snapshot.generation
  /\ Within(Line, snapshot.generation)
  /\ dispatch.step = "ending" => dispatch.item.generation <= snapshot.generation

\* The worker is about to publish the end of g.
EndingOf(g) == dispatch.step = "ending" /\ dispatch.item.generation = g

\* Of the current connection: alive, no end of it was said; open, its announcement is
\* in the line or its context is opened.
Heard ==
  \A g \in Generations : g = snapshot.generation =>
    /\ task[g] \in Alive => ~Has(Line, Over(g)) /\ ~EndingOf(g)
    /\ task[g] \in {"open", "reopening"} => Has(Line, Up(g)) \/ Opened(g)

\* If its end was announced, the end is the last word in the line, or it has been
\* heard and nothing will open the context again.
EndHeard ==
  told = snapshot.generation =>
    EndsLast(Line, told) \/ (~Has(Line, Up(told)) /\ Ended(told))

\* While nothing lags, the line and the worker together tell of the connection what
\* it is, and every event comes after the announcement of its own connection.
Announced ==
  /\ listening /\ (missed => channel # <<>>)
  /\ Bounded /\ Covered(Line, Known)
  /\ \A c \in credited : c.generation = c.context
  /\ ~missed => Heard /\ EndHeard

\* The invariant.
PipelineInv ==
  /\ CallsInOrder
  /\ ladder = "running" => ~admission
  /\ ladder = "running" /\ pump.step = "off" => BeforePump
  /\ Working /\ pump.step # "off" /\ ~early => Announced

\* Nothing said afterwards brings an ended connection back.
LEMMA EndsLastMore ==
  ASSUME NEW s \in Seq(Messages), NEW t \in Seq(Messages), NEW g,
         EndsLast(s, g), ~Has(t, Up(g))
  PROVE  EndsLast(s \o t, g)
<1>1. PICK e \in DOMAIN s : s[e] = Over(g) /\ \A j \in DOMAIN s : s[j] = Up(g) => j < e
  BY DEF EndsLast
<1>2. e \in DOMAIN (s \o t) /\ (s \o t)[e] = Over(g)
  BY <1>1, ConcatPlaces
<1>3. ASSUME NEW j \in DOMAIN (s \o t), (s \o t)[j] = Up(g)  PROVE j < e
  <2>1. CASE j \in 1 .. Len(s)
    BY <1>1, <1>3, <2>1, ConcatPlaces
  <2>2. CASE j \in Len(s) + 1 .. Len(s) + Len(t)
    <3>1. j - Len(s) \in DOMAIN t /\ t[j - Len(s)] = Up(g)
      BY <1>3, <2>2, ConcatPlaces
    <3> QED BY <3>1 DEF Has
  <2> QED BY <2>1, <2>2, ConcatPlaces
<1> QED BY <1>2, <1>3 DEF EndsLast

\* A new connection begins: nothing was said of it before.
LEMMA BeginsKept ==
  ASSUME TypeOK, ConnectionInv, CallsInOrder, Announced, Begins, UNCHANGED ingressVars
  PROVE  Announced'
<1>0. PICK g : g = snapshot.generation
  OBVIOUS
<1>1. /\ g \in Nat /\ g + 1 \in Generations /\ snapshot'.generation = g + 1
      /\ UNCHANGED <<channel, missed, listening, told>> /\ told <= g /\ told \in Nat
      /\ Line \in Seq(Messages) /\ Line' = Line /\ sequence \in Nat
      /\ dispatch.item.generation \in Nat
  BY <1>0, TransportAssumption, LineTypes, LineUnmoved
     DEF Begins, TypeOK, TransportTypeOK, IngressTypeOK, Snapshots, Generations, CallsInOrder,
         ConnectionInv, ConnectionTypeOK, ingressVars, flow, Messages
<1>2. UNCHANGED <<sequence, context, topic, credited, dispatch>>
  BY DEF ingressVars, session, flow
<1>3. Within(Line, g) /\ sequence <= g /\ (dispatch.step = "ending" => dispatch.item.generation <= g)
  BY <1>0 DEF Announced, Bounded
<1>4. Within(Line, g + 1)
  BY <1>1, <1>3 DEF Within
<1>5. Bounded'
  BY <1>1, <1>2, <1>3, <1>4 DEF Bounded, Within
<1>6. Covered(Line, Known')
  <2>1. Known \subseteq Known'
    BY <1>0, <1>1, <1>2, TransportAssumption DEF Known, Generations
  <2> QED BY <2>1, CoveredMore DEF Announced
<1>7. ~Has(Line, Over(g + 1))
  BY <1>1, <1>3 DEF Within, Has, Over, Message
<1>8. Heard'
  <2>1. task[g + 1] = "none" /\ task \in [Generations -> TaskSteps]
    BY <1>0, <1>1 DEF ConnectionInv, ConnectionTypeOK, ActiveIsCurrent
  <2>2. task'[g + 1] \in {"none", "opening"}
    BY <1>0, <1>1, <2>1 DEF Begins
  <2>3. ~Has(Line', Over(g + 1))
    BY <1>1, <1>7
  <2>4. \A h : h = g + 1 => ~(dispatch'.step = "ending" /\ dispatch'.item.generation = h)
    BY <1>1, <1>2, <1>3
  <2> QED BY <1>1, <2>2, <2>3, <2>4 DEF Heard, EndingOf, Alive
<1>9. EndHeard'
  BY <1>1 DEF EndHeard
<1> QED BY <1>1, <1>2, <1>5, <1>6, <1>8, <1>9 DEF Announced, Covered

\* The messages differ.
LEMMA MessagesDiffer ==
  \A g, h : /\ Message(g, "notice") # Up(h) /\ Message(g, "notice") # Over(h)
            /\ Up(g) # Over(h)
            /\ ~IsData(Message(g, "notice"))
            /\ ~IsData(Up(g)) /\ ~IsData(Over(g))
            /\ Up(g) = Up(h) => g = h
            /\ Over(g) = Over(h) => g = h
            /\ \A kind \in DataKinds :
                 Message(g, kind) # Up(h) /\ Message(g, kind) # Over(h)
BY DEF Message, Up, Over, IsData, DataKinds

\* All messages but the last of what is said are notices.
LEMMA SaidOf ==
  ASSUME NEW g \in Nat, NEW ms \in Seq(Messages), Says(g, ms)
  PROVE  /\ Within(ms, g)
         /\ \A i \in DOMAIN ms : IsData(ms[i]) => ms[i].generation = g /\ task[g] = "open"
         /\ \A h : Has(ms, Over(h)) => told' = h /\ task'[h] \notin Alive
         /\ \A h : Has(ms, Up(h)) => h = g /\ told' = told /\ task[g] \in Alive
         /\ \A h \in Generations : task'[h] \in {"open", "reopening"} =>
              task[h] \in {"open", "reopening"} \/ Has(ms, Up(g))
         /\ told' = told \/ (EndsLast(ms, told') /\ task'[told'] \notin Alive)
<1>1. CASE SaysLittle(g, ms)
  <2>1. \A i \in DOMAIN ms : ms[i] = Message(g, "notice") /\ g \in 1 .. g
    BY <1>1 DEF SaysLittle, Generations
  <2>2. /\ \A h : ~Has(ms, Up(h)) /\ ~Has(ms, Over(h))
        /\ \A i \in DOMAIN ms : ~IsData(ms[i])
    BY <2>1, MessagesDiffer DEF Has
  <2>3. Within(ms, g)
    BY <2>1 DEF Within, Message
  <2> QED BY <1>1, <2>2, <2>3 DEF SaysLittle, NoneOpens
<1>2. CASE SaysConnected(g, ms)
  <2>1. ms = <<Up(g)>> /\ g \in 1 .. g
    BY <1>2 DEF SaysConnected, Generations
  <2>2. /\ \A h : (Has(ms, Up(h)) <=> h = g) /\ ~Has(ms, Over(h))
        /\ \A i \in DOMAIN ms : ~IsData(ms[i])
    BY <2>1, MessagesDiffer DEF Has
  <2>3. Within(ms, g)
    BY <2>1 DEF Within, Up, Message
  <2> QED BY <1>2, <2>2, <2>3 DEF SaysConnected
<1>3. CASE SaysData(g, ms)
  <2>1. PICK kind \in DataKinds : ms = <<Message(g, kind)>>
    BY <1>3 DEF SaysData
  <2>2. \A h : ~Has(ms, Up(h)) /\ ~Has(ms, Over(h))
    BY <2>1, MessagesDiffer DEF Has
  <2>3. g \in 1 .. g /\ \A i \in DOMAIN ms : ms[i].generation = g
    BY <1>3, <2>1 DEF SaysData, Generations, Message
  <2>4. Within(ms, g)
    BY <2>3 DEF Within
  <2> QED BY <1>3, <2>2, <2>3, <2>4 DEF SaysData
<1>4. CASE SaysDisconnected(g, ms)
  <2>1. PICK h \in 1 .. g, front \in Notices(g) :
          /\ h \in Generations
          /\ front = <<>> \/ g \in Generations
          /\ ms = front \o <<Over(h)>> /\ told' = h /\ task'[h] \notin Alive
    BY <1>4 DEF SaysDisconnected
  <2>2. front = <<>> \/ (front = <<Message(g, "notice")>> /\ g \in 1 .. g)
    BY <2>1 DEF Notices, Generations
  <2>3. /\ \A i \in DOMAIN ms : ms[i] = Over(h) \/ (ms[i] = Message(g, "notice") /\ g \in 1 .. g)
        /\ \E i \in DOMAIN ms : ms[i] = Over(h)
    <3>1. /\ front \in Seq(Messages) /\ <<Over(h)>> \in Seq(Messages)
          /\ \A i \in DOMAIN front : front[i] = Message(g, "notice") /\ g \in 1 .. g
      BY <2>1, <2>2 DEF Over, Message, Messages, LifecycleKinds
    <3>2. /\ DOMAIN ms = 1 .. Len(front) + 1 /\ Len(front) \in Nat /\ ms[Len(front) + 1] = Over(h)
          /\ \A i \in 1 .. Len(front) : i \in DOMAIN front /\ ms[i] = front[i]
      BY <2>1, <3>1
    <3>3. ASSUME NEW i \in DOMAIN ms
          PROVE  ms[i] = Over(h) \/ (ms[i] = Message(g, "notice") /\ g \in 1 .. g)
      BY <3>1, <3>2, <3>3
    <3> QED BY <3>2, <3>3
  <2>4. /\ \A k : ~Has(ms, Up(k)) /\ (Has(ms, Over(k)) <=> k = h)
        /\ \A i \in DOMAIN ms : ~IsData(ms[i])
    BY <2>3, MessagesDiffer DEF Has
  <2>5. Within(ms, g)
    BY <2>3 DEF Within, Message, Over
  <2>6. EndsLast(ms, h)
    BY <2>4 DEF EndsLast, Has
  <2> QED BY <1>4, <2>1, <2>4, <2>5, <2>6 DEF SaysDisconnected, NoneOpens
<1> QED BY <1>1, <1>2, <1>3, <1>4 DEF Says

\* An end that comes later is the last word as well.
LEMMA EndsLastLater ==
  ASSUME NEW s \in Seq(Messages), NEW t \in Seq(Messages), NEW g, EndsLast(t, g)
  PROVE  EndsLast(s \o t, g)
<1>1. PICK e \in DOMAIN t : t[e] = Over(g) /\ \A j \in DOMAIN t : t[j] = Up(g) => j < e
  BY DEF EndsLast
<1>2. Len(s) + e \in DOMAIN (s \o t) /\ (s \o t)[Len(s) + e] = Over(g)
  BY <1>1, ConcatPlaces
<1>3. ASSUME NEW j \in DOMAIN (s \o t), (s \o t)[j] = Up(g)  PROVE j < Len(s) + e
  <2>0. Len(s) \in Nat /\ Len(t) \in Nat /\ e \in 1 .. Len(t) /\ j \in 1 .. Len(s) + Len(t)
    BY <1>1, ConcatPlaces
  <2>1. CASE j \in 1 .. Len(s)
    BY <2>0, <2>1
  <2>2. CASE j \in Len(s) + 1 .. Len(s) + Len(t)
    <3>1. j - Len(s) \in DOMAIN t /\ t[j - Len(s)] = Up(g)
      BY <1>3, <2>2, ConcatPlaces
    <3>2. j - Len(s) < e
      BY <1>1, <3>1
    <3> QED BY <2>0, <3>2
  <2> QED BY <2>0, <2>1, <2>2
<1> QED BY <1>2, <1>3 DEF EndsLast

\* The connection says something: it comes to the end of the line.
LEMMA GoesKept ==
  ASSUME TypeOK, ConnectionInv, CallsInOrder, Announced, UNCHANGED ingressVars,
         NEW ms \in Seq(Messages), Goes(ms)
  PROVE  Announced'
<1>0. PICK g : g = snapshot.generation
  OBVIOUS
<1>1. PICK line, next : line = Line /\ next = Line'
  OBVIOUS
<1>2. /\ g \in Nat /\ g \in {0} \union Generations /\ snapshot'.generation = g
      /\ told <= g /\ told \in Nat /\ line \in Seq(Messages) /\ sequence \in Nat
      /\ \A h \in Generations : h \in Nat \ {0}
  <2>1. sequence \in {0} \union Generations /\ told \in {0} \union Generations
        /\ g \in {0} \union Generations
    BY <1>0 DEF TypeOK, IngressTypeOK, ConnectionInv, ConnectionTypeOK, Snapshots
  <2>2. \A h \in {0} \union Generations : h \in Nat
    BY TransportAssumption DEF Generations
  <2>3. \A h \in Generations : h \in Nat \ {0}
    BY TransportAssumption DEF Generations
  <2>4. snapshot'.generation = g /\ told <= g
    BY <1>0 DEF Goes, CallsInOrder
  <2>5. line \in Seq(Messages)
    BY <1>1, LineTypes
  <2> QED BY <2>1, <2>2, <2>3, <2>4, <2>5
<1>3. UNCHANGED <<sequence, context, topic, credited, dispatch, queue, pump>>
  BY DEF ingressVars, session, flow
<1>4. /\ listening' /\ (missed' => channel' # <<>>)
      /\ \/ missed' /\ next \in Seq(Messages) /\ \E rest \in Seq(Messages) : line = next \o rest
         \/ ~missed /\ ~missed' /\ next = line \o ms
  BY <1>1, <1>3, LineSent DEF Goes, Announced
<1>5. /\ Within(line, g) /\ sequence <= g /\ Covered(line, Known)
      /\ dispatch.step = "ending" => dispatch.item.generation <= g
      /\ \A c \in credited : c.generation = c.context
  BY <1>0, <1>1 DEF Announced, Bounded
<1>6. Known' = Known
  BY <1>0, <1>2, <1>3 DEF Known
<1>7. /\ Within(ms, g)
      /\ \A i \in DOMAIN ms : IsData(ms[i]) => ms[i].generation = g /\ task[g] = "open"
      /\ \A h : Has(ms, Over(h)) => told' = h /\ task'[h] \notin Alive
      /\ \A h : Has(ms, Up(h)) => h = g /\ told' = told /\ task[g] \in Alive
      /\ \A h \in Generations : task'[h] \in {"open", "reopening"} =>
           task[h] \in {"open", "reopening"} \/ Has(ms, Up(g))
      /\ told' = told \/ (EndsLast(ms, told') /\ task'[told'] \notin Alive)
  <2>1. Says(g, ms)
    BY <1>0 DEF Goes
  <2> QED BY <1>2, <2>1, SaidOf
<1>8. CASE missed'
  <2>1. PICK rest \in Seq(Messages) : line = next \o rest /\ next \in Seq(Messages)
    BY <1>4, <1>8
  <2>2. Within(next, g)
    BY <1>2, <1>5, <2>1, WithinMoves
  <2>3. Covered(next, Known)
    BY <1>5, <2>1, CoveredPrefix
  <2>4. Bounded' /\ Covered(Line, Known)'
    BY <1>1, <1>2, <1>3, <1>5, <1>6, <2>2, <2>3 DEF Bounded, Within, Covered
  <2> QED BY <1>3, <1>4, <1>5, <1>8, <2>4 DEF Announced
<1>9. CASE ~missed'
  <2>1. next = line \o ms /\ Heard /\ EndHeard
    BY <1>4, <1>9 DEF Announced
  <2>2. /\ g \in Generations /\ task[g] \in Alive => ~Has(line, Over(g)) /\ ~EndingOf(g)
        /\ g \in Generations /\ task[g] \in {"open", "reopening"} => Has(line, Up(g)) \/ Opened(g)
        /\ told = g => EndsLast(line, g) \/ (~Has(line, Up(g)) /\ Ended(g))
    BY <1>0, <1>1, <2>1 DEF Heard, EndHeard
  <2>3. Within(next, g)
    BY <1>2, <1>5, <1>7, <2>1, WithinMoves
  <2>4. Covered(next, Known)
    <3>1. ASSUME NEW i \in DOMAIN ms, IsData(ms[i])
          PROVE  ms[i].generation \in Known \/ Has(line, Up(ms[i].generation))
      <4>1. ms[i].generation = g /\ task[g] = "open" /\ g \in Generations
        BY <1>2, <1>7, <3>1 DEF Within, Generations
      <4>2. Has(line, Up(g)) \/ sequence = g
        BY <2>2, <4>1 DEF Opened
      <4> QED BY <1>2, <4>1, <4>2 DEF Known
    <3> QED BY <1>2, <1>5, <2>1, <3>1, CoveredAppend
  <2>5. Bounded' /\ Covered(Line, Known)'
    BY <1>1, <1>2, <1>3, <1>5, <1>6, <2>3, <2>4 DEF Bounded, Within, Covered
  <2>6. \A m : Has(next, m) <=> Has(line, m) \/ Has(ms, m)
    BY <1>2, <2>1, HasInConcat
  <2>7. \A h : (EndingOf(h)' <=> EndingOf(h)) /\ (Opened(h)' <=> Opened(h)) /\ (Ended(h)' <=> Ended(h))
    BY <1>3 DEF EndingOf, Opened, Ended
  <2>8. Heard'
    <3>1. ASSUME g \in Generations, task'[g] \in Alive
          PROVE  ~Has(next, Over(g)) /\ ~EndingOf(g)
      <4>1. task[g] \in Alive
        BY <3>1 DEF Goes
      <4> QED BY <1>7, <2>2, <2>6, <3>1, <4>1
    <3>2. ASSUME g \in Generations, task'[g] \in {"open", "reopening"}
          PROVE  Has(next, Up(g)) \/ Opened(g)
      BY <1>7, <2>2, <2>6, <3>2
    <3>3. \A h : h = g =>
            /\ h \in Generations /\ task'[h] \in Alive => ~Has(next, Over(h)) /\ ~EndingOf(h)
            /\ h \in Generations /\ task'[h] \in {"open", "reopening"} =>
                 Has(next, Up(h)) \/ Opened(h)
      BY <3>1, <3>2
    <3> QED BY <1>1, <1>2, <2>7, <3>3 DEF Heard
  <2>9. EndHeard'
    <3>1. ASSUME told' = g
          PROVE  EndsLast(next, g) \/ (~Has(next, Up(g)) /\ Ended(g))
      <4>1. CASE told' = told
        <5>1. ~Has(ms, Up(g))
          <6>1. g # 0 => task[g] \notin Alive
            BY <3>1, <4>1 DEF CallsInOrder
          <6>2. ASSUME g = 0  PROVE ~Has(ms, Up(g))
            BY <1>7, <6>2 DEF Within, Has
          <6> QED BY <1>7, <6>1, <6>2
        <5>2. CASE EndsLast(line, g)
          BY <1>2, <2>1, <5>1, <5>2, EndsLastMore
        <5>3. CASE ~Has(line, Up(g)) /\ Ended(g)
          BY <2>6, <5>1, <5>3
        <5> QED BY <2>2, <3>1, <4>1, <5>2, <5>3
      <4>2. CASE told' # told
        BY <1>2, <1>7, <2>1, <3>1, <4>2, EndsLastLater
      <4> QED BY <4>1, <4>2
    <3>2. \A h : h = g /\ told' = h => EndsLast(next, h) \/ (~Has(next, Up(h)) /\ Ended(h)')
      BY <2>7, <3>1
    <3> QED BY <1>1, <1>2, <3>2 DEF EndHeard, EndsLast, Has, Ended, Over, Up
  <2> QED BY <1>3, <1>4, <1>5, <1>9, <2>5, <2>8, <2>9 DEF Announced
<1> QED BY <1>8, <1>9

-----------------------------------------------------------------------------
(* The worker takes from the line.                                         *)

\* The worker takes the head of the queue.
Takes == TakeStale \/ TakeData \/ TakeNotice \/ TakeConnected \/ TakeDisconnected

\* The worker takes the oldest of the line, and what it was told by it stays known.
LEMMA TakesKept ==
  ASSUME IngressInv, ConnectionInv, CallsInOrder, Working, Announced, Takes, UNCHANGED owner
  PROVE  Announced'
<1>0. PICK g, line, item : g = snapshot.generation /\ line = Line /\ item = Head(queue)
  OBVIOUS
<1>1. TypeOK /\ ContextIsCurrent
  BY DEF IngressInv
<1>2. /\ dispatch.step = "receiving" /\ queue # <<>> /\ queue' = Tail(queue)
      /\ UNCHANGED <<snapshot, channel, missed, listening, pump, topic, task, told>>
  BY DEF Takes, TakeStale, TakeData, TakeNotice, TakeConnected, TakeDisconnected, Ready, transport,
     session, owner
<1>3. line # <<>> /\ Head(line) = item /\ Line' = Tail(line) /\ line \in Seq(Messages)
  BY <1>0, <1>1, <1>2, LineTaken, LineTypes
<1>4. /\ g \in Nat /\ g \in {0} \union Generations /\ told \in Nat /\ sequence \in Nat
      /\ item \in Messages /\ item.generation \in Nat /\ \A h \in Generations : h \in Nat \ {0}
  <2>1. item \in Messages
    BY <1>3, TailPlaces
  <2> QED BY <1>0, <1>1, <2>1, TransportAssumption
       DEF TypeOK, TransportTypeOK, IngressTypeOK, Snapshots, Generations, CallsInOrder,
           ConnectionInv, ConnectionTypeOK, Messages
<1>5. /\ Within(line, g) /\ sequence <= g /\ Covered(line, Known)
      /\ \A c \in credited : c.generation = c.context
      /\ missed => channel # <<>>
      /\ ~missed => Heard /\ EndHeard
  BY <1>0 DEF Announced, Bounded
<1>6. item.generation \in 1 .. g /\ Within(Tail(line), g)
  BY <1>3, <1>4, <1>5, WithinMoves
<1>7. /\ item.kind = "connected" => item = Up(item.generation)
      /\ item.kind = "disconnected" => item = Over(item.generation)
      /\ \A h : (item = Up(h) => item.kind = "connected" /\ item.generation = h)
                /\ (item = Over(h) => item.kind = "disconnected" /\ item.generation = h)
  BY <1>4 DEF Up, Over, Message, Messages
<1>8. /\ TakeStale => item.generation < g \/ item.generation < sequence
      /\ ~TakeStale => item.generation = g
  BY <1>0, <1>4, <1>6
     DEF Takes, TakeStale, TakeData, TakeNotice, TakeConnected, TakeDisconnected, Superseded, Item
<1>9. /\ sequence' = sequence \/ (sequence' = item.generation /\ item.kind = "connected")
      /\ item.kind = "connected" => TakeStale \/ TakeConnected
      /\ item.kind = "disconnected" => TakeStale \/ TakeDisconnected
      /\ TakeConnected => /\ sequence' = item.generation /\ dispatch'.step = "closing"
                          /\ item.kind = "connected"
      /\ TakeDisconnected => /\ dispatch'.step = "ending" /\ dispatch'.item.generation = g
                             /\ sequence' = sequence /\ context' = 0
                             /\ item.kind = "disconnected"
      /\ TakeStale \/ TakeData \/ TakeNotice =>
           /\ UNCHANGED <<sequence, context>> /\ dispatch'.step \in {"receiving", "routing"}
      /\ TakeData \/ TakeNotice => item.kind # "connected"
  BY <1>0, <1>2 DEF Takes, TakeStale, TakeData, TakeNotice, TakeConnected, TakeDisconnected, Item,
     Dispatch, session, Message, IsData, DataKinds
<1>10. sequence' <= g /\ sequence' \in Nat /\ sequence <= sequence'
  BY <1>4, <1>5, <1>6, <1>8, <1>9
<1>11. Bounded'
  <2>1. dispatch'.step = "ending" => dispatch'.item.generation <= g
    BY <1>4, <1>8, <1>9 DEF Takes
  <2> QED BY <1>0, <1>2, <1>3, <1>6, <1>10, <2>1 DEF Bounded, Within
<1>12. Covered(Line, Known)'
  <2>1. Known \subseteq Known'
    BY <1>2, <1>4, <1>10 DEF Known
  <2>2. ASSUME NEW h, item = Up(h)  PROVE h \in Known'
    <3>1. h = item.generation /\ h <= g /\ item.kind = "connected" /\ h \in {0} \union Generations
      BY <1>4, <1>6, <1>7, <2>2 DEF Messages
    <3>2. h <= sequence' \/ h < g
      BY <1>4, <1>5, <1>8, <1>9, <3>1
    <3> QED BY <1>0, <1>2, <3>1, <3>2 DEF Known
  <2>3. Covered(Tail(line), Known')
    BY <1>3, <1>5, <2>1, <2>2, CoveredTail
  <2> QED BY <1>3, <2>3 DEF Covered
<1>13. \A c \in credited' : c.generation = c.context
  <2>1. CASE ~TakeData
    BY <1>5, <2>1 DEF Takes, TakeStale, TakeNotice, TakeConnected, TakeDisconnected, session
  <2>2. CASE TakeData /\ context = 0
    BY <1>5, <2>2 DEF TakeData
  <2>3. CASE TakeData /\ context # 0
    <3>1. context = sequence /\ IsData(item) /\ ~TakeStale
      BY <1>0, <1>1, <2>3 DEF ContextIsCurrent, TakeData, TakeStale, Item
    <3>2. item.generation = g /\ g \in Known
      <4>1. item = line[1] /\ 1 \in DOMAIN line /\ \A j \in DOMAIN line : j \in Nat /\ j >= 1
        BY <1>3, TailPlaces
      <4> QED BY <1>5, <1>8, <3>1, <4>1 DEF Covered
    <3>3. sequence = g
      BY <1>0, <1>4, <1>5, <3>2 DEF Known
    <3> QED BY <1>0, <1>5, <2>3, <3>1, <3>2, <3>3 DEF TakeData, Item
  <2> QED BY <2>1, <2>2, <2>3
<1>14. CASE missed
  BY <1>2, <1>5, <1>11, <1>12, <1>13, <1>14 DEF Announced
<1>15. CASE ~missed
  <2>1. /\ g \in Generations /\ task[g] \in Alive => ~Has(line, Over(g))
        /\ g \in Generations /\ task[g] \in {"open", "reopening"} => Has(line, Up(g)) \/ Opened(g)
        /\ told = g => EndsLast(line, g) \/ (~Has(line, Up(g)) /\ Ended(g))
    BY <1>0, <1>5, <1>15 DEF Heard, EndHeard
  <2>2. \A m : Has(line, m) <=> item = m \/ Has(Tail(line), m)
    BY <1>3, HasInTail
  <2>3. \A h : /\ EndingOf(h)' => TakeDisconnected /\ h = g
               /\ Opened(h)' <=> /\ sequence' = h
                                 /\ \/ dispatch'.step = "closing"
                                    \/ context' = h /\ (dispatch'.step = "opening" \/ topic = h)
               /\ Ended(h)' <=> /\ context' = 0 /\ dispatch'.step \notin {"closing", "opening"}
                                /\ \/ topic = 0
                                   \/ dispatch'.step = "ending" /\ dispatch'.item.generation = h
    BY <1>2, <1>9 DEF EndingOf, Opened, Ended, Takes
  <2>4. ASSUME g \in Generations, task[g] \in Alive
        PROVE  ~Has(Tail(line), Over(g)) /\ ~TakeDisconnected
    BY <1>2, <1>7, <1>8, <1>9, <2>1, <2>2, <2>4 DEF TakeStale, TakeDisconnected
  <2>5. ASSUME g \in Generations, task[g] \in {"open", "reopening"}
        PROVE  Has(Tail(line), Up(g)) \/ Opened(g)'
    <3>1. ~TakeDisconnected
      BY <2>4, <2>5 DEF Alive
    <3>2. CASE TakeConnected /\ ~TakeStale
      BY <1>8, <1>9, <2>3, <3>2
    <3>3. CASE TakeStale \/ TakeData \/ TakeNotice
      <4>1. item # Up(g)
        <5>1. ASSUME item = Up(g)  PROVE FALSE
          <6>1. item.kind = "connected" /\ item.generation = g
            BY <1>7, <5>1
          <6> QED BY <1>4, <1>5, <1>8, <1>9, <3>3, <6>1
        <5> QED BY <5>1
      <4> QED BY <1>2, <1>9, <2>1, <2>2, <2>3, <2>5, <3>3, <4>1 DEF Opened
    <3> QED BY <3>1, <3>2, <3>3 DEF Takes
  <2>6. ASSUME told = g
        PROVE  EndsLast(Tail(line), g) \/ (~Has(Tail(line), Up(g)) /\ Ended(g)')
    <3>1. CASE EndsLast(line, g) /\ item # Over(g)
      BY <1>3, <3>1, EndsLastTail
    <3>2. CASE EndsLast(line, g) /\ item = Over(g)
      <4>1. TakeDisconnected
        BY <1>4, <1>5, <1>7, <1>8, <1>9, <3>2
      <4>2. Ended(g)'
        BY <1>9, <2>3, <4>1
      <4> QED BY <1>3, <3>2, <4>2, EndsLastTail
    <3>3. CASE ~Has(line, Up(g)) /\ Ended(g)
      <4>1. ~Has(Tail(line), Up(g)) /\ item # Up(g) /\ context = 0 /\ topic = 0
        BY <1>2, <2>2, <3>3 DEF Ended
      <4>2. CASE TakeStale \/ TakeData \/ TakeNotice
        BY <1>9, <2>3, <4>1, <4>2
      <4>3. CASE TakeDisconnected
        BY <1>9, <2>3, <4>1, <4>3
      <4>4. CASE TakeConnected /\ ~TakeStale
        BY <1>7, <1>8, <1>9, <4>1, <4>4
      <4> QED BY <4>1, <4>2, <4>3, <4>4 DEF Takes
    <3> QED BY <2>1, <2>6, <3>1, <3>2, <3>3
  <2>7. Heard'
    <3>1. \A h : h = g =>
            /\ h \in Generations /\ task[h] \in Alive => ~Has(Tail(line), Over(h)) /\ ~EndingOf(h)'
            /\ h \in Generations /\ task[h] \in {"open", "reopening"} =>
                 Has(Tail(line), Up(h)) \/ Opened(h)'
      BY <2>3, <2>4, <2>5
    <3> QED BY <1>0, <1>2, <1>3, <3>1 DEF Heard, EndingOf, Opened
  <2>8. EndHeard'
    <3>1. \A h : h = g /\ told = h => EndsLast(Tail(line), h) \/ (~Has(Tail(line), Up(h)) /\ Ended(h)')
      BY <2>6
    <3> QED BY <1>0, <1>2, <1>3, <3>1 DEF EndHeard, EndsLast, Has, Ended, Over, Up
  <2> QED BY <1>2, <1>5, <1>11, <1>12, <1>13, <1>15, <2>7, <2>8 DEF Announced
<1> QED BY <1>14, <1>15

-----------------------------------------------------------------------------
(* The other steps, and the invariant.                                     *)

\* While the line, the session and the worker stand still, so does what was announced.
LEMMA StandsStill ==
  ASSUME Announced, Line' = Line, listening', missed' = missed, missed' => channel' # <<>>,
         UNCHANGED <<snapshot, owner, session, dispatch>>
  PROVE  Announced'
<1>1. Bounded' /\ Covered(Line, Known)'
  BY DEF Announced, Bounded, Within, Covered, Known, session, Up
<1>2. ~missed => Heard' /\ EndHeard'
  BY DEF Announced, Heard, EndHeard, EndingOf, Opened, Ended, EndsLast, Has, Up, Over,
     session, owner
<1> QED BY <1>1, <1>2 DEF Announced, session

\* An event that is shed was no word about a connection.
LEMMA ShedKept ==
  ASSUME TypeOK, ConnectionInv, Announced, PumpSheds \/ PumpGivesUp, UNCHANGED owner
  PROVE  Announced'
<1>0. PICK g, a, d, b, line, next :
        g = snapshot.generation /\ a = queue /\ d = pump.item /\ b = Sure
        /\ line = Line /\ next = Line'
  OBVIOUS
<1>1. /\ a \in Seq(Messages) /\ d \in Messages /\ b \in Seq(Messages)
      /\ line = (a \o <<d>>) \o b /\ next = a \o b
      /\ d.kind # "connected" /\ d.kind # "disconnected"
  BY <1>0, LineTypes, LineShed
<1>2. UNCHANGED <<snapshot, channel, missed, listening, session, dispatch, task, told>>
  BY DEF PumpSheds, PumpGivesUp, transport, owner
<1>3. /\ <<d>> \in Seq(Messages) /\ a \o <<d>> \in Seq(Messages) /\ a \o b \in Seq(Messages)
      /\ g \in Nat /\ g <= g
  BY <1>0, <1>1, TransportAssumption DEF ConnectionInv, Snapshots, Generations
<1>4. \A m : m # d => (Has(line, m) <=> Has(next, m))
  <2> SUFFICES ASSUME NEW m, m # d  PROVE Has(line, m) <=> Has(next, m)
    OBVIOUS
  <2>1. Has(line, m) <=> Has(a \o <<d>>, m) \/ Has(b, m)
    BY <1>1, <1>3, HasInConcat
  <2>2. Has(a \o <<d>>, m) <=> Has(a, m) \/ Has(<<d>>, m)
    BY <1>1, <1>3, HasInConcat
  <2>3. Has(next, m) <=> Has(a, m) \/ Has(b, m)
    BY <1>1, HasInConcat
  <2> QED BY <2>1, <2>2, <2>3, HasAlone
<1>5. \A h : d # Up(h) /\ d # Over(h)
  BY <1>1 DEF Up, Over, Message
<1>6. Within(line, g) => Within(next, g)
  <2>1. Within((a \o <<d>>) \o b, g) => Within(a \o <<d>>, g) /\ Within(b, g)
    BY <1>1, <1>3, WithinMoves
  <2>2. Within(a \o <<d>>, g) => Within(a, g)
    BY <1>1, <1>3, WithinMoves
  <2>3. Within(a, g) /\ Within(b, g) => Within(a \o b, g)
    BY <1>1, <1>3, WithinMoves
  <2> QED BY <1>1, <2>1, <2>2, <2>3
<1>7. Bounded'
  BY <1>0, <1>2, <1>6 DEF Announced, Bounded, Within, session
<1>8. Covered(Line, Known)'
  <2>1. Covered(next, Known)
    BY <1>0, <1>1, CoveredWithout DEF Announced
  <2> QED BY <1>0, <1>2, <2>1 DEF Covered, Known, session
<1>9. ASSUME ~missed  PROVE Heard' /\ EndHeard'
  <2>1. Heard /\ EndHeard
    BY <1>9 DEF Announced
  <2>2. \A h : /\ Has(line, Up(h)) <=> Has(next, Up(h))
               /\ Has(line, Over(h)) <=> Has(next, Over(h))
    BY <1>4, <1>5
  <2>3. \A h : EndsLast(line, h) => EndsLast(next, h)
    BY <1>1, EndsLastWithout
  <2>4. \A h : (EndingOf(h)' <=> EndingOf(h)) /\ (Opened(h)' <=> Opened(h)) /\ (Ended(h)' <=> Ended(h))
    BY <1>2 DEF EndingOf, Opened, Ended, session
  <2>5. Heard'
    BY <1>0, <1>2, <2>1, <2>2, <2>4 DEF Heard
  <2>6. EndHeard'
    BY <1>0, <1>2, <2>1, <2>2, <2>3, <2>4 DEF EndHeard
  <2> QED BY <2>5, <2>6
<1> QED BY <1>2, <1>7, <1>8, <1>9 DEF Announced, session

\* The worker finishes what it took.
LEMMA FinishesKept ==
  ASSUME TypeOK, ConnectionInv, Announced, UNCHANGED owner,
         FinishData \/ OpensContext \/ PublishesConnected \/ PublishesDisconnected
  PROVE  Announced'
<1>0. PICK g : g = snapshot.generation
  OBVIOUS
<1>1. /\ UNCHANGED <<snapshot, channel, missed, listening, queue, pump, sequence, credited, task, told>>
      /\ dispatch'.step \in {"receiving", "opening"}
      /\ dispatch.step \in {"routing", "closing", "opening", "ending"}
  BY DEF FinishData, OpensContext, PublishesConnected, PublishesDisconnected, Finished, WorkerNext,
     Dispatch, transport, session, owner
<1>2. Line' = Line
  BY <1>1, LineUnmoved
<1>3. Bounded' /\ Covered(Line, Known)'
  BY <1>1, <1>2 DEF Announced, Bounded, Within, Covered, Known, Up
<1>4. ASSUME Opened(g), ~EndingOf(g)  PROVE Opened(g)'
  BY <1>0, <1>4 DEF FinishData, OpensContext, PublishesConnected, PublishesDisconnected, Finished,
     WorkerNext, Dispatch, session, transport, Opened, EndingOf
<1>5. ASSUME Ended(g)  PROVE Ended(g)'
  BY <1>0, <1>5 DEF FinishData, OpensContext, PublishesConnected, PublishesDisconnected, Finished,
     WorkerNext, Dispatch, session, transport, Ended
<1>6. ~EndingOf(g)'
  BY <1>1 DEF EndingOf
<1>7. ASSUME ~missed  PROVE Heard' /\ EndHeard'
  <2>1. Heard /\ EndHeard
    BY <1>7 DEF Announced
  <2>2. ASSUME g \in Generations, task[g] \in {"open", "reopening"}
        PROVE  Has(Line, Up(g)) \/ Opened(g)'
    BY <1>0, <1>4, <2>1, <2>2 DEF Heard, Alive
  <2>3. Heard'
    <3>1. \A h : h = g => /\ ~EndingOf(h)'
                          /\ h \in Generations /\ task[h] \in {"open", "reopening"} =>
                               Has(Line, Up(h)) \/ Opened(h)'
      BY <1>6, <2>2
    <3> QED BY <1>0, <1>1, <1>2, <2>1, <3>1 DEF Heard, EndingOf, Opened, Up, Over
  <2>4. EndHeard'
    <3>1. \A h : h = g /\ told = h => EndsLast(Line, h) \/ (~Has(Line, Up(h)) /\ Ended(h)')
      BY <1>0, <1>5, <2>1 DEF EndHeard
    <3> QED BY <1>0, <1>1, <1>2, <3>1 DEF EndHeard, EndsLast, Has, Ended, Over, Up
  <2> QED BY <2>3, <2>4
<1> QED BY <1>1, <1>3, <1>7 DEF Announced


\* Every other step leaves the line alone, or disturbs the pipeline.
LEMMA AnnouncedKept ==
  ASSUME IngressInv, ConnectionInv, CallsInOrder, ladder = "running" => ~admission,
         Working, pump.step # "off", Announced, IngressStep, UNCHANGED owner, Working'
  PROVE  Announced'
<1>1. /\ TypeOK /\ ladder = "running" /\ ~admission /\ ~emergency /\ pump.step # "ended"
      /\ dispatch.step \notin {"dead", "ended", "off"} /\ listening
      /\ missed => channel # <<>>
  BY DEF IngressInv, TaskOrder, LadderOrder, Working, Announced
<1>2. CASE Starts
  <2>1. starter # "begun"
    BY DEF IngressInv, TaskOrder
  <2>2. UNCHANGED <<transport, flow, session>>
    BY <1>2, <2>1, StartMoves
  <2>3. UNCHANGED <<snapshot, channel, missed, listening, pump, queue, dispatch>>
    BY <2>2 DEF transport, flow
  <2>4. Line' = Line
    BY <2>3, LineUnmoved
  <2> QED BY <1>1, <2>2, <2>3, <2>4, StandsStill
<1>3. CASE PumpReceive \/ PumpAdmits \/ PumpWaits
  <2>1. Line' = Line
    BY <1>1, <1>3, LineReceived, LineAdmitted, LineWaits
  <2>2. /\ listening' /\ missed' = missed /\ (missed' => channel' # <<>>)
        /\ UNCHANGED <<snapshot, session, dispatch>>
    <3>1. CASE PumpReceive
      <4>1. ~missed /\ missed' = missed /\ listening' = listening
            /\ UNCHANGED <<snapshot, session, dispatch>>
        BY <3>1 DEF PumpReceive, Receive
      <4> QED BY <1>1, <4>1
    <3>2. CASE PumpAdmits \/ PumpWaits
      <4>1. UNCHANGED <<snapshot, session, dispatch, listening, missed, channel>>
        BY <3>2 DEF PumpAdmits, PumpWaits, transport
      <4> QED BY <1>1, <4>1
    <3> QED BY <1>3, <3>1, <3>2
  <2> QED BY <2>1, <2>2, StandsStill
<1>4. CASE PumpSheds \/ PumpGivesUp
  BY <1>1, <1>4, ShedKept
<1>5. CASE PumpLagged
  <2>1. stats.lagged \in Nat /\ stats \in Stats
    BY <1>1 DEF TypeOK, IngressTypeOK, Stats
  <2>2. stats'.lagged = stats.lagged + 1
    BY <1>5, <2>1 DEF PumpLagged, Stats
  <2> QED BY <2>1, <2>2 DEF Working
<1>6. CASE PumpRefuses \/ PumpFindsNoWorker \/ PumpEnds
  BY <1>1, <1>6 DEF PumpRefuses, PumpFindsNoWorker, PumpEnds, WorkerGone
<1>7. CASE TakeStale \/ TakeData \/ TakeNotice \/ TakeConnected \/ TakeDisconnected
  BY <1>7, TakesKept DEF Takes
<1>8. CASE FinishData \/ OpensContext \/ PublishesConnected \/ PublishesDisconnected
  BY <1>1, <1>8, FinishesKept
<1>9. CASE DispatchEnds \/ DispatchCancelled
  BY <1>1, <1>9 DEF DispatchEnds, DispatchCancelled, SenderGone
<1>10. CASE PersistStep
  <2>1. /\ UNCHANGED <<snapshot, session, dispatch, queue, pump, channel, missed, listening>>
    BY <1>10 DEF PersistStep, PersistTakes, PersistFinishes, PersistEnds, PersistCancelled, transport
  <2>2. Line' = Line
    BY <2>1, LineUnmoved
  <2> QED BY <1>1, <2>1, <2>2, StandsStill
<1>11. CASE WorkerPanics
  BY <1>11 DEF WorkerPanics, CutOff, Dispatch, Working
<1>12. CASE Ladder
  BY <1>1, <1>12 DEF Ladder, CloseAdmission, PumpJoined, PumpDeadline, WorkerJoined, DrainDeadline,
     StopDeadline, EndSession, Working
<1> QED BY <1>2, <1>3, <1>4, <1>5, <1>6, <1>7, <1>8, <1>9, <1>10, <1>11, <1>12
        DEF IngressStep, PumpStep, DispatchStep

\* The pump starts while nothing is connected, with nothing taken or credited.
LEMMA PumpStarts ==
  ASSUME IngressInv, ConnectionInv, CallsInOrder, BeforePump, SpawnTasks, UNCHANGED owner,
         snapshot.state = "idle"
  PROVE  Announced'
<1>0. PICK g : g = snapshot.generation
  OBVIOUS
<1>1. /\ pump' = Pump("receiving", NoMessage) /\ dispatch' = Dispatch("receiving", NoMessage)
      /\ listening' /\ queue = <<>>
      /\ UNCHANGED <<snapshot, channel, missed, queue, sequence, context, topic, credited, task, told>>
  BY DEF SpawnTasks, Subscribe, IngressInv, TaskOrder, Emptied, session, owner
<1>2. Line' = <<>>
  BY <1>1 DEF BeforePump, Line, Held, Holding, Sure, Pump
<1>3. \A m : ~Has(<<>>, m)
  BY HasAlone
<1>4. g \in Nat
  BY <1>0, TransportAssumption DEF ConnectionInv, Snapshots, Generations
<1>5. Within(<<>>, g) /\ Covered(<<>>, Known')
  BY DEF Within, Covered
<1>6. Bounded' /\ Covered(Line, Known)'
  BY <1>0, <1>1, <1>2, <1>4, <1>5 DEF Bounded, BeforePump, Dispatch, Covered, Within
<1>7. Heard'
  <2>1. \A h \in Generations : task[h] \notin Alive
    BY DEF ConnectionInv, OneConnection, SnapshotHonest, Generations
  <2> QED BY <1>1, <2>1 DEF Heard, Alive
<1>8. \A h : Ended(h)'
  BY <1>1 DEF Ended, BeforePump, Dispatch
<1>9. EndHeard'
  BY <1>1, <1>2, <1>3, <1>8 DEF EndHeard
<1> QED BY <1>1, <1>6, <1>7, <1>9 DEF Announced, BeforePump

\* Without the pump nobody listens.
LEMMA BeforePumpKept ==
  ASSUME ConnectionInv, CallsInOrder, IngressInv, ladder = "running", pump.step = "off", BeforePump,
         (Connection /\ UNCHANGED ingressVars) \/ IngressStep,
         ladder' = "running", pump'.step = "off"
  PROVE  BeforePump'
<1>1. CASE Connection /\ UNCHANGED ingressVars
  <2>1. UNCHANGED <<channel, missed, listening>>
    <3>1. CASE Begins
      BY <3>1 DEF Begins
    <3>2. ASSUME NEW ms \in Seq(Messages), Goes(ms)
          PROVE  UNCHANGED <<channel, missed, listening>>
      BY <3>2 DEF Goes, Sends, Send, BeforePump
    <3> QED BY <1>1, <3>1, <3>2, ConnectionMoves
  <2>2. UNCHANGED session
    BY <1>1 DEF ingressVars
  <2> QED BY <2>1, <2>2 DEF BeforePump, session
<1>2. CASE IngressStep
  <2>1. dispatch.step = "off" /\ persist = "off"
    BY DEF IngressInv, TaskOrder
  <2>2. CASE Starts
    <3>1. UNCHANGED <<transport, session>>
      BY <2>2, StartMoves DEF Pump
    <3> QED BY <3>1 DEF BeforePump, transport, session
  <2>3. ~PumpStep
    BY DEF PumpStep, PumpReceive, PumpLagged, PumpRefuses, PumpAdmits, PumpWaits, PumpSheds,
       PumpGivesUp, PumpFindsNoWorker, PumpEnds, Holding
  <2>4. ~DispatchStep
    BY <2>1 DEF DispatchStep, TakeStale, TakeData, FinishData, TakeNotice, TakeConnected,
       OpensContext, PublishesConnected, TakeDisconnected, PublishesDisconnected, DispatchEnds,
       DispatchCancelled, Ready
  <2>5. ~PersistStep /\ ~WorkerPanics
    BY <2>1 DEF PersistStep, PersistTakes, PersistFinishes, PersistEnds, PersistCancelled,
       WorkerPanics, Handling
  <2>6. ~Ladder
    BY DEF Ladder, CloseAdmission, PumpJoined, PumpDeadline, WorkerJoined, DrainDeadline,
       StopDeadline, EndSession
  <2> QED BY <1>2, <2>2, <2>3, <2>4, <2>5, <2>6 DEF IngressStep
<1> QED BY <1>1, <1>2

-----------------------------------------------------------------------------
\* Nothing is connected and no pump runs.
LEMMA InitPipelineInv == PipelineInit => IngressInv /\ PipelineInv
<1> SUFFICES ASSUME PipelineInit PROVE IngressInv /\ PipelineInv
  OBVIOUS
<1>1. IngressInv
  BY InitIngressInv DEF PipelineInit, Init
<1>2. /\ told = 0 /\ snapshot.generation = 0 /\ snapshot.state = "idle"
      /\ \A c \in Callers : call[c].step = "none"
  BY DEF PipelineInit, TransportInit, ConnectionInit, NoCall
<1>3. CallsInOrder
  BY <1>2 DEF CallsInOrder
<1>4. ~admission /\ pump.step = "off"
  BY DEF PipelineInit, IngressInit, Pump
<1>5. BeforePump
  BY DEF BeforePump, PipelineInit, TransportInit, ConnectionInit, IngressInit
<1> QED BY <1>1, <1>3, <1>4, <1>5 DEF PipelineInv

\* While the ladder is not climbed: what no step of the ingress undoes.
LEMMA IngressGoesOn ==
  ASSUME TypeOK, IngressStep, ladder' = "running"
  PROVE  /\ ladder = "running" /\ admission' = admission
         /\ pump'.step = "off" => pump.step = "off"
         /\ pump.step = "off" => SpawnTasks \/ pump'.step = "off"
         /\ stats'.lagged = 0 => stats.lagged = 0
         /\ dispatch.step = "dead" => SpawnTasks \/ dispatch'.step = "dead"
<1>1. stats \in Stats /\ stats.lagged \in Nat
  BY DEF TypeOK, IngressTypeOK, Stats
<1>2. CASE Starts
  <2>1. UNCHANGED <<admission, ladder, stats>>
    BY <1>2, StartMoves DEF counters
  <2>2. CASE SpawnTasks
    BY <2>1, <2>2 DEF SpawnTasks, Pump
  <2>3. CASE StartPump \/ KeepPump \/ KeepWorker
    BY <2>1, <2>3 DEF StartPump, KeepPump, KeepWorker, flow
  <2> QED BY <1>2, <2>2, <2>3 DEF Starts
<1>3. CASE PumpStep
  <2>1. /\ UNCHANGED <<control, dispatch>> /\ pump.step # "off" /\ pump'.step # "off"
    BY <1>3 DEF PumpStep, PumpReceive, PumpLagged, PumpRefuses, PumpAdmits, PumpWaits, PumpSheds,
       PumpGivesUp, PumpFindsNoWorker, PumpEnds, PumpNext, Pump, Holding, flow
  <2>2. stats' = stats \/ stats'.lagged = stats.lagged \/ stats'.lagged = stats.lagged + 1
    BY <1>1, <1>3 DEF PumpStep, PumpReceive, PumpLagged, PumpRefuses, PumpAdmits, PumpWaits,
       PumpSheds, PumpGivesUp, PumpFindsNoWorker, PumpEnds, Stats, counters
  <2> QED BY <1>1, <2>1, <2>2 DEF control
<1>4. CASE DispatchStep
  <2>1. /\ UNCHANGED <<admission, ladder, pump>> /\ dispatch.step # "dead"
    BY <1>4 DEF DispatchStep, TakeStale, TakeData, FinishData, TakeNotice, TakeConnected,
       OpensContext, PublishesConnected, TakeDisconnected, PublishesDisconnected, DispatchEnds,
       DispatchCancelled, Ready, control
  <2>2. stats' = stats \/ stats'.lagged = stats.lagged
    BY <1>1, <1>4 DEF DispatchStep, TakeStale, TakeData, FinishData, TakeNotice, TakeConnected,
       OpensContext, PublishesConnected, TakeDisconnected, PublishesDisconnected, DispatchEnds,
       DispatchCancelled, Taken, Processed, Finished, Stats, counters
  <2> QED BY <2>1, <2>2
<1>5. CASE PersistStep
  BY <1>5 DEF PersistStep, PersistTakes, PersistFinishes, PersistEnds, PersistCancelled, control,
     counters
<1>6. CASE WorkerPanics
  BY <1>6 DEF WorkerPanics, CutOff, Dispatch, control
<1>7. CASE Ladder
  BY <1>7 DEF Ladder, CloseAdmission, PumpJoined, PumpDeadline, WorkerJoined, DrainDeadline,
     StopDeadline, EndSession
<1> QED BY <1>2, <1>3, <1>4, <1>5, <1>6, <1>7 DEF IngressStep

\* The invariant is inductive, beside those of the connection and the ingress.
LEMMA PipelineKept ==
  ASSUME ConnectionInv, ConnectionInv', IngressInv, PipelineInv, PipelineNext
  PROVE  IngressInv' /\ PipelineInv'
<1>1. CASE Connection /\ UNCHANGED <<ingressVars, early>>
  <2>1. UNCHANGED ingressVars
    BY <1>1
  <2>2. TransportTypeOK /\ TypeOK
    BY DEF IngressInv, TypeOK
  <2>3. CallsInOrder /\ CallsInOrder'
    BY <1>1, CallsKept DEF PipelineInv
  <2>4. IngressInv'
    BY <1>1, <2>1, <2>2, <2>3, ConnectionTyped, IngressUnmoved
  <2>5. UNCHANGED <<ladder, admission, pump, dispatch, stats>>
    BY <2>1 DEF ingressVars, control, flow, counters
  <2>6. (ladder = "running" => ~admission)'
    BY <2>5 DEF PipelineInv
  <2>7. (ladder = "running" /\ pump.step = "off" => BeforePump)'
    BY <1>1, <2>1, <2>3, <2>5, BeforePumpKept DEF PipelineInv
  <2>8. (Working /\ pump.step # "off" /\ ~early => Announced)'
    <3>1. ASSUME Working', pump'.step # "off", ~early'
          PROVE  Working /\ pump.step # "off" /\ Announced
      BY <1>1, <2>5, <3>1 DEF Working, PipelineInv
    <3>2. ASSUME Announced  PROVE Announced'
      <4>1. CASE Begins
        BY <2>1, <2>2, <2>3, <3>2, <4>1, BeginsKept
      <4>2. ASSUME NEW ms \in Seq(Messages), Goes(ms)  PROVE Announced'
        BY <2>1, <2>2, <2>3, <3>2, <4>2, GoesKept
      <4> QED BY <1>1, <2>3, <4>1, <4>2, ConnectionMoves
    <3> QED BY <3>1, <3>2
  <2> QED BY <2>3, <2>4, <2>6, <2>7, <2>8 DEF PipelineInv
<1>2. CASE /\ IngressStep /\ UNCHANGED owner
           /\ early' = (early \/ (SpawnTasks /\ snapshot.state # "idle"))
  <2>1. IngressInv'
    BY <1>2, OrderKept, StoppedKept, EmptiedKept, ItemsKept, EffectsKept, ReceiptKept, FenceKept,
       TypeKept DEF IngressInv, Next
  <2>2. CallsInOrder /\ CallsInOrder'
    BY <1>2, IngressLeavesSnapshot DEF PipelineInv, CallsInOrder, owner
  <2>3. TypeOK
    BY DEF IngressInv
  <2>4. (ladder = "running" => ~admission)'
    BY <1>2, <2>3, IngressGoesOn DEF PipelineInv
  <2>5. (ladder = "running" /\ pump.step = "off" => BeforePump)'
    BY <1>2, <2>2, <2>3, IngressGoesOn, BeforePumpKept DEF PipelineInv
  <2>6. (Working /\ pump.step # "off" /\ ~early => Announced)'
    <3> SUFFICES ASSUME Working', pump'.step # "off", ~early'  PROVE Announced'
      OBVIOUS
    <3>0. ~early /\ (SpawnTasks => snapshot.state = "idle")
      BY <1>2
    <3>1. ladder' = "running" /\ ladder = "running"
      BY <1>2, <2>3, IngressGoesOn DEF Working
    <3>2. CASE pump.step = "off"
      <4>1. SpawnTasks
        BY <1>2, <2>3, <3>1, <3>2, IngressGoesOn
      <4> QED BY <1>2, <2>2, <3>0, <3>1, <3>2, <4>1, PumpStarts DEF PipelineInv
    <3>3. CASE pump.step # "off"
      <4>1. ~SpawnTasks
        BY <3>3 DEF SpawnTasks, IngressInv, TaskOrder
      <4>2. Working
        BY <1>2, <2>3, <3>1, <4>1, IngressGoesOn DEF Working
      <4> QED BY <1>2, <2>2, <3>0, <3>3, <4>2, AnnouncedKept DEF PipelineInv
    <3> QED BY <3>2, <3>3
  <2> QED BY <2>1, <2>2, <2>4, <2>5, <2>6 DEF PipelineInv
<1> QED BY <1>1, <1>2 DEF PipelineNext, Connection

\* The three invariants hold together.
THEOREM PipelineInvariant == PipelineSpec => [](ConnectionInv /\ IngressInv /\ PipelineInv)
<1> DEFINE I == ConnectionInv /\ IngressInv /\ PipelineInv
<1>1. PipelineInit => I
  BY InitConnectionInv, InitPipelineInv
<1>2. I /\ ConnectionInv' /\ [PipelineNext]_everything => I'
  <2>1. ASSUME I, ConnectionInv', UNCHANGED everything  PROVE I'
    <3>1. /\ UNCHANGED <<ingressVars, early>>
          /\ UNCHANGED <<snapshot, owner, channel, missed, listening, sent>>
      BY <2>1 DEF everything, transport
    <3>2. TransportTypeOK'
      BY <2>1, <3>1 DEF IngressInv, TypeOK, TransportTypeOK
    <3>3. IngressInv'
      BY <2>1, <3>1, <3>2, IngressUnmoved
    <3>4. UNCHANGED <<ladder, admission, pump, queue, dispatch, stats, session>>
      BY <3>1 DEF ingressVars, control, flow, counters
    <3>5. CallsInOrder'
      BY <2>1, <3>1 DEF PipelineInv, CallsInOrder, owner
    <3>6. BeforePump => BeforePump'
      BY <3>1, <3>4 DEF BeforePump, session
    <3>7. Announced => Announced'
      <4>1. Line' = Line
        BY <3>1, <3>4, LineUnmoved
      <4>2. Announced => listening' /\ missed' = missed /\ (missed' => channel' # <<>>)
        BY <3>1 DEF Announced
      <4> QED BY <3>1, <3>4, <4>1, <4>2, StandsStill
    <3> QED BY <2>1, <3>1, <3>3, <3>4, <3>5, <3>6, <3>7 DEF PipelineInv, Working
  <2> QED BY <2>1, PipelineKept
<1> QED BY <1>1, <1>2, ConnectionInvariant, PTL DEF PipelineSpec

\* A settled pipeline has nothing in the line, and nothing missed.
LEMMA SettledHasNothing ==
  ASSUME Settled, ~missed \/ channel # <<>>
  PROVE  ~missed /\ Line = <<>>
BY DEF Settled, Line, Held, Holding, Sure

\* "The original connection context is captured ... so a room switch cannot
\* reattribute": events are credited to their own connection's creator only.
THEOREM CreditsGoToOwn == PipelineSpec => []CreditedToOwn
<1>1. PipelineInv => CreditedToOwn
  BY DEF PipelineInv, CreditedToOwn, Undisturbed, Working, Announced
<1> QED BY <1>1, PipelineInvariant, PTL

\* Once all is handled, the context and the topics agree with the transport.
THEOREM SettledIsTrue == PipelineSpec => []SettledAgrees
<1>1. ConnectionInv /\ PipelineInv => SettledAgrees
  <2> SUFFICES ASSUME ConnectionInv, PipelineInv, Undisturbed, Settled
               PROVE  /\ snapshot.state = "connected" =>
                           context = snapshot.generation /\ topic = context
                      /\ told = snapshot.generation => context = 0 /\ topic = 0
    BY DEF SettledAgrees
  <2>1. Announced /\ ~missed /\ Line = <<>>
    BY SettledHasNothing DEF PipelineInv, Undisturbed, Working, Announced
  <2>2. Heard /\ EndHeard /\ dispatch.step = "receiving" /\ \A m : ~Has(Line, m)
    BY <2>1, HasAlone DEF Announced, Settled
  <2>3. ASSUME snapshot.state = "connected"
        PROVE  context = snapshot.generation /\ topic = context
    <3>1. /\ snapshot.generation \in Generations /\ task[snapshot.generation] \in Alive
      BY <2>3 DEF PipelineInv, CallsInOrder, ConnectionInv, ConnectionTypeOK, SnapshotHonest
    <3>2. task[snapshot.generation] = "open"
      BY <3>1 DEF Settled, Alive
    <3> QED BY <2>2, <3>1, <3>2 DEF Heard, Opened
  <2>4. ASSUME told = snapshot.generation
        PROVE  context = 0 /\ topic = 0
    BY <2>2, <2>4 DEF EndHeard, EndsLast, Has, Ended
  <2> QED BY <2>3, <2>4
<1> QED BY <1>1, PipelineInvariant, PTL

\* What is proved of the ingress behind any transport holds behind the real one.
THEOREM IngressBehindConnection ==
  PipelineSpec => [](/\ EveryItemAccounted /\ EveryEffectAccounted
                     /\ SafeStopDrained /\ CleanStopLostNothing
                     /\ StoppedIsDead /\ NeverToANewerCreator)
<1>1. IngressInv => /\ EveryItemAccounted /\ EveryEffectAccounted
                    /\ StoppedIsDead /\ NeverToANewerCreator
  BY DEF IngressInv
<1> QED BY <1>1, StopDrained, StopLostNothing, PipelineInvariant, PTL
=============================================================================
