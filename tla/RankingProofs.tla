---------------------------- MODULE RankingProofs ----------------------------
(***************************************************************************)
(* Proofs that the ranking in memory and the stored result are those of    *)
(* the ledger, for competitions whose id is created once.  The ledger is a *)
(* sum over votes and likes, the ranking is moved by one difference at a   *)
(* time: the first part shows that both are the same arithmetic.           *)
(***************************************************************************)
EXTENDS CompetitionProofs

-----------------------------------------------------------------------------
(* The sums of the ledger after one transaction.                           *)

\* The pairs that VoteTotal counts, of assignments a.
Cast(a, o) ==
  {p \in Voters \X (1 .. VoteLimit) :
     a[p[1]] # NoAssignment /\ a[p[1]].option = o /\ p[2] <= a[p[1]].votes}

VotesOn(row, o) == IF row # NoAssignment /\ row.option = o THEN row.votes ELSE 0

Assignments == [Voters -> Assignment \union {NoAssignment}]

Own(a, s, o)    == {p \in Cast(a, o) : p[1] = s}
Others(a, s, o) == {p \in Cast(a, o) : p[1] # s}

\* One voter's pairs are as many as its votes.
LEMMA OwnPairs ==
  ASSUME NEW a \in Assignments, NEW s \in Voters, NEW o \in Options
  PROVE  /\ IsFiniteSet(Own(a, s, o))
         /\ Cardinality(Own(a, s, o)) = VotesOn(a[s], o)
         /\ VotesOn(a[s], o) \in Nat
<1> DEFINE n == VotesOn(a[s], o)
<1>1. n \in 0 .. VoteLimit
  BY ConstantsAssumption DEF Assignments, Assignment, VotesOn
<1>2. Own(a, s, o) = {s} \X (1 .. n)
  <2>1. ASSUME NEW i \in 1 .. VoteLimit
        PROVE  <<s, i>> \in Cast(a, o) <=> i <= n
    BY ConstantsAssumption DEF Cast, VotesOn, Assignments, Assignment
  <2>2. ASSUME NEW p, p \in Cast(a, o), p[1] = s PROVE p \in {s} \X (1 .. n)
    <3>1. p = <<s, p[2]>> /\ p[2] \in 1 .. VoteLimit
      BY <2>2 DEF Cast
    <3>2. p[2] <= n
      BY <2>1, <2>2, <3>1
    <3> QED BY <1>1, <3>1, <3>2, ConstantsAssumption
  <2>3. ASSUME NEW p \in {s} \X (1 .. n) PROVE p \in Cast(a, o) /\ p[1] = s
    <3>1. p = <<s, p[2]>> /\ p[2] \in 1 .. n
      OBVIOUS
    <3>2. p[2] \in 1 .. VoteLimit /\ p[2] <= n
      BY <1>1, <3>1, ConstantsAssumption
    <3> QED BY <2>1, <3>1, <3>2
  <2> QED BY <2>2, <2>3 DEF Own
<1>3. n \in Nat
  BY <1>1, ConstantsAssumption
<1> HIDE DEF n
<1>4. IsFiniteSet(1 .. n) /\ Cardinality(1 .. n) = n
  BY <1>3, FS_Interval
<1>5. IsFiniteSet({s}) /\ Cardinality({s}) = 1
  BY FS_Singleton
<1>6. IsFiniteSet({s} \X (1 .. n)) /\ Cardinality({s} \X (1 .. n)) = 1 * n
  <2> DEFINE one == {s}
             votes == 1 .. n
  <2>1. /\ IsFiniteSet(one) /\ IsFiniteSet(votes)
        /\ Cardinality(one) = 1 /\ Cardinality(votes) = n
    BY <1>4, <1>5
  <2> HIDE DEF one, votes
  <2>2. IsFiniteSet(one \X votes) /\ Cardinality(one \X votes) = Cardinality(one) * Cardinality(votes)
    BY <2>1, FS_Product
  <2> QED BY <2>1, <2>2 DEF one, votes
<1>7. IsFiniteSet(Own(a, s, o)) /\ Cardinality(Own(a, s, o)) = n
  BY <1>2, <1>3, <1>6
<1> QED BY <1>3, <1>7 DEF n

\* The sum is that of one voter and that of all others.
LEMMA PairsSplit ==
  ASSUME NEW a \in Assignments, NEW s \in Voters, NEW o \in Options
  PROVE  /\ Cardinality(Cast(a, o)) = Cardinality(Others(a, s, o)) + VotesOn(a[s], o)
         /\ Cardinality(Others(a, s, o)) \in Nat
<1>1. IsFiniteSet(1 .. VoteLimit)
  BY FS_Interval, ConstantsAssumption
<1>2. IsFiniteSet(Voters \X (1 .. VoteLimit))
  BY <1>1, FS_Product, ConstantsAssumption
<1>3. Others(a, s, o) \subseteq Voters \X (1 .. VoteLimit)
  BY DEF Others, Cast
<1>4. IsFiniteSet(Others(a, s, o))
  BY <1>2, <1>3, FS_Subset
<1>5. Cardinality(Others(a, s, o)) \in Nat
  BY <1>4, FS_CardinalityType
<1>6. /\ IsFiniteSet(Own(a, s, o)) /\ VotesOn(a[s], o) \in Nat
      /\ Cardinality(Own(a, s, o)) = VotesOn(a[s], o)
  BY OwnPairs
<1>7. Cardinality(Others(a, s, o) \union Own(a, s, o))
        = Cardinality(Others(a, s, o)) + Cardinality(Own(a, s, o))
            - Cardinality(Others(a, s, o) \intersect Own(a, s, o))
  BY <1>4, <1>6, FS_Union
<1>8. Cast(a, o) = Others(a, s, o) \union Own(a, s, o)
  BY DEF Others, Own
<1>9. Others(a, s, o) \intersect Own(a, s, o) = {}
  BY DEF Others, Own
<1>10. Cardinality(Others(a, s, o) \intersect Own(a, s, o)) = 0
  BY <1>9, FS_EmptySet
<1> QED BY <1>5, <1>6, <1>7, <1>8, <1>10

\* A new row of one voter takes its old votes out of the sum and puts the new
\* ones in.
LEMMA MovedVotes ==
  ASSUME NEW a \in Assignments, NEW b \in Assignments, NEW s \in Voters, NEW o \in Options,
         \A v \in Voters \ {s} : b[v] = a[v]
  PROVE  /\ Cardinality(Cast(b, o)) = Cardinality(Cast(a, o)) - VotesOn(a[s], o) + VotesOn(b[s], o)
         /\ Cardinality(Cast(a, o)) \in Int
         /\ VotesOn(a[s], o) \in Nat /\ VotesOn(b[s], o) \in Nat
<1>1. Others(b, s, o) = Others(a, s, o)
  BY DEF Others, Cast
<1>2. VotesOn(a[s], o) \in Nat /\ VotesOn(b[s], o) \in Nat
  BY OwnPairs
<1>3. /\ Cardinality(Cast(a, o)) = Cardinality(Others(a, s, o)) + VotesOn(a[s], o)
      /\ Cardinality(Cast(b, o)) = Cardinality(Others(a, s, o)) + VotesOn(b[s], o)
      /\ Cardinality(Others(a, s, o)) \in Nat
  BY <1>1, PairsSplit
<1> QED BY <1>2, <1>3

\* The likes that ScoredTotal counts.
Likes(o) == {e \in Events : Kind[e] = "like" /\ receipt[e] = o}

\* One entry of the ledger.
LEMMA LedgerAt ==
  ASSUME NEW o \in Options
  PROVE  /\ Ledger[o] = Cardinality(Cast(assigned, o)) + Cardinality(Likes(o))
         /\ IsFiniteSet(Likes(o)) /\ Cardinality(Likes(o)) \in Nat
<1>1. Likes(o) \subseteq Events
  BY DEF Likes
<1>2. IsFiniteSet(Likes(o))
  BY <1>1, FS_Subset, ConstantsAssumption
<1>3. Cardinality(Likes(o)) \in Nat
  BY <1>2, FS_CardinalityType
<1>4. VoteTotal(o) = Cardinality(Cast(assigned, o)) /\ ScoredTotal(o) = Cardinality(Likes(o))
  BY DEF VoteTotal, ScoredTotal, Cast, Likes
<1> QED BY <1>2, <1>3, <1>4 DEF Ledger

\* Nobody has voted: nothing is counted.
LEMMA EmptyLedger ==
  ASSUME \A v \in Voters : assigned[v] = NoAssignment,
         \A e \in Events : receipt[e] = NoReceipt
  PROVE  Ledger = NoScores
<1>1. ASSUME NEW o \in Options PROVE Ledger[o] = 0
  <2>1. Cast(assigned, o) = {}
    BY DEF Cast
  <2>2. Likes(o) = {}
    BY ReceiptAssumption DEF Likes
  <2>3. Cardinality(Cast(assigned, o)) = 0 /\ Cardinality(Likes(o)) = 0
    BY <2>1, <2>2, FS_EmptySet
  <2> QED BY <2>3, LedgerAt
<1> QED BY <1>1 DEF Ledger, NoScores

\* The ledger and what selection reads of it are in the rows alone.
LEMMA SameLedger ==
  ASSUME UNCHANGED <<assigned, receipt>>
  PROVE  Ledger' = Ledger /\ Participants' = Participants
<1>1. Participants' = Participants
  BY DEF Participants
<1> QED BY <1>1 DEF Ledger, VoteTotal, ScoredTotal

\* The transaction of a counted vote moves the ledger as the ranking will be
\* moved by its projection.
LEMMA VoteMovesLedger ==
  ASSUME Typed, NEW h \in Hosts, RouteVote(h)
  PROVE  /\ work'[h].step = "reassign"
         /\ Ledger' = Reassigned(Ledger, work'[h].from, work'[h].to)
<1> DEFINE s == Sender(h)
           from == assigned[s]
           to == NextAssignment(from, Named(h))
<1>1. held[h].event \in Events
  BY DEF RouteVote, Admitting, Routing, Typed, TypeOK
<1>2. s \in Voters /\ Named(h) \in Options /\ Kind[held[h].event] = "vote"
  BY <1>1, ConstantsAssumption DEF Sender, Named, RouteVote, IsVote
<1>3. assigned \in Assignments /\ from \in Assignment \union {NoAssignment}
  BY <1>2 DEF Typed, TypeOK, Assignments
<1>4. to \in Assignment /\ to # NoAssignment
  BY <1>2, <1>3, NextAssignmentType, AssignmentAssumption
<1>5. /\ assigned' = [assigned EXCEPT ![s] = to]
      /\ work' = [work EXCEPT ![h] = [step |-> "reassign", from |-> from, to |-> to]]
      /\ receipt' = [receipt EXCEPT ![held[h].event] = Named(h)]
  BY DEF RouteVote
<1> HIDE DEF s, from, to
<1>6. work'[h] = [step |-> "reassign", from |-> from, to |-> to]
  BY <1>5 DEF Typed, TypeOK
<1>7. /\ assigned' \in Assignments /\ assigned'[s] = to
      /\ \A v \in Voters \ {s} : assigned'[v] = assigned[v]
  BY <1>2, <1>3, <1>4, <1>5 DEF Assignments
<1>8. ASSUME NEW o \in Options
      PROVE  Ledger'[o] = Reassigned(Ledger, from, to)[o]
  <2>1. Likes(o)' = Likes(o)
    BY <1>1, <1>2, <1>5 DEF Likes, Typed, TypeOK
  <2>2. /\ Ledger[o] = Cardinality(Cast(assigned, o)) + Cardinality(Likes(o))
        /\ Cardinality(Likes(o)) \in Nat
    BY LedgerAt
  <2>3. Ledger'[o] = Cardinality(Cast(assigned', o)) + Cardinality(Likes(o))
    <3>1. VoteTotal(o)' = Cardinality(Cast(assigned', o))
      BY DEF VoteTotal, Cast
    <3>2. ScoredTotal(o)' = Cardinality(Likes(o))
      BY <2>1 DEF ScoredTotal, Likes
    <3> QED BY <3>1, <3>2 DEF Ledger
  <2>4. /\ Cardinality(Cast(assigned', o))
             = Cardinality(Cast(assigned, o)) - VotesOn(from, o) + VotesOn(to, o)
        /\ Cardinality(Cast(assigned, o)) \in Int
        /\ VotesOn(from, o) \in Nat /\ VotesOn(to, o) \in Nat
    BY <1>2, <1>3, <1>7, MovedVotes DEF from
  <2>5. Reassigned(Ledger, from, to)[o] = Ledger[o] - VotesOn(from, o) + VotesOn(to, o)
    BY <1>4 DEF Reassigned, VotesOn
  <2> QED BY <2>2, <2>3, <2>4, <2>5
<1>9. Ledger' = Reassigned(Ledger, from, to)
  BY <1>8 DEF Ledger, Reassigned
<1> QED BY <1>6, <1>9

\* The transaction of a counted like adds one to the option it names.
LEMMA LikeMovesLedger ==
  ASSUME Typed, NEW h \in Hosts, RouteLike(h)
  PROVE  /\ work'[h].step = "credit"
         /\ Ledger' = [Ledger EXCEPT ![work'[h].option] = @ + 1]
         /\ UNCHANGED assigned
<1> DEFINE e == held[h].event
           o == assigned[Sender(h)].option
<1>1. e \in Events /\ Kind[e] = "like" /\ receipt[e] = NoReceipt
  <2>1. held[h] # NoEvent /\ Kind[e] # "vote" /\ receipt[e] = NoReceipt
    BY DEF RouteLike, Admitting, Routing, IsVote, NewReceipt
  <2>2. e \in Events
    BY <2>1 DEF Typed, TypeOK
  <2> QED BY <2>1, <2>2, ConstantsAssumption
<1>2. Sender(h) \in Voters /\ assigned[Sender(h)] # NoAssignment
  BY <1>1, ConstantsAssumption DEF RouteLike, Refused, Sender
<1>3. o \in Options
  BY <1>2 DEF Typed, TypeOK, Assignment
<1>4. /\ receipt' = [receipt EXCEPT ![e] = o] /\ UNCHANGED assigned
      /\ work' = [work EXCEPT ![h] = [step |-> "credit", option |-> o]]
  BY DEF RouteLike
<1> HIDE DEF e, o
<1>5. work'[h] = [step |-> "credit", option |-> o]
  BY <1>4 DEF Typed, TypeOK
<1>6. ASSUME NEW p \in Options
      PROVE  Ledger'[p] = IF p = o THEN Ledger[p] + 1 ELSE Ledger[p]
  <2>1. Likes(p)' = IF p = o THEN Likes(p) \union {e} ELSE Likes(p)
    BY <1>1, <1>3, <1>4, ReceiptAssumption DEF Likes, Typed, TypeOK
  <2>2. e \notin Likes(p)
    BY <1>1, ReceiptAssumption DEF Likes
  <2>3. /\ Ledger[p] = Cardinality(Cast(assigned, p)) + Cardinality(Likes(p))
        /\ IsFiniteSet(Likes(p)) /\ Cardinality(Likes(p)) \in Nat
    BY LedgerAt
  <2>4. Cardinality(Likes(p) \union {e}) = Cardinality(Likes(p)) + 1
    BY <2>2, <2>3, FS_AddElement
  <2>5. Ledger'[p] = Cardinality(Cast(assigned, p)) + Cardinality(Likes(p)')
    <3>1. VoteTotal(p)' = Cardinality(Cast(assigned, p))
      BY <1>4 DEF VoteTotal, Cast
    <3>2. ScoredTotal(p)' = Cardinality(Likes(p)')
      BY DEF ScoredTotal, Likes
    <3> QED BY <3>1, <3>2 DEF Ledger
  <2>6. Cardinality(Cast(assigned, p)) \in Int
    <3>1. assigned \in Assignments
      BY DEF Typed, TypeOK, Assignments
    <3> QED BY <1>2, <3>1, MovedVotes
  <2> QED BY <2>1, <2>3, <2>4, <2>5, <2>6
<1>7. Ledger' = [Ledger EXCEPT ![o] = @ + 1]
  BY <1>3, <1>6 DEF Ledger
<1>8. work'[h].step = "credit" /\ work'[h].option = o
  BY <1>5
<1> QED BY <1>4, <1>7, <1>8

\* An event that is refused leaves a receipt that counts nowhere.
LEMMA IgnoredKeepsLedger ==
  ASSUME Typed, NEW h \in Hosts, RouteIgnored(h)
  PROVE  Ledger' = Ledger
<1> DEFINE e == held[h].event
<1>1. /\ e \in Events /\ receipt[e] = NoReceipt /\ UNCHANGED assigned
      /\ receipt' = [receipt EXCEPT ![e] = Tombstone(h)]
      /\ Kind[e] = "like" => Tombstone(h) = Unscored
  BY DEF RouteIgnored, Admitting, Routing, Typed, TypeOK, NewReceipt, Tombstone, IsVote
<1>2. \A o \in Options : Likes(o)' = Likes(o)
  BY <1>1, ReceiptAssumption DEF Likes, Typed, TypeOK
<1> QED BY <1>1, <1>2 DEF Ledger, VoteTotal, ScoredTotal, Likes

-----------------------------------------------------------------------------
(* The inductive invariant: the ranking, with the one difference that is   *)
(* committed and not yet projected, is the ledger.                         *)

\* The ranking of h once the work in hand is done.
Projected(h) ==
  CASE work[h].step = "reassign" -> Reassigned(engine[h], work[h].from, work[h].to)
    [] work[h].step = "credit"   -> [engine[h] EXCEPT ![work[h].option] = @ + 1]
    [] OTHER                     -> engine[h]

Deciding(h) ==
  Owns(h) /\ phase[h] \in Serving /\ state.lifecycle \in InUse /\ ~degraded[h]

Follows == \A h \in Hosts : Deciding(h) => Projected(h) = Ledger

\* Before the start nobody has scored.  After a deletion the id is not used
\* again, and what the rankings keep does not matter.
Fresh == creates = 0 \/ state.lifecycle = "draft"

FreshRows ==
  Fresh => /\ \A v \in Voters : assigned[v] = NoAssignment
           /\ \A e \in Events : receipt[e] = NoReceipt

FreshEngines ==
  Fresh => \A h \in Hosts : engine[h] = NoScores /\ work[h].step \notin {"reassign", "credit"}

Created == state.lifecycle # "absent" => creates >= 1

\* A winner and the candidates it was picked from, as the ledger has them.
Decided(winner, weights) ==
  /\ weights = Weighed(Ledger) /\ EnoughParticipants
  /\ winner \in Candidates(weights) \union {NoWinner}
  /\ (Selection = "highest" /\ winner # NoWinner) => winner \in Leaders(weights)

\* Since the pick the ledger has not moved, and only the owner may store it.
PickedInv ==
  \A h \in Hosts :
    (work[h].step = "store" /\ Owns(h) /\ state.lifecycle = "finalizing")
      => Decided(work[h].winner, work[h].eligible)

RankingInv ==
  Follows /\ FreshRows /\ FreshEngines /\ Created /\ PickedInv /\ ResultMatchesLedger

\* Nobody owns anything yet, and nothing is scored.
LEMMA InitRanking == Init => RankingInv
BY DEF Init, RankingInv, Follows, FreshRows, FreshEngines, Created, PickedInv,
       ResultMatchesLedger, Deciding, Owns, Idle, Absent

\* What a host does leaves the owner's memory and rows alone, if that is
\* another host.
LEMMA OwnerUndisturbed ==
  ASSUME Inv, NEW h \in Hosts, HostStep(h), NEW k \in Hosts \ {h},
         owner' = k, state'.lifecycle \in InUse
  PROVE  /\ UNCHANGED <<state, owner, assigned, receipt>>
         /\ work'[k] = work[k] /\ engine'[k] = engine[k]
         /\ phase'[k] = phase[k] /\ degraded'[k] = degraded[k]
<1> USE DEF Inv, TypeOK, InUse, durable, memory
<1>1. CASE Boot(h)
  BY <1>1 DEF Boot, BootRead, BootClaim, BootTotals, BootFailed
<1>2. CASE Ingress(h)
  BY <1>2 DEF Ingress, Receive, Lag, Route, RouteClosed, RouteDuplicate, RouteIgnored, RouteVote,
              RouteLike, RouteFailed, RouteInvalid, MarkGap, Admitting, Owns
<1>3. CASE Apply(h) \/ Ranking(h)
  BY <1>3 DEF Apply, ApplyVote, ApplyLike, ApplyFailed, MarkGap, Ranking, RankingReset,
              RankingPause, RankingResume
<1>4. CASE Finalize(h)
  BY <1>4 DEF Finalize, Select, SelectRefused, StoreResult, StoreRefused, CanStore, Owns
<1>5. CASE Control(h)
  <2>1. CASE Create(h) \/ Delete(h)
    BY <2>1 DEF Create, Delete, Draft, Absent
  <2>2. CASE Start(h)
    BY <2>2 DEF Start
  <2>3. CASE Pause(h) \/ Resume(h)
    BY <2>3 DEF Pause, Resume, Transition, CanPause, CanResume, Owns
  <2>4. CASE Cancel(h)
    BY <2>4 DEF Cancel, Transition, Closed, LifecycleState
  <2>5. CASE Finish(h) \/ ExpireDue(h)
    BY <2>5 DEF Finish, ExpireDue, Closes, Owns
  <2>6. CASE Retry(h) \/ \E o \in Options : SelectWinner(h, o)
    BY <2>6 DEF Retry, SelectWinner
  <2> QED BY <1>5, <2>1, <2>2, <2>3, <2>4, <2>5, <2>6 DEF Control
<1>6. CASE Shutdown(h)
  BY <1>6 DEF Shutdown, BeginDrain, DrainTimeout, Abandon, MarkGap, CheckpointRead,
              CheckpointTimeout, CheckpointSave, LateSave, Exit, Crash, Stop
<1> QED BY <1>1, <1>2, <1>3, <1>4, <1>5, <1>6 DEF HostStep

\* A step that touches neither the rows nor this host's ranking and work, and
\* forgets no loss, keeps what the host would decide.
LEMMA QuietFollows ==
  ASSUME Inv, Follows, NEW h \in Hosts, UNCHANGED <<assigned, receipt, owner>>,
         engine'[h] = engine[h], work'[h] = work[h], degraded[h] => degraded'[h],
         Deciding(h)', phase[h] \in Serving, Owns(h), state.lifecycle \in InUse
  PROVE  Projected(h)' = Ledger'
<1>1. Deciding(h)
  BY DEF Deciding
<1> QED BY <1>1, SameLedger DEF Follows, Projected

\* A boot reads the ledger, or fails and says so.
LEMMA BootFollows ==
  ASSUME Inv, RankingInv, NEW h \in Hosts, Boot(h), Deciding(h)'
  PROVE  Projected(h)' = Ledger'
<1> USE DEF Inv, TypeOK, Deciding, Serving, durable
<1>1. CASE BootTotals(h)
  <2>1. UNCHANGED <<assigned, receipt>> /\ engine'[h] = Ledger /\ work'[h] = Idle
    BY <1>1 DEF BootTotals
  <2> QED BY <2>1, SameLedger DEF Projected, Idle
<1>2. CASE BootFailed(h)
  <2>1. work[h].step = "claim"
    BY <1>2 DEF BootFailed, WorkInv
  <2>2. owner # h /\ owner' = owner
    BY <1>2, <2>1 DEF BootFailed, BootInv
  <2> QED BY <2>2 DEF Owns
<1>3. CASE BootRead(h) \/ BootClaim(h)
  BY <1>3 DEF BootRead, BootClaim, WorkInv
<1> QED BY <1>1, <1>2, <1>3 DEF Boot

\* A commit by the owner leaves the difference to be projected.
LEMMA IngressFollows ==
  ASSUME Inv, RankingInv, NEW h \in Hosts, Ingress(h), Deciding(h)'
  PROVE  Projected(h)' = Ledger'
<1> USE DEF Inv, TypeOK, durable, memory
<1>0. Typed /\ Follows
  BY DEF Typed, RankingInv
<1>1. UNCHANGED <<state, owner, phase, engine>> /\ (degraded[h] => degraded'[h])
  BY DEF Ingress, Receive, Lag, Route, RouteClosed, RouteDuplicate, RouteIgnored, RouteVote,
         RouteLike, RouteFailed, RouteInvalid, MarkGap, Gap
<1>2. Deciding(h)
  BY <1>1 DEF Deciding, Owns
<1>3. CASE RouteVote(h)
  <2>1. work[h] = Idle
    BY <1>3 DEF RouteVote, Admitting, Routing, Quiet
  <2>2. engine'[h] = Ledger
    BY <1>0, <1>1, <1>2, <2>1 DEF Follows, Projected, Idle
  <2> QED BY <1>0, <1>3, <2>2, VoteMovesLedger DEF Projected
<1>4. CASE RouteLike(h)
  <2>1. work[h] = Idle
    BY <1>4 DEF RouteLike, Admitting, Routing, Quiet
  <2>2. engine'[h] = Ledger
    BY <1>0, <1>1, <1>2, <2>1 DEF Follows, Projected, Idle
  <2> QED BY <1>0, <1>4, <2>2, LikeMovesLedger DEF Projected
<1>5. CASE RouteIgnored(h)
  <2>1. work' = work
    BY <1>5 DEF RouteIgnored
  <2> QED BY <1>0, <1>1, <1>2, <1>5, <2>1, IgnoredKeepsLedger DEF Follows, Projected
<1>6. CASE (\E e \in Events : Receive(h, e)) \/ Lag(h) \/ RouteClosed(h) \/ RouteDuplicate(h)
           \/ RouteFailed(h) \/ RouteInvalid(h)
  <2>1. UNCHANGED <<assigned, receipt, work>>
    BY <1>6 DEF Receive, Lag, RouteClosed, RouteDuplicate, RouteFailed, RouteInvalid
  <2> QED BY <1>0, <1>1, <1>2, <2>1, SameLedger DEF Follows, Projected
<1> QED BY <1>3, <1>4, <1>5, <1>6 DEF Ingress, Route

\* The projection closes the difference; a rejected one degrades the owner.
LEMMA ApplyFollows ==
  ASSUME Inv, RankingInv, NEW h \in Hosts, Apply(h), Deciding(h)'
  PROVE  Projected(h)' = Ledger'
<1> USE DEF Inv, TypeOK, durable, memory
<1>1. /\ UNCHANGED <<state, assigned, receipt, owner, phase, rankingPaused>>
      /\ (degraded[h] => degraded'[h]) /\ work'[h] = Idle
  BY DEF Apply, ApplyVote, ApplyLike, ApplyFailed, MarkGap, Gap
<1>2. Deciding(h)
  BY <1>1 DEF Deciding, Owns
<1>3. ~rankingPaused[h]
  BY <1>2 DEF Deciding, OwnerProjects
<1>4. Projected(h) = Ledger
  BY <1>2 DEF RankingInv, Follows
<1>5. engine'[h] = Projected(h)
  <2>1. CASE ApplyVote(h)
    BY <1>3, <2>1 DEF ApplyVote, Projected
  <2>2. CASE ApplyLike(h)
    BY <2>2 DEF ApplyLike, Projected
  <2>3. CASE ApplyFailed(h)
    <3>1. degraded'[h]
      BY <1>3, <2>3 DEF ApplyFailed, MarkGap, Gap
    <3> QED BY <3>1 DEF Deciding
  <2> QED BY <2>1, <2>2, <2>3 DEF Apply
<1>6. Projected(h)' = engine'[h]
  BY <1>1 DEF Projected, Idle
<1> QED BY <1>1, <1>4, <1>5, <1>6, SameLedger

\* A start needs a draft, and no draft has rows or scores.
LEMMA ControlFollows ==
  ASSUME Inv, RankingInv, NEW h \in Hosts, Control(h), Deciding(h)'
  PROVE  Projected(h)' = Ledger'
<1> USE DEF Inv, TypeOK, durable, memory
<1>1. CASE Create(h) \/ Delete(h)
  BY <1>1 DEF Create, Delete, Draft, Absent, Deciding, InUse
<1>2. CASE Start(h)
  <2>1. /\ UNCHANGED <<assigned, receipt, engine, work>> /\ work[h] = Idle
        /\ state.lifecycle = "draft"
    BY <1>2 DEF Start, CanStart, Controlled, Quiet
  <2>2. engine[h] = NoScores /\ Ledger = NoScores
    BY <2>1, EmptyLedger DEF RankingInv, FreshRows, FreshEngines, Fresh
  <2> QED BY <2>1, <2>2, SameLedger DEF Projected, Idle
<1>3. CASE Cancel(h)
  <2>1. state'.lifecycle = "cancelled"
    BY <1>3 DEF Cancel, Transition, Closed, LifecycleState
  <2> QED BY <2>1 DEF Deciding, InUse
<1>4. CASE Pause(h) \/ Resume(h) \/ Finish(h) \/ ExpireDue(h) \/ Retry(h)
           \/ \E o \in Options : SelectWinner(h, o)
  <2>1. /\ UNCHANGED <<assigned, receipt, owner, phase, engine, degraded>> /\ work[h] = Idle
        /\ work'[h].step \in {"idle", "finalize"} /\ state.lifecycle \in InUse
    BY <1>4 DEF Pause, Resume, Transition, Finish, ExpireDue, Closes, Retry, SelectWinner,
                Controlled, Quiet, Idle, CanPause, CanResume, CanFinish, CanExpire, IsDue, InUse
  <2>2. Owns(h)
    BY <1>4, <2>1 DEF Pause, Resume, Transition, Finish, ExpireDue, Closes, Retry, SelectWinner,
                Deciding, Owns, CanPause, CanResume
  <2>3. Deciding(h)
    BY <2>1, <2>2 DEF Deciding
  <2>4. engine[h] = Ledger
    BY <2>1, <2>3 DEF RankingInv, Follows, Projected, Idle
  <2>5. Projected(h)' = engine'[h]
    BY <2>1 DEF Projected
  <2> QED BY <2>1, <2>4, <2>5, SameLedger
<1> QED BY <1>1, <1>2, <1>3, <1>4 DEF Control

\* Neither a selection, an admitted ranking operation nor the shutdown ladder
\* moves the ranking of a host that goes on deciding.
LEMMA OthersFollow ==
  ASSUME Inv, RankingInv, NEW h \in Hosts, Finalize(h) \/ Ranking(h) \/ Shutdown(h), Deciding(h)'
  PROVE  Projected(h)' = Ledger'
<1> USE DEF Inv, TypeOK, durable, memory
<1>1. CASE Finalize(h)
  <2>1. /\ UNCHANGED <<assigned, receipt, owner, phase, engine, degraded>>
        /\ work[h].step \in {"finalize", "store"} /\ work'[h].step \in {"idle", "store"}
    BY <1>1 DEF Finalize, Select, SelectRefused, StoreResult, StoreRefused, Idle
  <2>2. UNCHANGED state
    BY <1>1 DEF Finalize, Select, SelectRefused, StoreResult, StoreRefused, Closed, LifecycleState,
                Deciding, InUse
  <2>3. Deciding(h)
    BY <2>1, <2>2 DEF Deciding, Owns
  <2>4. engine[h] = Ledger
    BY <2>1, <2>3 DEF RankingInv, Follows, Projected
  <2>5. Projected(h)' = engine'[h]
    BY <2>1 DEF Projected
  <2> QED BY <2>1, <2>4, <2>5, SameLedger
<1>2. CASE Ranking(h)
  <2>1. UNCHANGED <<state, owner, phase, known, assigned, receipt>> /\ work'[h] = work[h]
    BY <1>2 DEF Ranking, RankingReset, RankingPause, RankingResume
  <2>2. Owns(h) /\ phase[h] \in Serving /\ state.lifecycle \in InUse
    BY <2>1 DEF Deciding, Owns
  <2>3. ~RankingReset(h)
    BY <2>2 DEF RankingReset, RankingFree, OwnerProjects
  <2>4. engine'[h] = engine[h] /\ degraded'[h] = degraded[h]
    BY <1>2, <2>3 DEF Ranking, RankingPause, RankingResume
  <2> QED BY <2>1, <2>2, <2>4, QuietFollows DEF RankingInv
<1>3. CASE Shutdown(h)
  <2>1. ~Exit(h) /\ ~Crash(h) /\ ~CheckpointTimeout(h) /\ ~LateSave(h)
    BY <1>3 DEF Exit, Crash, Stop, CheckpointTimeout, LateSave, Deciding, Serving
  <2>2. /\ UNCHANGED <<state, owner, assigned, receipt, engine>> /\ (degraded[h] => degraded'[h])
        /\ phase[h] \in Serving
    BY <1>3, <2>1 DEF Shutdown, BeginDrain, DrainTimeout, Abandon, MarkGap, Gap, CheckpointRead,
                      CheckpointSave, WorkInv, Serving
  <2>3. \/ work'[h] = work[h]
        \/ work[h].step \in {"idle", "save"} /\ work'[h].step \in {"idle", "save"}
    BY <1>3, <2>1 DEF Shutdown, BeginDrain, DrainTimeout, Abandon, CheckpointRead, CheckpointSave,
                      Quiet, Idle
  <2>4. Deciding(h)
    BY <2>2 DEF Deciding, Owns
  <2>5. Projected(h)' = Projected(h)
    BY <2>2, <2>3 DEF Projected
  <2> QED BY <2>2, <2>4, <2>5, SameLedger DEF RankingInv, Follows
<1> QED BY <1>1, <1>2, <1>3

\* Own steps and those of other hosts together.
LEMMA FollowsKept ==
  ASSUME Inv, RankingInv, NEW h \in Hosts, HostStep(h)
  PROVE  Follows'
<1> SUFFICES ASSUME NEW k \in Hosts, Deciding(k)' PROVE Projected(k)' = Ledger'
  BY DEF Follows
<1>1. CASE k = h
  BY <1>1, BootFollows, IngressFollows, ApplyFollows, ControlFollows, OthersFollow DEF HostStep
<1>2. CASE k # h
  <2>1. owner' = k /\ state'.lifecycle \in InUse
    BY DEF Deciding, Owns
  <2>2. /\ UNCHANGED <<state, owner, assigned, receipt>>
        /\ work'[k] = work[k] /\ engine'[k] = engine[k]
        /\ phase'[k] = phase[k] /\ degraded'[k] = degraded[k]
    BY <1>2, <2>1, OwnerUndisturbed
  <2>3. phase[k] \in Serving /\ Owns(k) /\ state.lifecycle \in InUse
    BY <2>2 DEF Deciding, Owns
  <2> QED BY <2>2, <2>3, QuietFollows DEF RankingInv
<1> QED BY <1>1, <1>2

\* A draft comes from a creation, and no id is created twice.
LEMMA FreshBefore ==
  ASSUME Inv, RankingInv, MaxCreates <= 1, NEW h \in Hosts, HostStep(h)
  PROVE  Created' /\ (Fresh' => Fresh /\ creates' >= creates)
<1> USE DEF Inv, TypeOK, durable, memory, history
<1>1. CASE UNCHANGED <<state, creates>>
  BY <1>1 DEF RankingInv, Created, Fresh
<1>2. CASE Create(h)
  <2>1. creates < MaxCreates /\ creates' = creates + 1 /\ creates \in Nat
    BY <1>2 DEF Create
  <2>2. MaxCreates \in Nat
    BY ConstantsAssumption
  <2>3. creates = 0 /\ creates' = 1
    BY <2>1, <2>2
  <2> QED BY <2>3 DEF Created, Fresh
<1>3. CASE Delete(h)
  BY <1>3 DEF Delete, Absent, RankingInv, Created, Fresh
<1>4. CASE Start(h)
  BY <1>4 DEF Start, CanStart, RankingInv, Created, Fresh
<1>5. CASE Pause(h) \/ Resume(h) \/ Cancel(h) \/ Finish(h) \/ ExpireDue(h)
  <2>1. /\ state.lifecycle # "absent" /\ UNCHANGED creates
        /\ \/ state' \in {Paused(state, now), Resumed(state, now)}
           \/ state' \in {Closed(state, "cancelled"), Closed(state, "finalizing")}
    BY <1>5 DEF Pause, Resume, Cancel, Finish, ExpireDue, Transition, Closes, CanPause, CanResume,
                CanCancel, CanFinish, CanExpire, IsDue
  <2>2. state'.lifecycle # "draft"
    <3>1. /\ Paused(state, now).lifecycle = "paused"
          /\ Resumed(state, now).lifecycle = "active"
          /\ Closed(state, "cancelled").lifecycle = "cancelled"
          /\ Closed(state, "finalizing").lifecycle = "finalizing"
      BY TransitionsGo DEF Lifecycles
    <3> QED BY <2>1, <3>1
  <2> QED BY <2>1, <2>2 DEF RankingInv, Created, Fresh
<1>6. CASE StoreResult(h)
  <2>1. state.lifecycle # "absent" /\ UNCHANGED creates /\ state'.lifecycle # "draft"
    BY <1>6 DEF StoreResult, CanStore, Closed, LifecycleState
  <2> QED BY <2>1 DEF RankingInv, Created, Fresh
<1>7. CASE Control(h)
  BY <1>1, <1>2, <1>3, <1>4, <1>5, <1>7 DEF Control, Retry, SelectWinner
<1>8. CASE Boot(h) \/ Apply(h) \/ Ranking(h) \/ Finalize(h)
  BY <1>1, <1>6, <1>8 DEF Boot, BootRead, BootClaim, BootTotals, BootFailed, Apply, ApplyVote,
     ApplyLike, ApplyFailed, Ranking, RankingReset, RankingPause, RankingResume, Finalize, Select,
     SelectRefused, StoreRefused
<1>9. CASE Ingress(h)
  BY <1>1, <1>9 DEF Ingress, Receive, Lag, Route, RouteClosed, RouteDuplicate, RouteIgnored,
     RouteVote, RouteLike, RouteFailed, RouteInvalid
<1>10. CASE Shutdown(h)
  BY <1>1, <1>10 DEF Shutdown, BeginDrain, DrainTimeout, Abandon, CheckpointRead,
     CheckpointTimeout, CheckpointSave, LateSave, Exit, Crash, Stop
<1> QED BY <1>7, <1>8, <1>9, <1>10 DEF HostStep

\* Nothing is admitted before the start, so nothing is scored.
LEMMA FreshKept ==
  ASSUME Inv, RankingInv, MaxCreates <= 1, NEW h \in Hosts, HostStep(h)
  PROVE  FreshRows' /\ FreshEngines'
<1> SUFFICES ASSUME Fresh'
             PROVE  /\ \A v \in Voters : assigned'[v] = NoAssignment
                    /\ \A e \in Events : receipt'[e] = NoReceipt
                    /\ \A k \in Hosts : /\ engine'[k] = NoScores
                                        /\ work'[k].step \notin {"reassign", "credit"}
  BY DEF FreshRows, FreshEngines
<1> USE DEF Inv, TypeOK, durable, memory, history
<1>1. Fresh /\ creates' >= creates
  BY FreshBefore
<1>2. /\ \A v \in Voters : assigned[v] = NoAssignment
      /\ \A e \in Events : receipt[e] = NoReceipt
      /\ \A k \in Hosts : engine[k] = NoScores /\ work[k].step \notin {"reassign", "credit"}
  BY <1>1 DEF RankingInv, FreshRows, FreshEngines
<1>3. state.lifecycle \in {"absent", "draft"}
  BY <1>1 DEF Fresh, RankingInv, Created
<1>4. CASE Boot(h)
  <2>1. Ledger = NoScores
    BY <1>2, EmptyLedger
  <2> QED BY <1>2, <1>4, <2>1 DEF Boot, BootRead, BootClaim, BootTotals, BootFailed, Idle
<1>5. CASE Ingress(h)
  BY <1>2, <1>3, <1>5 DEF Ingress, Receive, Lag, Route, RouteClosed, RouteDuplicate, RouteIgnored,
     RouteVote, RouteLike, RouteFailed, RouteInvalid, Admitting
<1>6. CASE Apply(h)
  BY <1>2, <1>6 DEF Apply, ApplyVote, ApplyLike, ApplyFailed
<1>7. CASE Ranking(h) \/ Finalize(h)
  BY <1>2, <1>7 DEF Ranking, RankingReset, RankingPause, RankingResume, Finalize, Select,
     SelectRefused, StoreResult, StoreRefused, Idle
<1>8. CASE Control(h)
  BY <1>2, <1>8 DEF Control, Create, Delete, Purged, Start, Pause, Resume, Cancel, Transition,
     Finish, ExpireDue, Closes, Retry, SelectWinner
<1>9. CASE Shutdown(h)
  BY <1>2, <1>9 DEF Shutdown, BeginDrain, DrainTimeout, Abandon, CheckpointRead,
     CheckpointTimeout, CheckpointSave, LateSave, Exit, Crash, Stop, Idle
<1> QED BY <1>4, <1>5, <1>6, <1>7, <1>8, <1>9 DEF HostStep

\* Every policy names a candidate, the highest one a leader, or nobody.
LEMMA WinnersAreCandidates ==
  ASSUME NEW weights \in Weights, NEW manual \in Options \union {NoWinner},
         NEW w \in Winners(weights, manual)
  PROVE  /\ w \in Candidates(weights) \union {NoWinner}
         /\ (Selection = "highest" /\ w # NoWinner) => w \in Leaders(weights)
<1> DEFINE leaders == Leaders(weights)
<1>1. leaders \subseteq Candidates(weights)
  BY DEF Leaders
<1>2. Cardinality(leaders) >= 2 => leaders # {}
  BY FS_EmptySet
<1>3. Cardinality(leaders) >= 2 => (CHOOSE k \in leaders : TRUE) \in leaders
  BY <1>2
<1>4. CASE manual # NoWinner
  BY <1>1, <1>4 DEF Winners
<1>5. CASE manual = NoWinner /\ Selection # "highest"
  BY <1>5 DEF Winners
<1>6. CASE manual = NoWinner /\ Selection = "highest" /\ ~(Cardinality(leaders) >= 2)
  BY <1>1, <1>6 DEF Winners
<1>7. CASE manual = NoWinner /\ Selection = "highest" /\ Cardinality(leaders) >= 2
  <2>1. w \in CASE TiePolicy = "manual"    -> {}
                [] TiePolicy = "no_winner" -> {NoWinner}
                [] TiePolicy = "stable"    -> {CHOOSE k \in leaders : TRUE}
                [] TiePolicy = "random"    -> leaders
    BY <1>7 DEF Winners
  <2>2. w = NoWinner \/ w \in leaders
    BY <1>3, <1>7, <2>1, ConstantsAssumption
  <2> QED BY <1>1, <2>2
<1> QED BY <1>4, <1>5, <1>6, <1>7

\* A winner is picked from the ranking the owner keeps equal to the ledger;
\* until it is stored, the ledger is that of a competition that is closed.
LEMMA PickedKept ==
  ASSUME Inv, RankingInv, NEW h \in Hosts, HostStep(h)
  PROVE  PickedInv'
<1> SUFFICES ASSUME NEW k \in Hosts, work'[k].step = "store", Owns(k)',
                    state'.lifecycle = "finalizing"
             PROVE  Decided(work[k].winner, work[k].eligible)'
  BY DEF PickedInv
<1> USE DEF Inv, TypeOK, durable, memory
<1>1. CASE k # h
  <2>1. UNCHANGED <<state, owner, assigned, receipt>> /\ work'[k] = work[k]
    BY <1>1, OwnerUndisturbed DEF Owns, InUse
  <2>2. Decided(work[k].winner, work[k].eligible)
    BY <2>1 DEF RankingInv, PickedInv, Owns
  <2> QED BY <2>1, <2>2, SameLedger DEF Decided, EnoughParticipants, Weighed, Candidates, Leaders
<1>2. CASE k = h /\ Select(h)
  <2>1. /\ UNCHANGED <<state, owner, assigned, receipt, engine>>
        /\ work[h].step = "finalize" /\ Selectable(h)
    BY <1>2 DEF Select
  <2>2. Deciding(h)
    BY <1>2, <2>1 DEF Deciding, Owns, Selectable, Complete, WorkInv, InUse
  <2>3. engine[h] = Ledger
    BY <2>1, <2>2 DEF RankingInv, Follows, Projected
  <2>4. PICK w \in Winners(Eligible(h), work[h].manual) :
          work' = [work EXCEPT ![h] = [step |-> "store", winner |-> w, eligible |-> Eligible(h)]]
    BY <1>2 DEF Select
  <2>5. work'[h].winner = w /\ work'[h].eligible = Eligible(h)
    BY <2>4
  <2>6. Eligible(h) = Weighed(Ledger) /\ Eligible(h) \in Weights
    BY <2>3, WeighedType DEF Eligible
  <2>7. work[h].manual \in Options \union {NoWinner}
    BY <2>1, WorkFields
  <2>8. Decided(w, Eligible(h))
    BY <2>1, <2>6, <2>7, WinnersAreCandidates DEF Decided, Selectable
  <2>9. Decided(w, Eligible(h)) => Decided(work[h].winner, work[h].eligible)'
    BY <2>1, <2>5, SameLedger DEF Decided, EnoughParticipants, Weighed, Candidates, Leaders
  <2> QED BY <1>2, <2>8, <2>9
<1>3. CASE k = h /\ ~Select(h)
  <2>1. work'[h] = work[h]
    <3>1. CASE Boot(h) \/ Apply(h) \/ Control(h)
      BY <1>3, <3>1 DEF Boot, BootRead, BootClaim, BootTotals, BootFailed, Apply, ApplyVote,
         ApplyLike, ApplyFailed, Control, Create, Delete, Start, Pause, Resume, Cancel, Transition,
         Finish, ExpireDue, Closes, Retry, SelectWinner, Idle
    <3>2. CASE Ingress(h)
      BY <1>3, <3>2 DEF Ingress, Receive, Lag, Route, RouteClosed, RouteDuplicate, RouteIgnored,
         RouteVote, RouteLike, RouteFailed, RouteInvalid, Idle
    <3>3. CASE Finalize(h) \/ Ranking(h)
      BY <1>3, <3>3 DEF Finalize, SelectRefused, StoreResult, StoreRefused, Ranking, RankingReset,
         RankingPause, RankingResume, Idle
    <3>4. CASE Shutdown(h)
      BY <1>3, <3>4 DEF Shutdown, BeginDrain, DrainTimeout, Abandon, CheckpointRead,
         CheckpointTimeout, CheckpointSave, LateSave, Exit, Crash, Stop, Idle
    <3> QED BY <3>1, <3>2, <3>3, <3>4 DEF HostStep
  <2>2. phase[h] \in Serving /\ ~Quiet(h)
    BY <1>3, <2>1 DEF WorkInv, Quiet, Idle
  <2>3. UNCHANGED <<state, owner, assigned, receipt>>
    <3>1. CASE Boot(h) \/ Apply(h) \/ Control(h)
      BY <1>3, <2>1, <2>2, <3>1 DEF Boot, BootRead, BootClaim, BootTotals, BootFailed, Apply,
         ApplyVote, ApplyLike, ApplyFailed, Control, Create, Delete, Start, Pause, Resume, Cancel,
         Transition, Finish, ExpireDue, Closes, Retry, SelectWinner, Controlled
    <3>2. CASE Ingress(h)
      BY <2>2, <3>2 DEF Ingress, Receive, Lag, Route, Routing, RouteClosed, RouteDuplicate,
         RouteIgnored, RouteVote, RouteLike, RouteFailed, RouteInvalid, Admitting
    <3>3. CASE Finalize(h) \/ Ranking(h)
      BY <1>3, <2>1, <3>3 DEF Finalize, Select, SelectRefused, StoreResult, StoreRefused, Ranking,
         RankingReset, RankingPause, RankingResume, Idle
    <3>4. CASE Shutdown(h)
      BY <3>4 DEF Shutdown, BeginDrain, DrainTimeout, Abandon, CheckpointRead,
         CheckpointTimeout, CheckpointSave, LateSave, Exit, Crash, Stop
    <3> QED BY <3>1, <3>2, <3>3, <3>4 DEF HostStep
  <2>4. Decided(work[h].winner, work[h].eligible)
    BY <1>3, <2>1, <2>3 DEF RankingInv, PickedInv, Owns
  <2> QED BY <1>3, <2>1, <2>3, <2>4, SameLedger
          DEF Decided, EnoughParticipants, Weighed, Candidates, Leaders
<1> QED BY <1>1, <1>2, <1>3

\* The rows of a competition that is finished are not touched any more.
LEMMA ResultKept ==
  ASSUME Inv, RankingInv, NEW h \in Hosts, HostStep(h)
  PROVE  ResultMatchesLedger'
<1> USE DEF Inv, TypeOK, durable, memory
<1>1. CASE StoreResult(h)
  <2>1. /\ UNCHANGED <<assigned, receipt>>
        /\ work[h].step = "store" /\ Owns(h) /\ state.lifecycle = "finalizing"
        /\ result' = [winner |-> work[h].winner, eligible |-> work[h].eligible]
    BY <1>1 DEF StoreResult, CanStore
  <2>2. Decided(work[h].winner, work[h].eligible)
    BY <2>1 DEF RankingInv, PickedInv
  <2>3. result'.winner = work[h].winner /\ result'.eligible = work[h].eligible
    BY <2>1
  <2> QED BY <2>1, <2>2, <2>3, SameLedger
          DEF ResultMatchesLedger, Decided, EnoughParticipants, Weighed, Candidates, Leaders
<1>2. CASE ~StoreResult(h)
  <2>1. UNCHANGED result
    <3>1. CASE Boot(h) \/ Apply(h) \/ Control(h)
      BY <3>1 DEF Boot, BootRead, BootClaim, BootTotals, BootFailed, Apply, ApplyVote,
         ApplyLike, ApplyFailed, Control, Create, Delete, Start, Pause, Resume, Cancel, Transition,
         Finish, ExpireDue, Closes, Retry, SelectWinner
    <3>2. CASE Ingress(h)
      BY <3>2 DEF Ingress, Receive, Lag, Route, RouteClosed, RouteDuplicate, RouteIgnored,
         RouteVote, RouteLike, RouteFailed, RouteInvalid
    <3>3. CASE Finalize(h) \/ Ranking(h)
      BY <1>2, <3>3 DEF Finalize, Select, SelectRefused, StoreRefused, Ranking, RankingReset,
         RankingPause, RankingResume
    <3>4. CASE Shutdown(h)
      BY <3>4 DEF Shutdown, BeginDrain, DrainTimeout, Abandon, CheckpointRead,
         CheckpointTimeout, CheckpointSave, LateSave, Exit, Crash, Stop
    <3> QED BY <3>1, <3>2, <3>3, <3>4 DEF HostStep
  <2>2. result # NoResult => UNCHANGED <<assigned, receipt>>
    <3>1. result # NoResult => state.lifecycle = "finished"
      BY DEF StageInv
    <3>2. CASE Ingress(h)
      BY <3>1, <3>2 DEF Ingress, Receive, Lag, Route, RouteClosed, RouteDuplicate, RouteIgnored,
         RouteVote, RouteLike, RouteFailed, RouteInvalid, Admitting
    <3>3. CASE ~Ingress(h)
      <4>1. UNCHANGED <<assigned, receipt>> \/ Delete(h)
        BY <3>3 DEF HostStep, Boot, BootRead, BootClaim, BootTotals, BootFailed, Apply, ApplyVote,
           ApplyLike, ApplyFailed, Control, Create, Start, Pause, Resume, Cancel, Transition,
           Finish, ExpireDue, Closes, Retry, SelectWinner, Finalize, Select, SelectRefused,
           StoreResult, StoreRefused, Ranking, RankingReset, RankingPause, RankingResume, Shutdown,
           BeginDrain, DrainTimeout, Abandon, CheckpointRead, CheckpointTimeout, CheckpointSave,
           LateSave, Exit, Crash, Stop
      <4> QED BY <3>1, <4>1 DEF Delete
    <3> QED BY <3>2, <3>3
  <2> QED BY <2>1, <2>2, SameLedger
          DEF RankingInv, ResultMatchesLedger, Weighed, Candidates, Leaders
<1> QED BY <1>1, <1>2

\* The clock moves nothing of this.
LEMMA ClockKeepsRanking ==
  ASSUME RankingInv, UNCHANGED <<state, assigned, receipt, owner, result, phase, work, engine,
                                 degraded, creates>>
  PROVE  RankingInv'
BY SameLedger
DEF RankingInv, Follows, Projected, Deciding, Owns, FreshRows, FreshEngines, Fresh, Created,
    PickedInv, Decided, EnoughParticipants, ResultMatchesLedger, Weighed, Candidates, Leaders

\* What a reader of the ranking or of a result relies on, whatever the hosts
\* go through, if no id is used again.
THEOREM RankingInvariant == ASSUME MaxCreates <= 1 PROVE Spec => []RankingInv
<1>1. Inv /\ RankingInv /\ [Next]_vars => RankingInv'
  <2> SUFFICES ASSUME Inv, RankingInv, [Next]_vars PROVE RankingInv'
    OBVIOUS
  <2>1. ASSUME NEW h \in Hosts, HostStep(h) PROVE RankingInv'
    BY <2>1, FollowsKept, FreshBefore, FreshKept, PickedKept, ResultKept DEF RankingInv
  <2>2. CASE Tick \/ UNCHANGED vars
    BY <2>2, ClockKeepsRanking DEF Tick, vars, durable, memory, history
  <2> QED BY <2>1, <2>2 DEF Next
<1> QED BY InitRanking, LossesAreTracked, <1>1, PTL DEF Spec

\* The ranking the owner decides from is the ledger, vote by vote and like by
\* like, on any number of hosts, overlapping or not, with takeovers, crashes
\* and rejected projections, for an id that is created once.
THEOREM RankingsMatchTheLedger == ASSUME MaxCreates <= 1 PROVE Spec => []EngineMatchesLedger
<1>1. RankingInv => EngineMatchesLedger
  BY DEF RankingInv, Follows, Projected, Deciding, EngineMatchesLedger, Quiet, Idle
<1> QED BY RankingInvariant, <1>1, PTL

\* A stored result is the ledger's: the candidates, enough participants, and a
\* winner the policy may name.
THEOREM ResultsMatchTheLedger == ASSUME MaxCreates <= 1 PROVE Spec => []ResultMatchesLedger
<1>1. RankingInv => ResultMatchesLedger
  BY DEF RankingInv
<1> QED BY RankingInvariant, <1>1, PTL
=============================================================================
