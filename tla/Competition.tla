----------------------------- MODULE Competition -----------------------------
(***************************************************************************)
(* One command-vote competition, its dedicated ranking, and the processes  *)
(* ("hosts") that serve them from one SQLite file.                         *)
(*                                                                         *)
(* Durable state is what a transaction can see: the lifecycle row, the     *)
(* participant assignments, the event receipts, the integrity checkpoint,  *)
(* the owner row and the result.  Volatile state is one AppCore: the phase *)
(* of its life, the LIVE event its ingress worker holds, the work its      *)
(* mutation lock protects, and its in-memory ranking.                      *)
(*                                                                         *)
(* A host is one run of the program and boots once: its name is also the   *)
(* random owner token AggregationService::restore draws.  Several hosts    *)
(* may be alive together, because only the IPC hosts take the control-host *)
(* guard: ExclusiveHosts says whether all the hosts do.                    *)
(***************************************************************************)
EXTENDS CompetitionLifecycle, FiniteSets

CONSTANTS
  Hosts,            \* the runs of the program
  Events,           \* identities of LIVE events
  Voters, Options,
  Kind,             \* Events -> {"vote", "like"}
  Voter,            \* Events -> Voters: who sent the event
  Choice,           \* Events -> Options: the option a vote command names
  VoteLimit,        \* voteLimit
  AllowSwitch,      \* allowSwitch
  MinParticipants,  \* minimumParticipants
  MaxParticipants,  \* MAX_PARTICIPANTS
  MaxContributions, \* MAX_CONTRIBUTIONS
  Selection,        \* "highest", "uniform" (options) or "draw" (participants)
  TiePolicy,        \* "manual", "no_winner", "stable" or "random"
  ExclusiveHosts,   \* every host is started under the control-host guard
  MaxTime,          \* bound on the clock
  MaxCreates,       \* bound on the number of creations
  NoHost, NoEvent, NoAssignment, NoResult, NoWinner

ASSUME ConstantsAssumption ==
  /\ IsFiniteSet(Voters) /\ IsFiniteSet(Options) /\ IsFiniteSet(Events)
  /\ Kind \in [Events -> {"vote", "like"}]
  /\ Voter \in [Events -> Voters]
  /\ Choice \in [Events -> Options]
  /\ VoteLimit \in Nat \ {0}
  /\ AllowSwitch \in BOOLEAN /\ ExclusiveHosts \in BOOLEAN
  /\ MinParticipants \in Nat /\ MaxParticipants \in Nat
  /\ MaxContributions \in Nat /\ MaxTime \in Nat /\ MaxCreates \in Nat
  /\ Selection \in {"highest", "uniform", "draw"}
  /\ TiePolicy \in {"manual", "no_winner", "stable", "random"}
  /\ NoHost \notin Hosts /\ NoEvent \notin Events
  /\ NoWinner \notin Options \union Voters /\ Options \intersect Voters = {}

VARIABLES
  \* Durable: one SQLite file.
  state,        \* competition_state
  assigned,     \* competition_participants: each voter's option and votes
  receipt,      \* competition_contributions and competition_scored_contributions
  checkpoint,   \* competition_integrity_checkpoints, generation 1
  owner,        \* competition_integrity_owners, generation 1
  result,       \* competition_results, generation 1
  \* Volatile: one per host.
  phase,        \* how far the host is through its life
  work,         \* the operation in progress under the mutation lock
  held,         \* the event the ordered ingress worker has taken
  engine,       \* the ranking's score per option
  degraded,     \* the ranking has rejected or dropped something
  complete,     \* no event was cancelled or abandoned by the shutdown ladder
  known,        \* the definition is in the host's in-memory map and index
  rankingPaused,\* the ranking is paused
  \* The clock, and history the program does not keep.
  now,          \* host clock
  creates,      \* creations so far, for MaxCreates
  ran,          \* time spent active and not due since the start
  lost,         \* an event the competition would have counted is gone
  abandoned     \* the same, by a shutdown ladder whose host is still alive

durable == <<state, assigned, receipt, checkpoint, owner, result>>
memory  == <<engine, degraded, complete, known, rankingPaused>>
history == <<creates, ran, lost, abandoned>>
vars == <<durable, phase, work, held, memory, now, history>>

-----------------------------------------------------------------------------
(* The shapes of the state.                                                *)

Assignment == [option : Options, votes : 1 .. VoteLimit]
Unscored   == "unscored"       \* option_id IS NULL: a receipt without a score
NoReceipt  == "none"
Idle       == [step |-> "idle"]

\* An option id is never one of the two things a receipt has instead.
ASSUME ReceiptAssumption == Unscored \notin Options /\ NoReceipt \notin Options

\* A viewer who has not voted is told from one who has.
ASSUME AssignmentAssumption == NoAssignment \notin Assignment

Phases == {"off", "booting", "up", "draining", "aborting", "saved", "leaving", "stopped"}

\* Control operations, the deadline tick and the routing of an event may
\* still be in flight while shutdown runs: none of them looks at
\* shutdown_started once it has begun to wait for the mutation lock.
Serving == {"up", "draining", "aborting", "saved"}

\* The candidates of a selection: a key of weight 0 is not one.
Weights == [Options \union Voters -> Int]

Work ==
  {Idle}
  \union [step : {"claim"}, seen : Lifecycles]
  \union [step : {"totals"}, clean : BOOLEAN]
  \union [step : {"reassign"}, from : Assignment \union {NoAssignment}, to : Assignment]
  \union [step : {"credit"}, option : Options]
  \union [step : {"finalize"}, manual : Options \union {NoWinner}]
  \union [step : {"store"}, winner : Options \union Voters \union {NoWinner},
          eligible : Weights]
  \union [step : {"save"}, clean : BOOLEAN]

TypeOK ==
  /\ state \in LifecycleState
  /\ assigned \in [Voters -> Assignment \union {NoAssignment}]
  /\ receipt \in [Events -> Options \union {Unscored, NoReceipt}]
  /\ checkpoint \in {"none", "open", "clean", "degraded"}
  /\ owner \in Hosts \union {NoHost}
  /\ result = NoResult
     \/ result \in [winner : Options \union Voters \union {NoWinner},
                    eligible : Weights]
  /\ phase \in [Hosts -> Phases]
  /\ work \in [Hosts -> Work]
  /\ held \in [Hosts -> [event : Events, at : Int, late : BOOLEAN] \union {NoEvent}]
  /\ engine \in [Hosts -> [Options -> Int]]
  /\ degraded \in [Hosts -> BOOLEAN]
  /\ complete \in [Hosts -> BOOLEAN]
  /\ known \in [Hosts -> BOOLEAN]
  /\ rankingPaused \in [Hosts -> BOOLEAN]
  /\ now \in Nat /\ creates \in Nat /\ ran \in Nat
  /\ lost \in BOOLEAN /\ abandoned \in BOOLEAN

NoScores == [o \in Options |-> 0]

Init ==
  /\ state = Absent
  /\ assigned = [v \in Voters |-> NoAssignment]
  /\ receipt = [e \in Events |-> NoReceipt]
  /\ checkpoint = "none" /\ owner = NoHost /\ result = NoResult
  /\ phase = [h \in Hosts |-> "off"]
  /\ work = [h \in Hosts |-> Idle]
  /\ held = [h \in Hosts |-> NoEvent]
  /\ engine = [h \in Hosts |-> NoScores]
  /\ degraded = [h \in Hosts |-> FALSE]
  /\ complete = [h \in Hosts |-> TRUE]
  /\ known = [h \in Hosts |-> FALSE]
  /\ rankingPaused = [h \in Hosts |-> FALSE]
  /\ now = 0 /\ creates = 0 /\ ran = 0
  /\ lost = FALSE /\ abandoned = FALSE

-----------------------------------------------------------------------------
(* What a transaction derives from the tables.                             *)

Participants  == {v \in Voters : assigned[v] # NoAssignment}
Contributions == Cardinality({e \in Events : receipt[e] # NoReceipt})

\* competition_vote_totals: SUM(votes) GROUP BY option_id, as the number of
\* pairs of a voter and one of its votes.
VoteTotal(o) ==
  Cardinality({p \in Voters \X (1 .. VoteLimit) :
                 /\ assigned[p[1]] # NoAssignment
                 /\ assigned[p[1]].option = o
                 /\ p[2] <= assigned[p[1]].votes})

\* competition_scored_totals: every routed like scores one.
ScoredTotal(o) == Cardinality({e \in Events : Kind[e] = "like" /\ receipt[e] = o})

Ledger == [o \in Options |-> VoteTotal(o) + ScoredTotal(o)]

\* The fence of every write of a running generation:
\*   EXISTS(... competition_id, generation, owner = this host's token).
Unfenced(h) == state.generation = 1                                  \* mutant
Owns(h) == state.generation = 1 /\ owner = h

\* Admission is open for an event received at t.
Accepting(t) == state.lifecycle = "active" /\ ~IsDue(state, t)

\* An event is gone before its transaction committed.  It is a loss for the
\* competition when the owner had it and the competition would have taken it.
LosesAt(h) == owner = h /\ Accepting(now)

\* The host that knew it had abandoned something no longer speaks for the
\* competition, and nothing was decided yet.
Forgotten == abandoned /\ result = NoResult

\* mark_ranking_gap and mark_ingress_loss skip a paused ranking.
NoGap(h) == degraded[h]                                              \* mutant
Gap(h) == degraded[h] \/ ~rankingPaused[h]
MarkGap(h) == degraded' = [degraded EXCEPT ![h] = Gap(h)]

-----------------------------------------------------------------------------
(* Boot: AppCore::new, AggregationService::restore, CompetitionService::   *)
(* restore.  Each database call is a step of its own.                      *)

Quiet(h) == work[h] = Idle

\* The control-host guard is released when shutdown() returns, which the
\* five second limit allows before the checkpoint writer is done.
GuardFree(h) ==
  ExclusiveHosts => \A g \in Hosts \ {h} : phase[g] \in {"off", "leaving", "stopped"}

\* Only a checkpoint its owner closed as clean says that nothing was lost.
OpenIsClean == checkpoint \in {"open", "clean"}                       \* mutant
WasClean == checkpoint = "clean"

BootRead(h) ==
  /\ phase[h] = "off" /\ GuardFree(h)
  /\ phase' = [phase EXCEPT ![h] = "booting"]
  /\ work' = [work EXCEPT ![h] = [step |-> "claim", seen |-> state.lifecycle]]
  /\ UNCHANGED <<durable, held, memory, now, history>>

\* begin_competition_recovery: consume the checkpoint and take the owner row,
\* in one transaction, for the generation read a step earlier.  What the
\* previous owner still held can no longer be committed.
BootClaim(h) ==
  /\ work[h].step = "claim"
  /\ IF work[h].seen \in InUse
     THEN /\ work' = [work EXCEPT ![h] = [step |-> "totals", clean |-> WasClean]]
          /\ checkpoint' = "open"
          /\ owner' = h
          /\ lost' = (lost \/ Forgotten \/ \E g \in Hosts : held[g] # NoEvent /\ LosesAt(g))
          /\ abandoned' = FALSE
     ELSE /\ work' = [work EXCEPT ![h] = [step |-> "totals", clean |-> TRUE]]
          /\ UNCHANGED <<checkpoint, owner, lost, abandoned>>
  /\ UNCHANGED <<state, assigned, receipt, result, phase, held, memory, now, creates, ran>>

\* Vote and score totals are read after the claim has fenced older writers.
\* The definitions enter the in-memory map and the command index.
BootTotals(h) ==
  /\ work[h].step = "totals"
  /\ phase' = [phase EXCEPT ![h] = "up"]
  /\ work' = [work EXCEPT ![h] = Idle]
  /\ engine' = [engine EXCEPT ![h] = Ledger]
  /\ degraded' = [degraded EXCEPT ![h] = ~work[h].clean]
  /\ known' = [known EXCEPT ![h] = state.lifecycle # "absent"]
  /\ UNCHANGED <<durable, held, complete, rankingPaused, now, history>>

\* A read or the claim fails: the ranking starts empty, and degraded unless
\* the list of competitions itself could not be read.
BootFailed(h) ==
  /\ phase[h] = "booting"
  /\ phase' = [phase EXCEPT ![h] = "up"]
  /\ \E gap \in BOOLEAN :
       /\ work[h].step = "totals" => gap
       /\ degraded' = [degraded EXCEPT ![h] = gap]
  /\ work' = [work EXCEPT ![h] = Idle]
  /\ known' = [known EXCEPT ![h] = state.lifecycle # "absent"]
  /\ UNCHANGED <<durable, held, engine, complete, rankingPaused, now, history>>

-----------------------------------------------------------------------------
(* LIVE ingress.  One ordered worker per host holds at most one event; its *)
(* reception time is read before it waits for the mutation lock.           *)

Receive(h, e) ==
  /\ phase[h] = "up" /\ held[h] = NoEvent
  /\ held' = [held EXCEPT ![h] = [event |-> e, at |-> now, late |-> IsDue(state, now)]]
  /\ UNCHANGED <<durable, phase, work, memory, now, history>>

\* The event was routed, or dropped.
Release(h) == held' = [held EXCEPT ![h] = NoEvent]

\* The broadcast receiver lagged or the queue shed an event: the pump marks
\* every running ranking without taking the mutation lock.
Lag(h) ==
  /\ phase[h] = "up"
  /\ MarkGap(h)
  /\ lost' = (lost \/ LosesAt(h))
  /\ UNCHANGED <<durable, phase, work, held, engine, complete, known, rankingPaused,
                 now, creates, ran, abandoned>>

\* The lock is free and the worker is allowed to route what it holds.
Routing(h) ==
  /\ phase[h] \in {"up", "draining"}
  /\ held[h] # NoEvent /\ Quiet(h)

Sender(h)  == Voter[held[h].event]
Named(h)   == Choice[held[h].event]
IsVote(h)  == Kind[held[h].event] = "vote"

AlwaysNew(h) == TRUE                                                 \* mutant
NewReceipt(h) == receipt[held[h].event] = NoReceipt
HasRoom == Contributions < MaxContributions

\* Refused for good, with a receipt: paused or past the deadline, a switch
\* that is forbidden, the vote limit, a like of a viewer without an option.
AtLimit(h) ==
  /\ assigned[Sender(h)].option = Named(h)
  /\ assigned[Sender(h)].votes >= VoteLimit
Switches(h) == assigned[Sender(h)].option # Named(h)

Refused(h) ==
  \/ ~Accepting(held[h].at)
  \/ IF assigned[Sender(h)] = NoAssignment
     THEN ~IsVote(h)
     ELSE IsVote(h) /\ (AtLimit(h) \/ (Switches(h) /\ ~AllowSwitch))

\* Draft and terminal competitions admit nothing and record nothing; a host
\* that does not know the definition has no route for the event.
RouteClosed(h) ==
  /\ Routing(h)
  /\ ~known[h] \/ state.lifecycle \in {"draft", "finalizing", "finished", "cancelled"}
  /\ Release(h)
  /\ lost' = (lost \/ LosesAt(h))
  /\ UNCHANGED <<durable, phase, work, memory, now, creates, ran, abandoned>>

Admitting(h) ==
  /\ Routing(h) /\ known[h] /\ Owns(h)
  /\ state.lifecycle \in {"active", "paused"}

RouteDuplicate(h) ==
  /\ Admitting(h) /\ ~NewReceipt(h)
  /\ Release(h)
  /\ UNCHANGED <<durable, phase, work, memory, now, history>>

\* record_ignored_command keeps the option named, a score without an option
\* is kept as NULL; either way the event cannot become eligible later.
Unrecorded(h) == receipt[held[h].event]                              \* mutant
Tombstone(h) == IF IsVote(h) THEN Named(h) ELSE Unscored

RouteIgnored(h) ==
  /\ Admitting(h) /\ NewReceipt(h) /\ Refused(h) /\ HasRoom
  /\ receipt' = [receipt EXCEPT ![held[h].event] = Tombstone(h)]
  /\ Release(h)
  /\ UNCHANGED <<state, assigned, checkpoint, owner, result, phase, work, memory, now, history>>

\* The assignment a counted vote leaves: one more vote up to the limit, all
\* of them on the option named last.
NextAssignment(old, o) ==
  IF old = NoAssignment
  THEN [option |-> o, votes |-> 1]
  ELSE [option |-> o, votes |-> IF old.votes >= VoteLimit THEN old.votes ELSE old.votes + 1]

\* Commit of a counted vote: receipt and assignment in one transaction.
RouteVote(h) ==
  /\ Admitting(h) /\ NewReceipt(h) /\ ~Refused(h) /\ HasRoom
  /\ IsVote(h)
  /\ assigned[Sender(h)] = NoAssignment => Cardinality(Participants) < MaxParticipants
  /\ LET to == NextAssignment(assigned[Sender(h)], Named(h))
     IN /\ assigned' = [assigned EXCEPT ![Sender(h)] = to]
        /\ work' = [work EXCEPT ![h] =
                      [step |-> "reassign", from |-> assigned[Sender(h)], to |-> to]]
  /\ receipt' = [receipt EXCEPT ![held[h].event] = Named(h)]
  /\ Release(h)
  /\ UNCHANGED <<state, checkpoint, owner, result, phase, memory, now, history>>

\* Commit of a counted like, for the option its sender has at that moment.
RouteLike(h) ==
  /\ Admitting(h) /\ NewReceipt(h) /\ ~Refused(h) /\ HasRoom
  /\ ~IsVote(h)
  /\ LET o == assigned[Sender(h)].option
     IN /\ receipt' = [receipt EXCEPT ![held[h].event] = o]
        /\ work' = [work EXCEPT ![h] = [step |-> "credit", option |-> o]]
  /\ Release(h)
  /\ UNCHANGED <<state, assigned, checkpoint, owner, result, phase, memory, now, history>>

\* The transaction fails (a storage error, another owner, a full ledger or
\* participant table, a missing row) and the ranking is marked incomplete.
RouteFailed(h) ==
  /\ Routing(h) /\ known[h]
  /\ Release(h)
  /\ MarkGap(h)
  /\ lost' = (lost \/ LosesAt(h))
  /\ UNCHANGED <<durable, phase, work, engine, complete, known, rankingPaused,
                 now, creates, ran, abandoned>>

\* mark_invalid_competition_routes: an event without a usable identity only
\* counts as lost while the competition could have taken it.
RouteInvalid(h) ==
  /\ Routing(h) /\ known[h] /\ state.lifecycle # "absent"
  /\ Release(h)
  /\ IF state.lifecycle \in {"active", "paused"} /\ ~IsDue(state, now)
     THEN MarkGap(h)
     ELSE UNCHANGED degraded
  /\ lost' = (lost \/ LosesAt(h))
  /\ UNCHANGED <<durable, phase, work, engine, complete, known, rankingPaused,
                 now, creates, ran, abandoned>>

\* apply_assignment: the previous votes leave the old option and all of them,
\* with the new one, are on the option chosen now.
AddedOnly(scores, from, to) ==                                       \* mutant
  [o \in Options |->
     scores[o] + (IF to.option # o THEN 0
                  ELSE to.votes - (IF from # NoAssignment THEN from.votes ELSE 0))]
Reassigned(scores, from, to) ==
  [o \in Options |->
     scores[o] - (IF from # NoAssignment /\ from.option = o THEN from.votes ELSE 0)
               + (IF to.option = o THEN to.votes ELSE 0)]

\* Projection of a committed vote, still under the lock.  A paused ranking
\* leaves the vote out and reports nothing.
ApplyVote(h) ==
  /\ work[h].step = "reassign"
  /\ work' = [work EXCEPT ![h] = Idle]
  /\ engine' = IF rankingPaused[h] THEN engine
               ELSE [engine EXCEPT ![h] = Reassigned(engine[h], work[h].from, work[h].to)]
  /\ UNCHANGED <<durable, phase, held, degraded, complete, known, rankingPaused, now, history>>

\* Projection of a committed like.
ApplyLike(h) ==
  /\ work[h].step = "credit" /\ ~rankingPaused[h]
  /\ work' = [work EXCEPT ![h] = Idle]
  /\ engine' = [engine EXCEPT ![h][work[h].option] = @ + 1]
  /\ UNCHANGED <<durable, phase, held, degraded, complete, known, rankingPaused, now, history>>

\* The ranking rejects the committed score (capacity, overflow, too small a
\* score to move, or paused): the ledger is now ahead of the ranking.
ApplyFailed(h) ==
  /\ work[h].step \in {"reassign", "credit"}
  /\ work' = [work EXCEPT ![h] = Idle]
  /\ MarkGap(h)
  /\ UNCHANGED <<durable, phase, held, engine, complete, known, rankingPaused, now, history>>

-----------------------------------------------------------------------------
(* Control operations on the competition, under the mutation lock.         *)

Controlled(h) == phase[h] \in Serving /\ Quiet(h)

\* competition_create: the host must not know the id, no row may exist, and
\* the ranking of this host must have been reset.
AnyRanking(h) == TRUE                                                \* mutant
RankingEmpty(h) == engine[h] = NoScores

Create(h) ==
  /\ Controlled(h) /\ ~known[h] /\ state.lifecycle = "absent"
  /\ RankingEmpty(h)
  /\ creates < MaxCreates
  /\ creates' = creates + 1
  /\ state' = Draft
  /\ known' = [known EXCEPT ![h] = TRUE]
  /\ UNCHANGED <<assigned, receipt, checkpoint, owner, result, phase, work, held,
                 engine, degraded, complete, rankingPaused, now, ran, lost, abandoned>>

\* delete_competition_definition: every table scoped to the id is emptied in
\* the transaction that removes the definition.
PurgedVotes ==                                                       \* mutant
  /\ assigned' = [v \in Voters |-> NoAssignment]
  /\ receipt' = [e \in Events |-> NoReceipt]
  /\ UNCHANGED <<checkpoint, owner>>
Purged ==
  /\ assigned' = [v \in Voters |-> NoAssignment]
  /\ receipt' = [e \in Events |-> NoReceipt]
  /\ checkpoint' = "none" /\ owner' = NoHost

Delete(h) ==
  /\ Controlled(h) /\ known[h]
  /\ state.lifecycle \in {"draft", "cancelled"} /\ result = NoResult
  /\ state' = Absent
  /\ Purged
  /\ known' = [known EXCEPT ![h] = FALSE]
  /\ lost' = FALSE /\ abandoned' = FALSE /\ ran' = 0
  /\ UNCHANGED <<result, phase, work, held, engine, degraded, complete, rankingPaused,
                 now, creates>>

\* Start opens the checkpoint and takes ownership; both are plain INSERTs, so
\* rows that exist already make the transaction fail.
Start(h) ==
  /\ Controlled(h) /\ known[h] /\ ~rankingPaused[h]
  /\ CanStart(state) /\ checkpoint = "none" /\ owner = NoHost
  /\ state' = Started(state, now)
  /\ checkpoint' = "open" /\ owner' = h
  /\ ran' = 0
  /\ UNCHANGED <<assigned, receipt, result, phase, work, held, memory, now,
                 creates, lost, abandoned>>

\* Every other transition of a competition that is no longer a draft is
\* fenced by the owner row.
Transition(h, next) ==
  /\ Controlled(h)
  /\ state.lifecycle # "draft" => Owns(h)
  /\ state' = next
  /\ UNCHANGED <<assigned, receipt, checkpoint, owner, result, phase, work, held,
                 memory, now, history>>

Pause(h)  == CanPause(state, now) /\ Transition(h, Paused(state, now))
Resume(h) ==
  /\ CanResume(state) /\ known[h] /\ ~rankingPaused[h]
  /\ Transition(h, Resumed(state, now))
Cancel(h) == CanCancel(state) /\ Transition(h, Closed(state, "cancelled"))

\* Both ways to close commit the transition and go on, under the same lock,
\* to pick a winner.
Closes(h) ==
  /\ Controlled(h) /\ Owns(h)
  /\ state' = Closed(state, "finalizing")
  /\ work' = [work EXCEPT ![h] = [step |-> "finalize", manual |-> NoWinner]]
  /\ UNCHANGED <<assigned, receipt, checkpoint, owner, result, phase, held, memory, now, history>>

Finish(h) == CanFinish(state) /\ known[h] /\ Closes(h)
ExpireWithVotes(h) == CanExpire(state, now) /\ Participants # {} /\ Closes(h)   \* mutant
ExpireDue(h) == CanExpire(state, now) /\ Closes(h)

\* The deadline tick visits every finalizing competition again, and so does
\* competitions.finish.
RetryDecided(h) ==                                                   \* mutant
  /\ Controlled(h) /\ state.lifecycle = "finalizing" /\ result # NoResult
  /\ work' = [work EXCEPT ![h] = [step |-> "finalize", manual |-> NoWinner]]
  /\ UNCHANGED <<durable, phase, held, memory, now, history>>
Retry(h) ==
  /\ Controlled(h) /\ state.lifecycle = "finalizing"
  /\ work' = [work EXCEPT ![h] = [step |-> "finalize", manual |-> NoWinner]]
  /\ UNCHANGED <<durable, phase, held, memory, now, history>>

\* competitions.selectWinner
SelectWinner(h, o) ==
  /\ Controlled(h) /\ state.lifecycle = "finalizing"
  /\ work' = [work EXCEPT ![h] = [step |-> "finalize", manual |-> o]]
  /\ UNCHANGED <<durable, phase, held, memory, now, history>>

-----------------------------------------------------------------------------
(* finalize_command_poll: pick from this host's ranking, then store.       *)

\* Entries of the ranking are the options with a score; a draw takes the
\* participants from the ledger, each with weight one.
Weighed(scores) ==
  [k \in Options \union Voters |->
     IF Selection = "draw" THEN (IF k \in Participants THEN 1 ELSE 0)
                           ELSE (IF k \in Options THEN scores[k] ELSE 0)]

EligibleScores(h) ==                                                 \* mutant
  [k \in Options \union Voters |-> IF k \in Options THEN engine[h][k] ELSE 0]
Eligible(h) == Weighed(engine[h])

Candidates(weights) == {k \in Options \union Voters : weights[k] > 0}

Leaders(weights) ==
  {k \in Candidates(weights) : \A other \in Candidates(weights) : weights[k] >= weights[other]}

\* select() and select_manual(): the winners each policy may name; NoWinner
\* closes without one, and an empty set leaves the competition finalizing.
Winners(weights, manual) ==
  LET leaders == Leaders(weights)
      tied == Cardinality(leaders) >= 2
  IN CASE manual # NoWinner ->
            {k \in leaders : k = manual /\ tied /\ Selection = "highest" /\ TiePolicy = "manual"}
       [] manual = NoWinner /\ Selection # "highest" -> Candidates(weights)
       [] manual = NoWinner /\ Selection = "highest" /\ ~tied -> leaders
       [] OTHER ->
            CASE TiePolicy = "manual"    -> {}
              [] TiePolicy = "no_winner" -> {NoWinner}
              [] TiePolicy = "stable"    -> {CHOOSE k \in leaders : TRUE}
              [] TiePolicy = "random"    -> leaders

Unchecked(h) == TRUE                                                 \* mutant
Complete(h) == ~degraded[h]

EnoughParticipants == Cardinality(Participants) >= MinParticipants

\* What must hold before anything is picked.
Selectable(h) ==
  /\ known[h] /\ result = NoResult /\ state.lifecycle = "finalizing"
  /\ EnoughParticipants
  /\ Complete(h)

Select(h) ==
  /\ work[h].step = "finalize" /\ Selectable(h)
  /\ \E w \in Winners(Eligible(h), work[h].manual) :
       work' = [work EXCEPT ![h] = [step |-> "store", winner |-> w, eligible |-> Eligible(h)]]
  /\ UNCHANGED <<durable, phase, held, memory, now, history>>

\* Nothing can be picked now; a stored result is only read back.
SelectRefused(h) ==
  /\ work[h].step = "finalize"
  /\ ~Selectable(h) \/ Winners(Eligible(h), work[h].manual) = {}
  /\ work' = [work EXCEPT ![h] = Idle]
  /\ UNCHANGED <<durable, phase, held, memory, now, history>>

\* store_competition_result_once: winner and lifecycle commit together, once
\* and only for the owner of the generation.
CanStore(h) == result = NoResult /\ Owns(h) /\ state.lifecycle = "finalizing"

StoreResult(h) ==
  /\ work[h].step = "store" /\ CanStore(h)
  /\ result' = [winner |-> work[h].winner, eligible |-> work[h].eligible]
  /\ state' = Closed(state, "finished")
  /\ work' = [work EXCEPT ![h] = Idle]
  /\ UNCHANGED <<assigned, receipt, checkpoint, owner, phase, held, memory, now, history>>

\* Another host stored first or took over, or the transaction failed.
StoreRefused(h) ==
  /\ work[h].step = "store"
  /\ work' = [work EXCEPT ![h] = Idle]
  /\ UNCHANGED <<durable, phase, held, memory, now, history>>

-----------------------------------------------------------------------------
(* Control operations on the ranking.                                      *)

\* ensure_ranking_not_in_use looks at the definitions this host has loaded.
AlwaysFree(h) == TRUE                                                \* mutant
RankingFree(h) == known[h] => state.lifecycle \notin InUse \union {"absent"}

RankingReset(h) ==
  /\ Controlled(h) /\ RankingFree(h)
  /\ engine' = [engine EXCEPT ![h] = NoScores]
  /\ degraded' = [degraded EXCEPT ![h] = FALSE]
  /\ UNCHANGED <<durable, phase, work, held, complete, known, rankingPaused, now, history>>

RankingPause(h) ==
  /\ Controlled(h) /\ RankingFree(h) /\ ~rankingPaused[h]
  /\ rankingPaused' = [rankingPaused EXCEPT ![h] = TRUE]
  /\ UNCHANGED <<durable, phase, work, held, engine, degraded, complete, known, now, history>>

RankingResume(h) ==
  /\ Controlled(h) /\ rankingPaused[h]
  /\ rankingPaused' = [rankingPaused EXCEPT ![h] = FALSE]
  /\ UNCHANGED <<durable, phase, work, held, engine, degraded, complete, known, now, history>>

-----------------------------------------------------------------------------
(* Shutdown: stop_live_ingress, checkpoint_shutdown, exit; and a crash.    *)

\* Admission stops.  An event that was received but not yet queued is
\* cancelled: it was never accepted, and only spoils the clean checkpoint.
BeginDrain(h) ==
  /\ phase[h] = "up"
  /\ phase' = [phase EXCEPT ![h] = "draining"]
  /\ \E cancelled \in BOOLEAN : complete' = [complete EXCEPT ![h] = ~cancelled]
  /\ UNCHANGED <<durable, work, held, engine, degraded, known, rankingPaused, now, history>>

\* The drain deadline passes: live_ingress_stop is cancelled and nothing is
\* routed any more.
DrainTimeout(h) ==
  /\ phase[h] = "draining" /\ held[h] # NoEvent
  /\ phase' = [phase EXCEPT ![h] = "aborting"]
  /\ complete' = [complete EXCEPT ![h] = FALSE]
  /\ UNCHANGED <<durable, work, held, engine, degraded, known, rankingPaused, now, history>>

\* What is still held is given up: a queued event is counted, one already
\* waiting for the lock also marks the ranking.
Abandon(h) ==
  /\ phase[h] \in {"aborting", "saved"} /\ held[h] # NoEvent
  /\ Release(h)
  /\ \/ UNCHANGED degraded
     \/ Quiet(h) /\ MarkGap(h)
  /\ abandoned' = (abandoned \/ LosesAt(h))
  /\ UNCHANGED <<durable, phase, work, engine, complete, known, rankingPaused,
                 now, creates, ran, lost>>

\* checkpoint_shutdown, first part: what this host will say of the run.  The
\* ladder reaches it only when the worker is joined or given up.
CheckpointRead(h) ==
  /\ phase[h] = "aborting" \/ (phase[h] = "draining" /\ held[h] = NoEvent)
  /\ Quiet(h)
  /\ IF known[h] /\ state.lifecycle \in InUse
     THEN /\ work' = [work EXCEPT ![h] = [step |-> "save", clean |-> complete[h] /\ Complete(h)]]
          /\ UNCHANGED phase
     ELSE /\ phase' = [phase EXCEPT ![h] = "saved"]
          /\ UNCHANGED work
  /\ UNCHANGED <<durable, held, memory, now, history>>

\* Nobody is left who knows what this host held or had abandoned.
Gone(h) ==
  /\ lost' = (lost \/ (owner = h /\ Forgotten) \/ (held[h] # NoEvent /\ LosesAt(h)))
  /\ abandoned' = (abandoned /\ owner # h)

\* The checkpoint outlives its five second limit: shutdown() returns and the
\* writer thread is all that is left of the host.
CheckpointTimeout(h) ==
  /\ phase[h] # "leaving" /\ work[h].step = "save"
  /\ phase' = [phase EXCEPT ![h] = "leaving"]
  /\ held' = [held EXCEPT ![h] = NoEvent]
  /\ Gone(h)
  /\ UNCHANGED <<durable, work, memory, now, creates, ran>>

\* save_competition_integrity: only the owner may close an open checkpoint.
AnySaver(h) == checkpoint = "open"                                   \* mutant
MaySave(h) == Owns(h) /\ checkpoint = "open"

CheckpointSave(h) ==
  /\ phase[h] # "leaving" /\ work[h].step = "save"
  /\ phase' = [phase EXCEPT ![h] = "saved"]
  /\ work' = [work EXCEPT ![h] = Idle]
  /\ \/ MaySave(h) /\ checkpoint' = IF work[h].clean THEN "clean" ELSE "degraded"
     \/ UNCHANGED checkpoint                       \* refused, or a storage error
  /\ UNCHANGED <<state, assigned, receipt, owner, result, held, memory, now, history>>

\* The same write, after the host is gone.
LateSave(h) ==
  /\ phase[h] = "leaving" /\ work[h].step = "save" /\ MaySave(h)
  /\ checkpoint' = IF work[h].clean THEN "clean" ELSE "degraded"
  /\ work' = [work EXCEPT ![h] = Idle]
  /\ UNCHANGED <<state, assigned, receipt, owner, result, phase, held, memory, now, history>>

\* The end of a process: its memory is gone, and with it what it held.
Stop(h) ==
  /\ phase' = [phase EXCEPT ![h] = "stopped"]
  /\ work' = [work EXCEPT ![h] = Idle]
  /\ held' = [held EXCEPT ![h] = NoEvent]
  /\ engine' = [engine EXCEPT ![h] = NoScores]
  /\ degraded' = [degraded EXCEPT ![h] = FALSE]
  /\ complete' = [complete EXCEPT ![h] = TRUE]
  /\ known' = [known EXCEPT ![h] = FALSE]
  /\ rankingPaused' = [rankingPaused EXCEPT ![h] = FALSE]
  /\ Gone(h)
  /\ UNCHANGED <<durable, now, creates, ran>>

Exit(h)  == phase[h] = "saved" /\ Quiet(h) /\ Stop(h)
Crash(h) == phase[h] \notin {"off", "stopped"} /\ Stop(h)

-----------------------------------------------------------------------------
Tick ==
  /\ now < MaxTime
  /\ now' = now + 1
  /\ ran' = IF Accepting(now) THEN ran + 1 ELSE ran
  /\ UNCHANGED <<durable, phase, work, held, memory, creates, lost, abandoned>>

Boot(h)  == BootRead(h) \/ BootClaim(h) \/ BootTotals(h) \/ BootFailed(h)
Route(h) ==
  \/ RouteClosed(h) \/ RouteDuplicate(h) \/ RouteIgnored(h)
  \/ RouteVote(h) \/ RouteLike(h) \/ RouteFailed(h) \/ RouteInvalid(h)
Ingress(h) == (\E e \in Events : Receive(h, e)) \/ Lag(h) \/ Route(h)
Apply(h) == ApplyVote(h) \/ ApplyLike(h) \/ ApplyFailed(h)
Control(h) ==
  \/ Create(h) \/ Delete(h) \/ Start(h) \/ Pause(h) \/ Resume(h) \/ Cancel(h)
  \/ Finish(h) \/ ExpireDue(h) \/ Retry(h)
  \/ (\E o \in Options : SelectWinner(h, o))
Finalize(h) == Select(h) \/ SelectRefused(h) \/ StoreResult(h) \/ StoreRefused(h)
Ranking(h) == RankingReset(h) \/ RankingPause(h) \/ RankingResume(h)
Shutdown(h) ==
  \/ BeginDrain(h) \/ DrainTimeout(h) \/ Abandon(h) \/ CheckpointRead(h)
  \/ CheckpointTimeout(h) \/ CheckpointSave(h) \/ LateSave(h) \/ Exit(h) \/ Crash(h)

HostStep(h) ==
  \/ Boot(h) \/ Ingress(h) \/ Apply(h) \/ Control(h)
  \/ Finalize(h) \/ Ranking(h) \/ Shutdown(h)

Next == Tick \/ \E h \in Hosts : HostStep(h)

Spec == Init /\ [][Next]_vars

\* What the runtime owes: threads that hold the mutation lock go on, the
\* deadline loop comes back, and the lock and SQLite do not refuse the same
\* operation for ever.
Fairness ==
  /\ WF_vars(Tick)
  /\ \A h \in Hosts :
       /\ WF_vars(Apply(h)) /\ WF_vars(Select(h) \/ SelectRefused(h))
       /\ WF_vars(ExpireDue(h)) /\ SF_vars(Retry(h)) /\ SF_vars(StoreResult(h))

LiveSpec == Spec /\ Fairness


-----------------------------------------------------------------------------
(* What the program promises.                                              *)

\* A result is never published over a loss: once an event of the connection in
\* force that the competition would have counted is gone (a failed transaction,
\* a lagging receiver, a crash, a takeover), the run is degraded in memory or
\* unclean on disk, and finalize_command_poll refuses to pick a winner.
LossNeverHidden == result # NoResult => ~lost

\* A clean checkpoint is the last word of a host that has finished: while the
\* owner can still take events the checkpoint is open, and a clean one covers
\* no loss.  This is what begin_competition_recovery trusts.
CleanIsFinal ==
  checkpoint = "clean" =>
    /\ ~lost
    /\ owner \in Hosts => phase[owner] \in {"saved", "leaving", "stopped"}

\* The host the database calls owner can route to the competition and does
\* project what it commits: it knows the definition and its ranking runs.
OwnerProjects ==
  \A h \in Hosts :
    (Owns(h) /\ phase[h] \in Serving /\ state.lifecycle \in InUse)
      => known[h] /\ ~rankingPaused[h]

\* What the comment on the purge in delete_competition_definition says: a run
\* in which nothing was received yet starts from an empty ranking.
RecreationInheritsNothing ==
  \A h \in Hosts :
    (Owns(h) /\ phase[h] \in Serving /\ state.lifecycle = "active" /\ Contributions = 0)
      => engine[h] = NoScores

\* The in-memory ranking the owner decides from equals the ledger, vote by
\* vote and like by like, whenever the lock is free and nothing is degraded.
EngineMatchesLedger ==
  \A h \in Hosts :
    (Owns(h) /\ phase[h] \in Serving /\ Quiet(h) /\ ~degraded[h]
       /\ state.lifecycle \in InUse)
      => engine[h] = Ledger

\* The stored candidates are those of the ledger of this generation, and the
\* stored winner is one of them (or explicitly nobody), of enough participants.
ResultMatchesLedger ==
  result # NoResult =>
    /\ result.eligible = Weighed(Ledger)
    /\ Cardinality(Participants) >= MinParticipants
    /\ result.winner \in Candidates(result.eligible) \union {NoWinner}
    /\ (Selection = "highest" /\ result.winner # NoWinner)
         => result.winner \in Leaders(result.eligible)

\* A draft that was created, perhaps again under the id of a deleted one, has
\* no rows of an earlier run, so competitions.start can succeed.
FreshDraft ==
  state.lifecycle \in {"absent", "draft"} =>
    /\ checkpoint = "none" /\ owner = NoHost
    /\ Participants = {} /\ Contributions = 0

\* Pausing never buys or costs time: what has run and what is left add up to
\* the duration until the deadline passes.
ActiveTimeBudget ==
  Duration # NoTime =>
    /\ state.lifecycle = "paused" => (ran + state.remaining = Duration /\ ran < Duration)
    /\ state.lifecycle = "active" =>
         IF IsDue(state, now) THEN ran = Duration
                              ELSE ran + (state.deadline - now) = Duration

\* Redelivery is inert: until a deletion purges them receipts stay as they
\* are, and an assignment moves only with the first receipt of an event of its
\* own viewer.
ReplayIsInert ==
  [][ state'.lifecycle # "absent" =>
        /\ \A e \in Events : receipt[e] # NoReceipt => receipt'[e] = receipt[e]
        /\ \A v \in Voters :
             assigned'[v] # assigned[v] =>
               \E e \in Events : Voter[e] = v /\ receipt[e] = NoReceipt /\ receipt'[e] # NoReceipt
    ]_vars

\* Whatever the owner takes from its queue before the deadline either leaves
\* a receipt, so that a replay can never become eligible, or marks the
\* ranking incomplete.
SettledLeavesReceipt ==
  [][ \A h \in Hosts :
        (/\ Admitting(h) /\ ~IsDue(state, now)
         /\ held'[h] = NoEvent /\ phase'[h] = phase[h] /\ ~degraded'[h])
          => receipt'[held[h].event] # NoReceipt ]_vars

\* An event received at or after the deadline never scores, whatever pause,
\* resume or delay comes between its reception and its transaction.  Created
\* again, the id names another competition with a deadline of its own.
NoLateVote ==
  [][ \A h \in Hosts :
        (held[h] # NoEvent /\ held[h].late /\ held'[h] = NoEvent /\ creates = 1)
          => /\ assigned' = assigned
             /\ work'[h].step = "credit" => work'[h] = work[h] ]_vars

\* A decision is final: the result is written once, and the competition never
\* leaves finished.
DecisionIsFinal ==
  [][ result # NoResult => result' = result /\ state' = state ]_vars

\* A competition whose deadline passed while its owner serves does close.
DueCloses ==
  \A h \in Hosts :
    (phase[h] = "up" /\ Owns(h) /\ IsDue(state, now))
      ~> (state.lifecycle # "active" \/ phase[h] # "up")

\* A closed competition that can be decided without an operator is decided.
FinalizingFinishes ==
  \A h \in Hosts :
    (phase[h] = "up" /\ Owns(h) /\ Quiet(h) /\ Selectable(h)
       /\ Winners(Eligible(h), NoWinner) # {})
      ~> (result # NoResult \/ phase[h] # "up" \/ ~Owns(h) \/ degraded[h])

=============================================================================
