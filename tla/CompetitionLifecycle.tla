------------------------ MODULE CompetitionLifecycle ------------------------
(***************************************************************************)
(* The durable lifecycle of one competition: the record the host stores in *)
(* competition_state and the transitions LifecycleState::transition makes  *)
(* on it.  The caller supplies the clock.  Only values and operators are   *)
(* defined here; module Competition says who applies which transition.     *)
(*                                                                         *)
(* "absent" is not a value of the Rust enum: it stands for a competition   *)
(* whose row does not exist.  Lifecycle::Failed is never produced.         *)
(***************************************************************************)
EXTENDS Integers

CONSTANTS
  Duration,    \* durationMs of the definition, or NoTime when it has none
  NoTime       \* Option::None for deadline_ms, remaining_ms and durationMs

ASSUME DurationAssumption == NoTime \notin Int /\ (Duration = NoTime \/ Duration \in Nat \ {0})

Lifecycles == {"absent", "draft", "active", "paused", "finalizing",
               "finished", "cancelled"}

\* The lifecycles whose scores are at stake: a checkpoint is required and
\* the ranking may be neither reset, paused nor deleted.
InUse == {"active", "paused", "finalizing"}

LifecycleState ==
  [lifecycle : Lifecycles, generation : {0, 1},
   deadline : Int \union {NoTime}, remaining : Int \union {NoTime}]

Absent == [lifecycle |-> "absent", generation |-> 0,
           deadline |-> NoTime, remaining |-> NoTime]

\* LifecycleState::default(): what an inserted definition starts from.
Draft == [Absent EXCEPT !.lifecycle = "draft"]

\* is_due: only an active competition with a deadline is ever due.
IsDue(s, t) == s.lifecycle = "active" /\ s.deadline # NoTime /\ t >= s.deadline

-----------------------------------------------------------------------------
(* transition(): the guard of each arm, and the record it leaves.          *)

CanStart(s)     == s.lifecycle = "draft"
PauseLate(s, t) == s.lifecycle = "active"                            \* mutant
CanPause(s, t)  == s.lifecycle = "active" /\ ~IsDue(s, t)
CanResume(s)    == s.lifecycle = "paused"
CancelsAny(s)   == s.lifecycle \notin {"absent", "cancelled"}           \* mutant
CanCancel(s)    == s.lifecycle \in {"draft", "active", "paused"}
CanFinish(s)    == s.lifecycle \in {"active", "paused"}
CanExpire(s, t) == IsDue(s, t)

\* A transition never leaves the record of a time it does not use behind.
After(t, span) == IF span = NoTime THEN NoTime ELSE t + span

Started(s, t) ==
  [s EXCEPT !.lifecycle = "active", !.generation = s.generation + 1,
            !.deadline = After(t, Duration)]

Paused(s, t) ==
  [s EXCEPT !.lifecycle = "paused", !.deadline = NoTime,
            !.remaining = IF s.deadline = NoTime THEN NoTime ELSE s.deadline - t]

ResumedWhole(s, t) ==                                                \* mutant
  [s EXCEPT !.lifecycle = "active", !.deadline = After(t, Duration), !.remaining = NoTime]

Resumed(s, t) ==
  [s EXCEPT !.lifecycle = "active", !.deadline = After(t, s.remaining),
            !.remaining = NoTime]

Closed(s, lifecycle) ==
  [s EXCEPT !.lifecycle = lifecycle, !.deadline = NoTime, !.remaining = NoTime]

=============================================================================
