---------------------------- MODULE WinnerAction ----------------------------
(***************************************************************************)
(* What the outbox promises about the action of a winner, without hosts,   *)
(* workers or failures: each committed result gives out at most one permit *)
(* to run its action, a permit is used at most once, and what the worker   *)
(* records agrees with whether the action was run.  Nothing ever puts an   *)
(* action back.                                                            *)
(***************************************************************************)
EXTENDS Naturals

CONSTANT Items      \* the results whose definition names an action

VARIABLES
  status,           \* the public status of each action
  effects,          \* how often the automation runtime was given it
  permits           \* actions that a worker may still run

vars == <<status, effects, permits>>

Init ==
  /\ status = [i \in Items |-> "none"]
  /\ effects = [i \in Items |-> 0]
  /\ permits = {}

Commit(i) ==
  /\ status[i] = "none"
  /\ status' = [status EXCEPT ![i] = "pending"]
  /\ UNCHANGED <<effects, permits>>

\* The claimer may be gone before it learns that it has the permit.
Claim(i) ==
  /\ status[i] = "pending"
  /\ status' = [status EXCEPT ![i] = "running"]
  /\ permits' \in {permits, permits \union {i}}
  /\ UNCHANGED effects

\* A row that cannot be read is settled without a claim.
Reject(i) ==
  /\ status[i] = "pending"
  /\ status' = [status EXCEPT ![i] = "failed"]
  /\ UNCHANGED <<effects, permits>>

Run(i) ==
  /\ i \in permits
  /\ permits' = permits \ {i}
  /\ effects' = [effects EXCEPT ![i] = @ + 1]
  /\ UNCHANGED status

Drop(i) ==
  /\ i \in permits
  /\ permits' = permits \ {i}
  /\ UNCHANGED <<status, effects>>

\* Success is recorded only of an action that was run, failure only of one
\* that was not and never will be; anything else is uncertain.
Settle(i, verdict) ==
  /\ status[i] = "running"
  /\ verdict = "completed" => effects[i] = 1
  /\ verdict = "failed" => effects[i] = 0 /\ i \notin permits
  /\ status' = [status EXCEPT ![i] = verdict]
  /\ UNCHANGED <<effects, permits>>

Disown ==
  /\ status' = [i \in Items |-> IF status[i] = "running" THEN "uncertain" ELSE status[i]]
  /\ UNCHANGED <<effects, permits>>

Resolve(i, verdict) ==
  /\ status[i] = "uncertain" /\ verdict # "uncertain"
  /\ status' = [status EXCEPT ![i] = verdict]
  /\ UNCHANGED <<effects, permits>>

Next ==
  \/ Disown
  \/ \E i \in Items :
       \/ Commit(i) \/ Claim(i) \/ Reject(i) \/ Run(i) \/ Drop(i)
       \/ \E verdict \in {"completed", "failed", "uncertain"} :
            Settle(i, verdict) \/ Resolve(i, verdict)

Spec == Init /\ [][Next]_vars
=============================================================================
