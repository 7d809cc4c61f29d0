---------------------------- MODULE LiveConnection ----------------------------
(***************************************************************************)
(* ConnectionOwner and the one connection task it owns at a time, with the *)
(* callers of connect and disconnect.  A replacement waits for the old     *)
(* task; one that does not end in time is kept, and the replacement is     *)
(* refused.                                                                *)
(***************************************************************************)
EXTENDS LiveTransport

CONSTANTS
  Callers,  \* who may call connect and disconnect
  Faults    \* "panic": a task may panic; "teardown": a task may outlive
            \* TEARDOWN_DEADLINE; "drop": a caller's future may be dropped

ASSUME ConnectionAssumption == Faults \subseteq {"panic", "teardown", "drop"}

VARIABLES
  task,     \* the connection task of each generation
  stop,     \* its cancellation token
  active,   \* the task the owner holds, 0 without one
  call,     \* what each caller is in
  told      \* history: the last generation whose end was announced

owner == <<task, stop, active, call, told>>

-----------------------------------------------------------------------------
\* reopening: next_message is inside its retry loop.
Alive == {"opening", "announcing", "open", "reopening"}
TaskSteps == Alive \union {"none", "exited", "panicked"}

NoCall == [step |-> "none", op |-> "connect", generation |-> 0]

ConnectionTypeOK ==
  /\ task \in [Generations -> TaskSteps] /\ stop \in [Generations -> BOOLEAN]
  /\ active \in {0} \union Generations /\ told \in {0} \union Generations
  /\ call \in [Callers -> [step : {"none", "retiring", "waiting", "telling"},
                           op : {"connect", "disconnect"},
                           generation : {0} \union Generations]]

ConnectionInit ==
  /\ task = [g \in Generations |-> "none"] /\ stop = [g \in Generations |-> FALSE]
  /\ active = 0 /\ told = 0
  /\ call = [c \in Callers |-> NoCall]

Becomes(c, step, op, g) == call' = [call EXCEPT ![c] = [step |-> step, op |-> op, generation |-> g]]
Ends(c) == call' = [call EXCEPT ![c] = NoCall]

-----------------------------------------------------------------------------
(* ConnectionOwner: connect and disconnect.                                *)

\* The mutex is held while retire waits, never during network setup.
Locked == \E c \in Callers : call[c].step = "retiring"

\* advance, then spawn: a new generation takes the owner's place.
Launch(c) ==
  LET g == snapshot.generation + 1
  IN  /\ Advance("connecting")
      /\ task' = [task EXCEPT ![g] = "opening"]
      /\ active' = g
      /\ Becomes(c, "waiting", "connect", g)

Detach(c) ==
  /\ Advance("idle")
  /\ active' = 0
  /\ Becomes(c, "telling", "disconnect", snapshot.generation + 1)
  /\ UNCHANGED task

Replace(c, op) == IF op = "connect" THEN Launch(c) ELSE Detach(c)

CanAdvance == snapshot.generation < MaxGeneration

\* The lock is free: the previous task is told to stop, or there is none.
Request(c, op) ==
  /\ call[c].step = "none" /\ ~Locked /\ CanAdvance
  /\ IF active = 0
     THEN Replace(c, op) /\ UNCHANGED stop
     ELSE /\ stop' = [stop EXCEPT ![active] = TRUE]
          /\ Transition(snapshot.generation, "disconnecting")
          /\ Becomes(c, "retiring", op, 0)
          /\ UNCHANGED <<task, active>>
  /\ UNCHANGED <<channel, missed, listening, sent, told>>

ReplacesUnended(c) ==                                                 \* mutant
  /\ call[c].step = "retiring"
  /\ Replace(c, call[c].op)
  /\ UNCHANGED <<channel, missed, listening, sent, stop, told>>
\* retire: the task ended in time.
Retired(c) ==
  /\ call[c].step = "retiring" /\ task[active] = "exited"
  /\ Replace(c, call[c].op)
  /\ UNCHANGED <<channel, missed, listening, sent, stop, told>>

RetiredPanicked(c) ==
  /\ call[c].step = "retiring" /\ task[active] = "panicked"
  /\ Transition(snapshot.generation, "failed")
  /\ active' = 0
  /\ Ends(c)
  /\ UNCHANGED <<channel, missed, listening, sent, task, stop, told>>

\* TEARDOWN_DEADLINE: the handle stays, the replacement is refused.
RetireTimeout(c) ==
  /\ "teardown" \in Faults
  /\ call[c].step = "retiring" /\ task[active] \in Alive
  /\ Transition(snapshot.generation, "failed")
  /\ Ends(c)
  /\ UNCHANGED <<channel, missed, listening, sent, task, stop, active, told>>

\* disconnect_native announces the end once the lock is free again.
Tell(c) ==
  /\ call[c].step = "telling"
  /\ Send(<<Message(call[c].generation, "disconnected")>>)
  /\ told' = call[c].generation
  /\ Ends(c)
  /\ UNCHANGED <<snapshot, sent, task, stop, active>>

\* The task answered through ready, or died without an answer.
Answered(c) ==
  /\ call[c].step = "waiting"
  /\ LET g == call[c].generation
     IN  /\ task[g] \notin {"opening", "announcing"}
         /\ IF task[g] = "panicked" THEN Transition(g, "failed") ELSE UNCHANGED snapshot
  /\ Ends(c)
  /\ UNCHANGED <<channel, missed, listening, sent, task, stop, active, told>>

\* The future of a call is dropped at whichever await it is.  The monitor's
\* connect is, but there LiveMonitor says when.
CallDropped(c) ==
  /\ "drop" \in Faults
  /\ call[c].op = "connect" /\ call[c].step \in {"retiring", "waiting"}
  /\ Ends(c)
  /\ UNCHANGED <<transport, task, stop, active, told>>

CallerStep(c) ==
  \/ Retired(c) \/ RetiredPanicked(c) \/ RetireTimeout(c)
  \/ Tell(c) \/ Answered(c) \/ CallDropped(c)

-----------------------------------------------------------------------------
(* The connection task.                                                    *)

Moves(g, from, to) ==
  /\ task[g] \in from
  /\ task' = [task EXCEPT ![g] = to]

ForgetsExit(g) == UNCHANGED snapshot                                  \* mutant
\* TaskExit, on every way out.
ExitState(g) == Transition(g, IF stop[g] THEN "idle" ELSE "failed")

\* RetryContext: one more attempt at the handshake, or at a dropped socket.
Retries(g) ==
  /\ sent < MaxSent
  /\ \/ task[g] \in {"opening", "reopening"} /\ UNCHANGED task
     \/ Moves(g, {"open"}, "reopening")
  /\ ~stop[g]
  /\ Transition(g, "reconnecting")
  /\ Send(<<Message(g, "notice")>>)
  /\ sent' = sent + 1
  /\ UNCHANGED <<stop, active, call, told>>

\* The stop is looked at once more, then connected is state and event.
Opens(g) ==
  /\ ~stop[g]
  /\ Moves(g, {"opening"}, "announcing")
  /\ UNCHANGED <<transport, stop, active, call, told>>

Announces(g) ==
  /\ Moves(g, {"announcing", "reopening"}, "open")
  /\ Transition(g, "connected")
  /\ Send(<<Message(g, "connected")>>)
  /\ UNCHANGED <<sent, stop, active, call, told>>

OpenFails(g) ==
  /\ Moves(g, {"opening"}, "exited")
  /\ ExitState(g)
  /\ Send(IF stop[g] THEN <<>> ELSE <<Message(g, "notice")>>)
  /\ UNCHANGED <<sent, stop, active, call, told>>

\* One event of a frame; a task that is no longer current ends.
Frame(g) ==
  /\ task[g] = "open" /\ sent < MaxSent
  /\ IF snapshot.generation = g
     THEN /\ \E kind \in DataKinds : Send(<<Message(g, kind)>>)
          /\ sent' = sent + 1
          /\ UNCHANGED <<snapshot, task>>
     ELSE /\ task' = [task EXCEPT ![g] = "exited"]
          /\ UNCHANGED transport
  /\ UNCHANGED <<stop, active, call, told>>

EndsSilently(g) ==                                                    \* mutant
  /\ Moves(g, {"open", "reopening"}, "exited")
  /\ ExitState(g)
  /\ Send(<<Message(g, "notice")>>)
  /\ told' = g
  /\ UNCHANGED <<sent, stop, active, call>>
\* The stream closed, or the retries are used up.
TransportEnds(g) ==
  /\ Moves(g, {"open", "reopening"}, "exited")
  /\ ExitState(g)
  /\ \E error \in {<<>>, <<Message(g, "notice")>>} :
       Send(error \o <<Message(g, "disconnected")>>)
  /\ told' = g
  /\ UNCHANGED <<sent, stop, active, call>>

\* The socket is closed within 3 s or released with an error; in neither
\* case is an end announced.
StopSeen(g) ==
  /\ stop[g]
  /\ Moves(g, {"open", "reopening"}, "exited")
  /\ ExitState(g)
  /\ \E error \in {<<>>, <<Message(g, "notice")>>} : Send(error)
  /\ UNCHANGED <<sent, stop, active, call, told>>

TaskPanics(g) ==
  /\ "panic" \in Faults
  /\ Moves(g, Alive, "panicked")
  /\ ExitState(g)
  /\ UNCHANGED <<channel, missed, listening, sent, stop, active, call, told>>

TaskStep(g) ==
  \/ Retries(g) \/ Opens(g) \/ Announces(g) \/ OpenFails(g) \/ Frame(g)
  \/ TransportEnds(g) \/ StopSeen(g) \/ TaskPanics(g)

\* What a task does in the end, whatever the network does.
TaskEnds(g) == Opens(g) \/ OpenFails(g) \/ Announces(g) \/ StopSeen(g)

ConnectionStep ==
  \/ \E c \in Callers : CallerStep(c)
  \/ \E g \in Generations : TaskStep(g)

-----------------------------------------------------------------------------
\* "Replacement waits for cancellation to complete": never two live tasks, in
\* spite of deadlines, panics and dropped callers, and the live one is owned.
OneConnection ==
  \A g \in Generations : task[g] \in Alive => g = active

\* The snapshot reports a connection only while its task is alive, and idle
\* only without one, whichever of task, owner and caller wrote it last.
SnapshotHonest ==
  /\ snapshot.state \in {"connecting", "connected", "reconnecting"} =>
       /\ snapshot.generation = active
       /\ task[active] \in Alive
  /\ snapshot.state = "idle" => active = 0 \/ task[active] \notin Alive
=============================================================================
