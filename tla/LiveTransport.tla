---------------------------- MODULE LiveTransport ----------------------------
(***************************************************************************)
(* What the LIVE client and the ingress pipeline share: the connection     *)
(* snapshot (a tokio watch channel) and the broadcast channel of stamped   *)
(* events, as its one receiver, the pump, sees it.                         *)
(***************************************************************************)
EXTENDS Integers, Sequences

CONSTANTS
  MaxGeneration,  \* bound: connection generations of a run
  ChannelSize,    \* the 512 of broadcast::channel
  MaxSent         \* bound: data events the rooms send

ASSUME TransportAssumption ==
  /\ MaxGeneration \in Nat \ {0} /\ ChannelSize \in Nat \ {0} /\ MaxSent \in Nat

VARIABLES
  snapshot,   \* ConnectionSnapshot: the generation and its state
  channel,    \* sent and not yet received by the pump, oldest first
  missed,     \* the next recv() returns Lagged
  listening,  \* the pump is subscribed
  sent        \* bound: data events sent so far

transport == <<snapshot, channel, missed, listening, sent>>

-----------------------------------------------------------------------------
States == {"idle", "connecting", "connected", "reconnecting", "disconnecting", "failed"}

\* Generation 0 is the time before the first connection.
Generations == 1 .. MaxGeneration
Snapshots   == [generation : {0} \union Generations, state : States]

\* gift: every payload classify_data_event calls critical; tick: the others.
\* notice: Reconnecting and Error, which only publish a topic.
DataKinds      == {"gift", "tick"}
LifecycleKinds == {"connected", "disconnected", "notice"}
Messages       == [generation : {0} \union Generations, kind : DataKinds \union LifecycleKinds]

Message(g, kind) == [generation |-> g, kind |-> kind]
IsData(m) == m.kind \in DataKinds

TransportTypeOK ==
  /\ snapshot \in Snapshots
  /\ channel \in Seq(Messages)
  /\ missed \in BOOLEAN /\ listening \in BOOLEAN
  /\ sent \in Nat

TransportInit ==
  /\ snapshot = [generation |-> 0, state |-> "idle"]
  /\ channel = <<>> /\ missed = FALSE /\ listening = FALSE
  /\ sent = 0

-----------------------------------------------------------------------------
(* LifecycleState: transition ignores a generation that is not current.    *)

Transition(g, state) ==
  snapshot' = IF snapshot.generation = g THEN [snapshot EXCEPT !.state = state] ELSE snapshot

Advance(state) == snapshot' = [generation |-> snapshot.generation + 1, state |-> state]

-----------------------------------------------------------------------------
(* EventSender::send.  A full channel overwrites its oldest value; without *)
(* a receiver the value is gone.                                           *)

Newest(s, n) == IF Len(s) <= n THEN s ELSE SubSeq(s, Len(s) - n + 1, Len(s))

Send(messages) ==
  IF listening
  THEN LET all == channel \o messages
       IN  /\ channel' = Newest(all, ChannelSize)
           /\ missed' = (missed \/ Len(all) > ChannelSize)
           /\ UNCHANGED listening
  ELSE UNCHANGED <<channel, missed, listening>>

\* RecvError::Lagged first, the oldest retained value after it.
Receive ==
  /\ listening /\ ~missed /\ channel # <<>>
  /\ channel' = Tail(channel)
  /\ UNCHANGED <<missed, listening>>

Lagged ==
  /\ listening /\ missed
  /\ missed' = FALSE
  /\ UNCHANGED <<channel, listening>>

Subscribe   == listening' = TRUE
Unsubscribe == listening' = FALSE /\ channel' = <<>> /\ missed' = FALSE
=============================================================================
