----------------------------- MODULE LivePipeline -----------------------------
(***************************************************************************)
(* The real connection in front of the ingress pipeline: which creator the *)
(* application thinks it is connected to, and whom events are credited to, *)
(* while rooms are switched, dropped and reopened.                         *)
(***************************************************************************)
EXTENDS LiveConnection, LiveIngress

VARIABLE early  \* history: the pump subscribed beside a connection under way

everything == <<transport, owner, ingressVars, early>>

-----------------------------------------------------------------------------
\* live_connect starts the pump before the connection; one that finds it being
\* started by another goes on, perhaps before the subscription.
Connects(c) ==
  /\ starter # "no" \/ admission
  /\ Request(c, "connect")

Disconnects(c) == Request(c, "disconnect")

PipelineInit == TransportInit /\ ConnectionInit /\ IngressInit /\ early = FALSE

PipelineNext ==
  \/ /\ ConnectionStep \/ \E c \in Callers : Connects(c) \/ Disconnects(c)
     /\ UNCHANGED <<ingressVars, early>>
  \/ /\ IngressStep
     /\ early' = (early \/ (SpawnTasks /\ snapshot.state # "idle"))
     /\ UNCHANGED owner

PipelineSpec == PipelineInit /\ [][PipelineNext]_everything

-----------------------------------------------------------------------------
\* The pump listened from the first connection on and never lagged; it and the
\* worker are at work.
Undisturbed ==
  /\ pump.step # "off" /\ ~early /\ stats.lagged = 0
  /\ ladder = "running" /\ dispatch.step # "dead"

\* Everything sent has been handled, and no call or handshake is under way.
Settled ==
  /\ channel = <<>> /\ pump.step = "receiving" /\ queue = <<>> /\ dispatch.step = "receiving"
  /\ \A c \in Callers : call[c] = NoCall
  /\ \A g \in Generations : task[g] \notin {"opening", "announcing", "reopening"}

\* "The original connection context is captured ... so a room switch cannot
\* reattribute": while nothing lags, events go to their own connection only.
CreditedToOwn ==
  Undisturbed => \A c \in credited : c.generation = c.context

\* Once settled, the context and the published topics agree with the transport:
\* a live connection is the context; an announced end left none.
SettledAgrees ==
  Undisturbed /\ Settled =>
    /\ snapshot.state = "connected" => context = snapshot.generation /\ topic = context
    /\ told = snapshot.generation => context = 0 /\ topic = 0
=============================================================================
