----------------------------- MODULE MCPipeline -----------------------------
(***************************************************************************)
(* A small instance of LivePipeline.  The counters only record a history   *)
(* and the persistence loop only decides their values, and only the ladder *)
(* asks which handles are stored, so states that differ in nothing else    *)
(* are explored once.                                                      *)
(***************************************************************************)
EXTENDS LivePipeline, TLC

CallerSymmetry == Permutations(Callers)

\* Shutdown is explored by the runs of LiveIngress.
BeforeShutdown == ~admission

\* What happens after a lag is not constrained by the properties.
InStep == ~missed

\* Nor what happens when a connection is under way before the subscription.
FromTheStart == ~early

WithoutCounters ==
  <<snapshot, channel, missed, listening, sent, owner, admission, starter = "no", pump, queue,
    dispatch, session, early, stats.lagged>>
=============================================================================
