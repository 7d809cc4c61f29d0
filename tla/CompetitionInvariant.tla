------------------------ MODULE CompetitionInvariant ------------------------
(***************************************************************************)
(* The inductive strengthening of LossNeverHidden.  A loss is followed     *)
(* from the moment it happens to the only step that could hide it: it is   *)
(* in the memory of the owner (degraded), or in the checkpoint the owner   *)
(* never closed as clean, or in the verdict a booting host has just read.  *)
(***************************************************************************)
EXTENDS Competition

\* The generation is 1 from the start to the end of the row.
GenerationInv ==
  /\ state.lifecycle \in {"absent", "draft"} => state.generation = 0
  /\ state.lifecycle \in InUse \union {"finished"} => state.generation = 1

\* Nothing is lost before the start; a result exists only when finished.
StageInv ==
  /\ state.lifecycle \in {"absent", "draft"} => ~lost /\ ~abandoned
  /\ result # NoResult => state.lifecycle = "finished"

\* Which work goes with which phase.
WorkInv ==
  \A h \in Hosts :
    /\ phase[h] = "booting" <=> work[h].step \in {"claim", "totals"}
    /\ phase[h] \in {"off", "stopped"} => work[h] = Idle
    /\ work[h].step \in {"reassign", "credit", "finalize", "store"} => phase[h] \in Serving
    /\ work[h].step = "save" => phase[h] \in {"draining", "aborting", "leaving"}

\* Memory of a host that does not serve yet is untouched, and a host owns
\* nothing before its claim.
BootInv ==
  \A h \in Hosts :
    phase[h] \in {"off", "booting"} =>
      /\ held[h] = NoEvent /\ ~rankingPaused[h] /\ complete[h]
      /\ phase[h] = "off" \/ work[h].step = "claim" => owner # h

\* The shutdown ladder gives events up only after it has stopped the worker.
LadderInv ==
  /\ \A h \in Hosts :
       /\ phase[h] = "aborting" => ~complete[h]
       /\ phase[h] = "draining" /\ work[h].step = "save" => held[h] = NoEvent
       /\ phase[h] = "saved" /\ held[h] # NoEvent => ~complete[h]
       /\ phase[h] \in {"leaving", "stopped"} => held[h] = NoEvent
  /\ abandoned =>
       \E h \in Hosts : owner = h /\ ~complete[h] /\ phase[h] \in {"aborting", "saved"}

\* A loss is in the memory of an owner that serves.
MemoryInv ==
  \A h \in Hosts :
    (Owns(h) /\ phase[h] \in Serving /\ state.lifecycle \in InUse /\ lost) => degraded[h]

\* A host that has read a clean checkpoint restores a run without a loss.
ClaimInv ==
  \A h \in Hosts :
    (work[h].step = "totals" /\ work[h].clean /\ owner = h) => ~lost

\* A host about to close its checkpoint as clean has nothing left to lose.
SaveInv ==
  \A h \in Hosts :
    (work[h].step = "save" /\ work[h].clean) =>
      /\ held[h] = NoEvent /\ complete[h]
      /\ owner = h => ~lost /\ ~abandoned

\* A clean checkpoint covers no loss and its owner can cause none.
CleanInv ==
  checkpoint = "clean" =>
    /\ ~lost /\ ~abandoned
    /\ \A h \in Hosts :
         owner = h => phase[h] \in {"saved", "leaving", "stopped"} /\ held[h] = NoEvent

\* The owner that has picked a winner picked it over no loss.
StoreInv ==
  \A h \in Hosts :
    (work[h].step = "store" /\ Owns(h) /\ state.lifecycle = "finalizing") => ~lost

\* Every loss of the owner, wherever the run stands, is visible to whoever
\* decides; together the parts are preserved by every step.
Inv ==
  /\ TypeOK /\ GenerationInv /\ StageInv /\ WorkInv /\ BootInv /\ LadderInv
  /\ OwnerProjects /\ MemoryInv /\ ClaimInv /\ SaveInv /\ CleanInv /\ StoreInv
  /\ LossNeverHidden

\* A run with a duration always knows how much of it is left, in the field
\* that belongs to its lifecycle.
BudgetInv ==
  Duration # NoTime =>
    /\ state.lifecycle = "paused" => state.remaining # NoTime
    /\ state.lifecycle = "active" => state.deadline # NoTime
    /\ ActiveTimeBudget
=============================================================================
