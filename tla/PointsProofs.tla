----------------------------- MODULE PointsProofs -----------------------------
(***************************************************************************)
(* Proofs about PointsWriter for any callers, viewers, sizes, faults and   *)
(* number of operations: no write the queue has taken goes missing, the    *)
(* watermarks mean what their readers take them to mean, the balances on   *)
(* disk and in the cache are the sum of what was asked, and an award has   *)
(* one transaction row.                                                    *)
(***************************************************************************)
EXTENDS PointsWriter, SequenceTheorems, FiniteSetTheorems, TLAPS

-----------------------------------------------------------------------------
(* The tickets: the inductive invariant of the queue and its watermarks,   *)
(* which says nothing of what a row is.                                    *)

\* Operations the queue has taken and the writer has not finished, in order.
Batch == writer.batch
Line == Batch \o queue

Done == applied \union failed

\* How many operations the writer has finished.
Finished == admitted - Len(Line)

Holding == {c \in Callers : call[c].at = "submit"}

Fields == {"at", "op", "viewers", "n", "row", "raced"}

Shape ==
  /\ queue \in Seq(Range(queue))
  /\ writer \in [at : {"idle", "batch", "single", "commit", "resolve", "stopped"},
                 batch : Seq(Range(Batch)), last : Nat, failed : Nat]
  /\ DOMAIN call = Callers
  /\ \A c \in Callers : DOMAIN call[c] = Fields
  /\ admitted \in Nat /\ resolved \in Nat /\ committed \in Nat /\ next_op \in Nat \ {0}
  /\ ordered \in BOOLEAN /\ closed \in BOOLEAN /\ joined \in BOOLEAN

\* Where the writer is tells what it holds, and the order of the shutdown.
WriterHolds ==
  /\ writer.at \in {"idle", "commit", "resolve", "stopped"} <=> Batch = <<>>
  /\ Batch # <<>> => writer.last = Batch[Len(Batch)].seq
  /\ writer.at = "batch" => writer.failed = 0
  /\ writer.at = "stopped" => closed /\ queue = <<>>
  /\ joined => writer.at = "stopped"

\* A sequence is given out once: it is with a caller, in the line or done.
OneTicket ==
  /\ \A c \in Holding : call[c].n \in 1 .. next_op - 1
  /\ \A c, d \in Holding : call[c].n = call[d].n => c = d
  /\ \A i \in DOMAIN Line :
       /\ Line[i].seq \in 1 .. next_op - 1
       /\ \A c \in Holding : call[c].n # Line[i].seq
       /\ \A j \in DOMAIN Line : Line[i].seq = Line[j].seq => i = j
  /\ \A op \in Done :
       /\ op.seq \in 1 .. next_op - 1
       /\ \A c \in Holding : call[c].n # op.seq
       /\ \A i \in DOMAIN Line : Line[i].seq # op.seq

\* The ledger of EveryWriteAccounted, and what its sum needs.
Counted ==
  /\ IsFiniteSet(applied) /\ IsFiniteSet(failed) /\ applied \cap failed = {}
  /\ admitted = Len(queue) + Len(Batch) + Cardinality(applied) + Cardinality(failed)

\* With the queue in the order of the sequences, positions are sequences.
InOrder ==
  ordered =>
    /\ admitted < next_op
    /\ \A c \in Holding : call[c].n > admitted
    /\ ~closed => \A s \in admitted + 1 .. next_op - 1 : \E c \in Holding : call[c].n = s
    /\ \A i \in DOMAIN Line : Line[i].seq = Finished + i
    /\ \A s \in 1 .. Finished : \E op \in Done : op.seq = s
    /\ resolved <= Finished /\ committed <= Finished
    /\ writer.at \in {"single", "commit", "resolve"} => writer.failed <= Finished
    /\ writer.at \in {"commit", "resolve"} => writer.last = Finished

PointsInv == Shape /\ WriterHolds /\ OneTicket /\ Counted /\ InOrder

-----------------------------------------------------------------------------
(* What the callers' actions do to the tickets.                            *)

\* Nothing the invariant speaks of changes but the calls that hold no ticket.
CallsKeep ==
  /\ DOMAIN call' = Callers
  /\ \A c \in Callers : DOMAIN call'[c] = Fields
  /\ Holding' = Holding
  /\ \A c \in Holding : call'[c].n = call[c].n

Quietly ==
  /\ CallsKeep
  /\ UNCHANGED <<queue, writer, admitted, resolved, committed, joined, next_op,
                 closed, ordered, applied, failed>>

\* Marking a call as raced touches neither its place nor its ticket
\* (points.rs, the unlocked windows of award_points, adjust and viewer).
LEMMA RacesKeep ==
  ASSUME NEW c, NEW touched, NEW calls,
         DOMAIN calls = Callers, \A d \in Callers : DOMAIN calls[d] = Fields
  PROVE  LET after == Races(c, touched, calls)
         IN  /\ DOMAIN after = Callers
             /\ \A d \in Callers : /\ DOMAIN after[d] = Fields
                                   /\ after[d].at = calls[d].at
                                   /\ after[d].n = calls[d].n
BY DEF Races, Fields

\* A call that goes elsewhere than to its submission, from elsewhere.
LEMMA GoesKeeps ==
  ASSUME Shape, NEW c \in Callers, call[c].at # "submit",
         DOMAIN call' = Callers,
         \A d \in Callers : DOMAIN call'[d] = Fields,
         call'[c].at # "submit",
         \A d \in Callers \ {c} : call'[d].at = call[d].at /\ call'[d].n = call[d].n
  PROVE  CallsKeep
BY DEF CallsKeep, Holding, Shape

LEMMA QuietSteps ==
  ASSUME Shape, NEW c \in Callers,
         \/ \E op \in {"view", "award", "adjust"}, v \in Viewers : Begin(c, op, v)
         \/ \E kind \in {"reset", "clear"}, vs \in SUBSET Viewers : BeginReset(c, kind, vs)
         \/ ReadPending(c) \/ Load(c) \/ Promote(c)
         \/ AdjustUnknown(c) \/ AwaitSlot(c) \/ Reject(c)
  PROVE  Quietly
<1>1. ASSUME NEW op \in {"view", "award", "adjust"}, NEW v \in Viewers, Begin(c, op, v)
      PROVE  Quietly
  <2>1. call[c].at # "submit" /\ call'[c].at # "submit" /\ DOMAIN call' = Callers
    BY <1>1 DEF Begin, Shape, NoCall
  <2>2. ASSUME NEW d \in Callers
        PROVE  /\ DOMAIN call'[d] = Fields
               /\ d # c => call'[d].at = call[d].at /\ call'[d].n = call[d].n
    BY <1>1 DEF Begin, Shape, NoCall, Fields
  <2>3. CallsKeep  BY <2>1, <2>2, GoesKeeps
  <2> QED BY <1>1, <2>3 DEF Begin, Quietly, disk, memory, admission, marks, history
<1>2. ASSUME NEW kind \in {"reset", "clear"}, NEW vs \in SUBSET Viewers, BeginReset(c, kind, vs)
      PROVE  Quietly
  <2>1. call[c].at # "submit" /\ call'[c].at # "submit" /\ DOMAIN call' = Callers
    BY <1>2 DEF BeginReset, Shape, NoCall
  <2>2. ASSUME NEW d \in Callers
        PROVE  /\ DOMAIN call'[d] = Fields
               /\ d # c => call'[d].at = call[d].at /\ call'[d].n = call[d].n
    BY <1>2 DEF BeginReset, Shape, NoCall, Fields
  <2>3. CallsKeep  BY <2>1, <2>2, GoesKeeps
  <2> QED BY <1>2, <2>3 DEF BeginReset, Quietly, disk, memory, admission, marks, history
<1>3. CASE ReadPending(c)
  BY <1>3, GoesKeeps DEF ReadPending, Goes, Quietly, Shape, Fields, NoCall, disk, memory, admission, marks, history
<1>4. CASE Load(c)
  <2>1. \/ call' = [call EXCEPT ![c] = NoCall]
        \/ \E at \in {"mutate", "promote"} : \E row, raced :
             call' = [call EXCEPT ![c] = [@ EXCEPT !.at = at, !.row = row, !.n = 0, !.raced = raced]]
    BY <1>4, Zenon DEF Load, Idle
  <2>2. ASSUME NEW at \in {"mutate", "promote"},
               \E row, raced : call' = [call EXCEPT ![c] = [@ EXCEPT !.at = at, !.row = row, !.n = 0, !.raced = raced]]
        PROVE  CallsKeep
    <3>0. PICK row, raced : call' = [call EXCEPT ![c] = [@ EXCEPT !.at = at, !.row = row, !.n = 0, !.raced = raced]]
      BY <2>2
    <3> DEFINE step == [call[c] EXCEPT !.at = at, !.row = row, !.n = 0, !.raced = raced]
    <3>1. DOMAIN step = Fields /\ step.at = at
      BY DEF Shape, Fields
    <3>2. call' = [call EXCEPT ![c] = step]
      BY <3>0
    <3> HIDE DEF step
    <3>3. /\ DOMAIN call' = Callers /\ call'[c] = step
          /\ \A d \in Callers \ {c} : call'[d] = call[d]
      BY <3>2 DEF Shape
    <3> QED BY <1>4, <3>1, <3>3, GoesKeeps DEF Load, Shape
  <2>3. ASSUME call' = [call EXCEPT ![c] = NoCall]  PROVE  CallsKeep
    <3>1. call[c].at # "submit" /\ call'[c].at # "submit" /\ DOMAIN call' = Callers
      BY <1>4, <2>3 DEF Load, Shape, NoCall
    <3>2. /\ \A d \in Callers : DOMAIN call'[d] = Fields
          /\ \A d \in Callers \ {c} : call'[d].at = call[d].at /\ call'[d].n = call[d].n
      BY <2>3 DEF Shape, NoCall, Fields
    <3> QED BY <3>1, <3>2, GoesKeeps
  <2>4. CallsKeep  BY <2>1, <2>2, <2>3
  <2> QED BY <1>4, <2>4 DEF Load, Quietly, disk, memory, admission, marks, history
<1>5. CASE Promote(c)
  <2> DEFINE mid == IF call[c].op = "view" THEN [call EXCEPT ![c] = NoCall]
                    ELSE [Goes(c, "mutate") EXCEPT ![c].row = NoRow]
  <2>1. call[c].at = "promote" /\ DOMAIN mid = Callers /\ mid[c].at # "submit"
    BY <1>5 DEF Promote, Goes, Shape, NoCall
  <2>2. ASSUME NEW d \in Callers
        PROVE  /\ DOMAIN mid[d] = Fields
               /\ d # c => mid[d].at = call[d].at /\ mid[d].n = call[d].n
    BY DEF Goes, Shape, NoCall, Fields
  <2>3. call' = mid \/ \E touched : call' = Races(c, touched, mid)
    BY <1>5 DEF Promote
  <2>4. /\ DOMAIN call' = Callers
        /\ \A d \in Callers : DOMAIN call'[d] = Fields /\ call'[d].at = mid[d].at /\ call'[d].n = mid[d].n
    <3> HIDE DEF mid
    <3> QED BY <2>1, <2>2, <2>3, RacesKeep
  <2>5. CallsKeep
    <3> HIDE DEF mid
    <3> QED BY <2>1, <2>2, <2>4, GoesKeeps
  <2> QED BY <1>5, <2>5 DEF Promote, Quietly, disk, memory, admission, marks, history
<1>6. CASE AdjustUnknown(c)
  BY <1>6, GoesKeeps DEF AdjustUnknown, Idle, Quietly, Shape, Fields, NoCall, disk, memory, admission, marks, history
<1>7. CASE AwaitSlot(c)
  BY <1>7, GoesKeeps DEF AwaitSlot, Goes, Quietly, Shape, Fields, NoCall, disk, memory, admission, marks, history
<1>8. CASE Reject(c)
  BY <1>8, GoesKeeps DEF Reject, InSection, Idle, Quietly, Shape, Fields, NoCall, disk, memory, admission, marks, history
<1> QED BY <1>1, <1>2, <1>3, <1>4, <1>5, <1>6, <1>7, <1>8

-----------------------------------------------------------------------------
(* The line.                                                               *)

LEMMA JoinShape ==
  ASSUME NEW b, NEW q, b \in Seq(Range(b)), q \in Seq(Range(q))
  PROVE  /\ b \o q \in Seq(Range(b) \union Range(q))
         /\ Len(b \o q) = Len(b) + Len(q) /\ Len(b) \in Nat /\ Len(q) \in Nat
         /\ DOMAIN (b \o q) = 1 .. Len(b \o q)
         /\ \A i \in 1 .. Len(b \o q) : (b \o q)[i] = IF i <= Len(b) THEN b[i] ELSE q[i - Len(b)]
<1> DEFINE S == Range(b) \union Range(q)
<1>1. b \in Seq(S) /\ q \in Seq(S)
  BY SeqMonotonic
<1> QED BY <1>1, ConcatProperties, LenProperties

LEMMA LineShape ==
  ASSUME Shape
  PROVE  /\ Line \in Seq(Range(Batch) \union Range(queue))
         /\ Len(Line) = Len(Batch) + Len(queue)
         /\ Len(Batch) \in Nat /\ Len(queue) \in Nat
         /\ DOMAIN Line = 1 .. Len(Line)
         /\ \A i \in 1 .. Len(Line) :
              Line[i] = IF i <= Len(Batch) THEN Batch[i]
                        ELSE queue[i - Len(Batch)]
BY JoinShape DEF Line, Batch, Shape

\* A sequence over some set is one over its own elements.
LEMMA OwnRange ==
  ASSUME NEW S, NEW s \in Seq(S)
  PROVE  /\ s \in Seq(Range(s)) /\ Len(s) \in Nat /\ DOMAIN s = 1 .. Len(s)
         /\ \A x : x \in Range(s) <=> \E i \in 1 .. Len(s) : s[i] = x
BY LenProperties, IsASeq DEF Range

-----------------------------------------------------------------------------
(* The steps, one lemma each.                                              *)

LEMMA QuietKeeps ==
  ASSUME PointsInv, Quietly  PROVE  PointsInv'
<1>1. Line' = Line /\ Finished' = Finished /\ Done' = Done
  BY DEF Quietly, Line, Batch, Finished, Done
<1>2. Shape'  BY DEF Quietly, CallsKeep, PointsInv, Shape, Batch
<1>3. WriterHolds'  BY DEF Quietly, PointsInv, WriterHolds, Batch
<1>4. OneTicket'  BY <1>1 DEF Quietly, CallsKeep, PointsInv, OneTicket
<1>5. Counted'  BY DEF Quietly, PointsInv, Counted, Batch
<1>6. InOrder'  BY <1>1 DEF Quietly, CallsKeep, PointsInv, InOrder
<1> QED BY <1>2, <1>3, <1>4, <1>5, <1>6 DEF PointsInv

\* Mutate takes the next sequence and nothing else the invariant speaks of.
Takes(c) ==
  /\ ~closed
  /\ DOMAIN call' = Callers
  /\ \A d \in Callers : DOMAIN call'[d] = Fields
  /\ c \notin Holding /\ Holding' = Holding \union {c}
  /\ call'[c].n = next_op /\ \A d \in Holding : call'[d].n = call[d].n
  /\ next_op' = next_op + 1
  /\ UNCHANGED <<queue, writer, admitted, resolved, committed, joined, closed,
                 ordered, applied, failed>>

LEMMA MutateTakes ==
  ASSUME Shape, NEW c \in Callers, Mutate(c)  PROVE  Takes(c)
<1> DEFINE step(row) == [Goes(c, "submit") EXCEPT ![c].n = next_op, ![c].row = row, ![c].raced = FALSE]
<1>1. \E touched, row : call' = Races(c, touched, step(row))
  BY Zenon DEF Mutate
<1>2. PICK touched, row : call' = Races(c, touched, step(row))
  BY <1>1
<1>3. /\ DOMAIN step(row) = Callers /\ step(row)[c].at = "submit" /\ step(row)[c].n = next_op
      /\ \A d \in Callers : DOMAIN step(row)[d] = Fields
      /\ \A d \in Callers \ {c} : step(row)[d] = call[d]
  BY DEF Goes, Shape, Fields
<1> HIDE DEF step
<1>4. /\ DOMAIN call' = Callers
      /\ \A d \in Callers : DOMAIN call'[d] = Fields
      /\ call'[c].at = "submit" /\ call'[c].n = next_op
      /\ \A d \in Callers \ {c} : call'[d].at = call[d].at /\ call'[d].n = call[d].n
  BY <1>2, <1>3, RacesKeep
<1>5. ~closed /\ call[c].at # "submit"
  BY DEF Mutate, InSection
<1>6. c \notin Holding /\ Holding' = Holding \union {c} /\ \A d \in Holding : call'[d].n = call[d].n
  BY <1>4, <1>5 DEF Holding
<1> QED BY <1>4, <1>5, <1>6 DEF Mutate, Takes, admission, marks

\* Submit hands in the ticket of the caller, Reset a new one.
HandsIn(c, op) ==
  /\ Push(c, op)
  /\ DOMAIN call' = Callers
  /\ \A d \in Callers : DOMAIN call'[d] = Fields
  /\ Holding' = Holding \ {c} /\ \A d \in Holding' : call'[d].n = call[d].n
  /\ \/ c \in Holding /\ op.seq = call[c].n /\ next_op' = next_op
     \/ c \notin Holding /\ op.seq = next_op /\ next_op' = next_op + 1
  /\ UNCHANGED <<writer, resolved, committed, joined, applied, failed>>

LEMMA SubmitHandsIn ==
  ASSUME Shape, NEW c \in Callers, Submit(c)  PROVE  \E op : HandsIn(c, op)
<1> DEFINE op == [seq |-> call[c].n, kind |-> IF call[c].op = "award" THEN "save" ELSE "adjust",
                  viewers |-> call[c].viewers, points |-> call[c].row]
<1>1. Push(c, op) /\ call[c].at = "submit" /\ call' = [call EXCEPT ![c] = NoCall]
      /\ UNCHANGED <<writer, resolved, committed, joined, applied, failed, next_op>>
  BY DEF Submit, Idle, marks, memory
<1>2. op.seq = call[c].n  OBVIOUS
<1> HIDE DEF op
<1>3. DOMAIN call' = Callers /\ call'[c].at # "submit" /\ DOMAIN call'[c] = Fields
      /\ \A d \in Callers \ {c} : call'[d] = call[d]
  BY <1>1 DEF Shape, NoCall, Fields
<1>4. c \in Holding /\ Holding' = Holding \ {c} /\ \A d \in Holding' : call'[d].n = call[d].n
  BY <1>1, <1>3 DEF Holding
<1>5. \A d \in Callers : DOMAIN call'[d] = Fields
  BY <1>3 DEF Shape
<1>6. HandsIn(c, op)  BY <1>1, <1>2, <1>3, <1>4, <1>5 DEF HandsIn
<1> QED BY <1>6

LEMMA ResetHandsIn ==
  ASSUME Shape, NEW c \in Callers, Reset(c)  PROVE  \E op : HandsIn(c, op)
<1> DEFINE op == [seq |-> next_op, kind |-> call[c].op, viewers |-> call[c].viewers, points |-> 0]
           step == [call EXCEPT ![c] = NoCall]
<1>1. Push(c, op) /\ call[c].at = "reset" /\ call' = Races(c, Touched(call[c].viewers), step)
      /\ next_op' = next_op + 1
      /\ UNCHANGED <<writer, resolved, committed, joined, applied, failed>>
  BY DEF Reset, marks
<1>2. op.seq = next_op  OBVIOUS
<1>3. DOMAIN step = Callers /\ step[c].at # "submit" /\ DOMAIN step[c] = Fields
      /\ \A d \in Callers \ {c} : step[d] = call[d]
  BY DEF Shape, NoCall, Fields
<1> HIDE DEF op, step
<1>4. \A d \in Callers : DOMAIN step[d] = Fields
  BY <1>3 DEF Shape
<1>5. /\ DOMAIN call' = Callers /\ call'[c].at # "submit"
      /\ \A d \in Callers : DOMAIN call'[d] = Fields
      /\ \A d \in Callers \ {c} : call'[d].at = call[d].at /\ call'[d].n = call[d].n
  BY <1>1, <1>3, <1>4, RacesKeep
<1>6. c \notin Holding /\ Holding' = Holding \ {c} /\ \A d \in Holding' : call'[d].n = call[d].n
  BY <1>1, <1>5 DEF Holding
<1>7. HandsIn(c, op)  BY <1>1, <1>2, <1>5, <1>6 DEF HandsIn
<1> QED BY <1>7

LEMMA TakesKeeps ==
  ASSUME PointsInv, NEW c \in Callers, Takes(c)  PROVE  PointsInv'
<1>1. Line' = Line /\ Finished' = Finished /\ Done' = Done
  BY DEF Takes, Line, Batch, Finished, Done
<1>2. Shape'  BY DEF Takes, PointsInv, Shape, Batch
<1>3. WriterHolds'  BY DEF Takes, PointsInv, WriterHolds, Batch
<1>4. OneTicket'
  <2>1. next_op \in Nat \ {0}  BY DEF PointsInv, Shape
  <2>2. \A d \in Holding' : IF d = c THEN call'[d].n = next_op ELSE d \in Holding /\ call'[d].n = call[d].n
    BY DEF Takes
  <2> QED BY <1>1, <2>1, <2>2 DEF Takes, PointsInv, OneTicket
<1>5. Counted'  BY DEF Takes, PointsInv, Counted, Batch
<1>6. InOrder'
  <2> SUFFICES ASSUME ordered'  PROVE  InOrder'
    BY DEF InOrder
  <2>1. /\ ordered /\ next_op \in Nat /\ admitted \in Nat /\ admitted < next_op
        /\ admitted' = admitted /\ next_op' = next_op + 1
        /\ UNCHANGED <<resolved, committed, writer>>
    BY DEF Takes, PointsInv, InOrder, Shape
  <2>2. \A d \in Holding' : IF d = c THEN call'[d].n = next_op ELSE d \in Holding /\ call'[d].n = call[d].n
    BY DEF Takes
  <2>3. \A d \in Holding' : call'[d].n > admitted'
    BY <2>1, <2>2 DEF PointsInv, InOrder
  <2>4. ASSUME NEW s \in admitted' + 1 .. next_op' - 1
        PROVE  \E d \in Holding' : call'[d].n = s
    <3>1. s \in admitted + 1 .. next_op - 1 \/ s = next_op
      BY <2>1
    <3>2. CASE s \in admitted + 1 .. next_op - 1
      <4>1. PICK d \in Holding : call[d].n = s
        BY <2>1, <3>2 DEF Takes, PointsInv, InOrder
      <4> QED BY <4>1 DEF Takes
    <3>3. CASE s = next_op
      BY <3>3 DEF Takes
    <3> QED BY <3>1, <3>2, <3>3
  <2> QED BY <1>1, <2>1, <2>3, <2>4 DEF PointsInv, InOrder
<1> QED BY <1>2, <1>3, <1>4, <1>5, <1>6 DEF PointsInv

\* A refused operation leaves the line alone, an admitted one ends it.
LEMMA HandsInLine ==
  ASSUME PointsInv, NEW c \in Callers, NEW op, HandsIn(c, op)
  PROVE  /\ Shape' /\ Done' = Done
         /\ closed' = closed
         /\ closed => Line' = Line /\ UNCHANGED <<queue, admitted, ordered>>
         /\ ~closed => /\ Len(Line') = Len(Line) + 1 /\ DOMAIN Line' = 1 .. Len(Line) + 1
                       /\ \A i \in 1 .. Len(Line) : Line'[i] = Line[i]
                       /\ Line'[Len(Line) + 1] = op
                       /\ Len(queue') = Len(queue) + 1
                       /\ admitted' = admitted + 1
                       /\ ordered' = (ordered /\ \A d \in Holding \ {c} : call[d].n > op.seq)
<1>1. Done' = Done /\ closed' = closed /\ writer' = writer
  BY Zenon DEF HandsIn, Push, Done, admission
<1>2. CASE closed
  <2>1. UNCHANGED <<queue, admitted, ordered>>  BY <1>2 DEF HandsIn, Push, admission
  <2>2. Line' = Line  BY <1>1, <2>1 DEF Line, Batch
  <2>3. Shape'  BY <1>1, <2>1 DEF HandsIn, PointsInv, Shape, Batch
  <2> QED BY <1>1, <1>2, <2>1, <2>2, <2>3
<1>3. CASE ~closed
  <2>1. /\ queue' = Append(queue, op) /\ admitted' = admitted + 1
        /\ ordered' = (ordered /\ \A d \in Callers \ {c} : call[d].at = "submit" => call[d].n > op.seq)
    BY <1>3, Zenon DEF HandsIn, Push
  <2>2. /\ queue \in Seq(Range(queue) \union {op})
        /\ Batch \in Seq(Range(Batch))
    BY SeqMonotonic DEF PointsInv, Shape, Batch
  <2>3. /\ queue' \in Seq(Range(queue) \union {op}) /\ Len(queue') = Len(queue) + 1
        /\ \A i \in 1 .. Len(queue) : queue'[i] = queue[i]
        /\ queue'[Len(queue) + 1] = op
    BY <2>1, <2>2, AppendProperties
  <2>4. queue' \in Seq(Range(queue'))  BY <2>3, OwnRange
  <2>5. ordered' \in BOOLEAN  BY <2>1
  <2>6. Shape'
    BY <1>1, <2>1, <2>4, <2>5 DEF HandsIn, PointsInv, Shape, Batch
  <2>7. ordered' = (ordered /\ \A d \in Holding \ {c} : call[d].n > op.seq)
    BY <2>1, Zenon DEF Holding
  <2>8. /\ Len(Line') = Len(Batch) + Len(queue') /\ DOMAIN Line' = 1 .. Len(Line')
        /\ \A i \in 1 .. Len(Line') : Line'[i] = IF i <= Len(Batch) THEN Batch[i]
                                               ELSE queue'[i - Len(Batch)]
    BY <1>1, <2>6, JoinShape DEF Line, Batch, Shape
  <2>9. /\ Len(Line') = Len(Line) + 1 /\ DOMAIN Line' = 1 .. Len(Line) + 1
        /\ \A i \in 1 .. Len(Line) : Line'[i] = Line[i]
        /\ Line'[Len(Line) + 1] = op
    <3>1. /\ Len(Line) = Len(Batch) + Len(queue)
          /\ Len(Batch) \in Nat /\ Len(queue) \in Nat
          /\ \A i \in 1 .. Len(Line) : Line[i] = IF i <= Len(Batch) THEN Batch[i]
                                            ELSE queue[i - Len(Batch)]
      BY LineShape DEF PointsInv
    <3>2. Len(Line') = Len(Line) + 1 /\ DOMAIN Line' = 1 .. Len(Line) + 1
      BY <2>3, <2>8, <3>1
    <3>3. ASSUME NEW i \in 1 .. Len(Line)  PROVE  Line'[i] = Line[i]
      <4>1. CASE i <= Len(Batch)
        BY <2>8, <3>1, <3>2, <4>1
      <4>2. CASE ~(i <= Len(Batch))
        <5>1. i - Len(Batch) \in 1 .. Len(queue)  BY <3>1, <4>2
        <5>2. Line[i] = queue[i - Len(Batch)]  BY <3>1, <4>2
        <5>3. Line'[i] = queue'[i - Len(Batch)]  BY <2>8, <3>1, <3>2, <4>2
        <5> QED BY <2>3, <5>1, <5>2, <5>3
      <4> QED BY <4>1, <4>2
    <3>4. Line'[Len(Line) + 1] = op
      <4>1. Len(Line) + 1 - Len(Batch) = Len(queue) + 1 /\ ~(Len(Line) + 1 <= Len(Batch))
            /\ Len(Line) + 1 \in 1 .. Len(Line')
        BY <3>1, <3>2
      <4> QED BY <2>3, <2>8, <4>1
    <3> QED BY <3>2, <3>3, <3>4
  <2> QED BY <1>1, <1>3, <2>1, <2>3, <2>6, <2>7, <2>9
<1> QED BY <1>2, <1>3

LEMMA HandsInKeeps ==
  ASSUME PointsInv, NEW c \in Callers, NEW op, HandsIn(c, op)  PROVE  PointsInv'
<1> USE HandsInLine
<1>1. Shape' /\ Done' = Done /\ closed' = closed  OBVIOUS
<1>2. /\ next_op \in Nat \ {0} /\ next_op' \in {next_op, next_op + 1}
      /\ admitted \in Nat /\ Len(Line) \in Nat /\ DOMAIN Line = 1 .. Len(Line)
      /\ Len(queue) \in Nat /\ Len(Batch) \in Nat
  BY LineShape, LenProperties DEF HandsIn, PointsInv, Shape
<1>3. \A d \in Holding' : d \in Holding /\ d # c /\ call'[d].n = call[d].n
  BY DEF HandsIn
<1>4. /\ op.seq \in 1 .. next_op' - 1
      /\ \A d \in Holding' : call[d].n # op.seq
      /\ \A i \in DOMAIN Line : Line[i].seq # op.seq
      /\ \A other \in Done : other.seq # op.seq
  <2>1. CASE c \in Holding
    BY <1>2, <1>3, <2>1 DEF HandsIn, PointsInv, OneTicket
  <2>2. CASE c \notin Holding
    BY <1>2, <1>3, <2>2 DEF HandsIn, PointsInv, OneTicket
  <2> QED BY <2>1, <2>2
<1>5. WriterHolds'
  <2>1. UNCHANGED <<writer, joined>>  BY DEF HandsIn
  <2>2. Batch' = Batch  BY <2>1 DEF Batch
  <2> QED BY <1>1, <2>1, <2>2 DEF PointsInv, WriterHolds
<1>6. OneTicket'
  <2>1. /\ \A d \in Holding' : call'[d].n \in 1 .. next_op' - 1
        /\ \A d, e \in Holding' : call'[d].n = call'[e].n => d = e
        /\ \A other \in Done' : /\ other.seq \in 1 .. next_op' - 1
                               /\ \A d \in Holding' : call'[d].n # other.seq
    BY <1>1, <1>2, <1>3 DEF PointsInv, OneTicket
  <2>2. /\ \A i \in DOMAIN Line : /\ Line[i].seq \in 1 .. next_op' - 1
                                 /\ \A d \in Holding' : call'[d].n # Line[i].seq
        /\ \A i, j \in DOMAIN Line : Line[i].seq = Line[j].seq => i = j
        /\ \A other \in Done, i \in DOMAIN Line : Line[i].seq # other.seq
    BY <1>2, <1>3 DEF PointsInv, OneTicket
  <2>3. CASE closed
    <3>1. Line' = Line  BY <2>3
    <3> QED BY <1>1, <2>1, <2>2, <3>1 DEF OneTicket
  <2>4. CASE ~closed
    <3>1. /\ DOMAIN Line' = 1 .. Len(Line) + 1
          /\ \A i \in 1 .. Len(Line) : Line'[i] = Line[i]
          /\ Line'[Len(Line) + 1] = op
      BY <2>4
    <3>2. \A i \in DOMAIN Line' : IF i = Len(Line) + 1 THEN Line'[i] = op
                                 ELSE i \in DOMAIN Line /\ Line'[i] = Line[i]
      BY <1>2, <3>1
    <3>3. \A i \in DOMAIN Line' :
            /\ Line'[i].seq \in 1 .. next_op' - 1
            /\ \A d \in Holding' : call'[d].n # Line'[i].seq
            /\ \A other \in Done' : Line'[i].seq # other.seq
      BY <1>1, <1>3, <1>4, <2>2, <3>2
    <3>4. \A i, j \in DOMAIN Line' : Line'[i].seq = Line'[j].seq => i = j
      BY <1>4, <2>2, <3>2
    <3> QED BY <2>1, <3>3, <3>4 DEF OneTicket
  <2> QED BY <2>3, <2>4
<1>7. Counted'
  <2>1. UNCHANGED <<applied, failed, writer>>  BY DEF HandsIn
  <2>2. Cardinality(applied) \in Nat /\ Cardinality(failed) \in Nat
    BY FS_CardinalityType DEF PointsInv, Counted
  <2>3. Batch' = Batch  BY <2>1 DEF Batch
  <2>4. CASE closed
    BY <2>1, <2>3, <2>4 DEF PointsInv, Counted
  <2>5. CASE ~closed
    <3>1. admitted' = admitted + 1 /\ Len(queue') = Len(queue) + 1  BY <2>5
    <3> QED BY <1>2, <2>1, <2>2, <2>3, <3>1 DEF PointsInv, Counted
  <2> QED BY <2>4, <2>5
<1>8. InOrder'
  <2>1. UNCHANGED <<writer, resolved, committed>>  BY DEF HandsIn
  <2>2. CASE closed
    <3>1. Line' = Line /\ UNCHANGED <<queue, admitted, ordered>>  BY <2>2
    <3>2. Finished' = Finished  BY <3>1 DEF Finished
    <3> QED BY <1>1, <1>2, <1>3, <2>1, <2>2, <3>1, <3>2 DEF PointsInv, InOrder
  <2>3. CASE ~closed
    <3> SUFFICES ASSUME ordered'  PROVE  InOrder'
      BY DEF InOrder
    <3>1. ordered /\ \A d \in Holding \ {c} : call[d].n > op.seq
      BY <2>3
    <3>2. /\ DOMAIN Line' = 1 .. Len(Line) + 1 /\ Len(Line') = Len(Line) + 1
          /\ \A i \in 1 .. Len(Line) : Line'[i] = Line[i]
          /\ Line'[Len(Line) + 1] = op
          /\ admitted' = admitted + 1
      BY <2>3
    <3>3. Finished' = Finished /\ Finished \in Int /\ Finished + Len(Line) = admitted
      BY <1>2, <3>2 DEF Finished
    <3>4. op.seq = admitted + 1
      <4>1. op.seq \in Int /\ op.seq > admitted /\ op.seq <= next_op
        BY <1>2, <1>4, <3>1 DEF HandsIn, PointsInv, InOrder
      <4>2. ASSUME op.seq > admitted + 1  PROVE  FALSE
        <5>1. admitted + 1 \in admitted + 1 .. next_op - 1
          BY <1>2, <4>1, <4>2
        <5>2. PICK d \in Holding : call[d].n = admitted + 1
          BY <2>3, <3>1, <5>1 DEF PointsInv, InOrder
        <5>3. d # c
          BY <4>2, <5>2, <1>2 DEF HandsIn
        <5> QED BY <1>2, <3>1, <4>1, <4>2, <5>2, <5>3
      <4> QED BY <1>2, <4>1, <4>2
    <3>5. /\ admitted' < next_op'
          /\ \A d \in Holding' : call'[d].n > admitted'
      BY <1>2, <1>3, <1>4, <3>1, <3>2, <3>4
    <3>6. \A s \in admitted' + 1 .. next_op' - 1 : \E d \in Holding' : call'[d].n = s
      <4> SUFFICES ASSUME NEW s \in admitted' + 1 .. next_op' - 1
                   PROVE  \E d \in Holding' : call'[d].n = s
        OBVIOUS
      <4>1. s \in admitted + 1 .. next_op - 1 /\ s # op.seq
        <5> DEFINE old == admitted
                   new == next_op'
        <5>0. old \in Nat /\ admitted' = old + 1 /\ next_op \in Nat /\ (new = next_op \/ new = next_op + 1)
          BY <1>2, <3>2
        <5>1. s \in Int /\ s >= old + 2 /\ s <= new - 1
          <6>1. s \in (old + 1) + 1 .. new - 1  BY <5>0
          <6> HIDE DEF old, new
          <6> QED BY <5>0, <6>1
        <5>2. s # op.seq  BY <5>0, <3>4, <5>1
        <5>3. next_op' = next_op \/ op.seq = next_op  BY DEF HandsIn
        <5>4. op.seq = old + 1  BY <3>4
        <5>5. new = next_op \/ old + 1 = next_op  BY <5>3, <5>4
        <5>6. s \in old + 1 .. next_op - 1
          <6> HIDE DEF old, new
          <6> QED BY <5>0, <5>1, <5>5
        <5> QED BY <5>2, <5>6
      <4>2. PICK d \in Holding : call[d].n = s
        BY <2>3, <3>1, <4>1 DEF PointsInv, InOrder
      <4>3. d # c  BY <4>1, <4>2 DEF HandsIn, PointsInv, OneTicket, Shape
      <4> QED BY <4>2, <4>3 DEF HandsIn
    <3>7. \A i \in DOMAIN Line' : Line'[i].seq = Finished' + i
      <4>1. \A i \in 1 .. Len(Line) : Line[i].seq = Finished + i
        BY <1>2, <3>1 DEF PointsInv, InOrder
      <4> QED BY <1>2, <3>2, <3>3, <3>4, <4>1
    <3> QED BY <1>1, <2>1, <3>1, <3>3, <3>5, <3>6, <3>7 DEF PointsInv, InOrder
  <2> QED BY <2>2, <2>3
<1> QED BY <1>1, <1>5, <1>6, <1>7, <1>8 DEF PointsInv

-----------------------------------------------------------------------------
(* The writer's steps.                                                     *)

\* Commit applies exactly the operations it is given (points.rs,
\* apply_points_batch); what they do to the rows is FoldLeft's.
LEMMA CommitApplies ==
  ASSUME NEW ops, Commit(ops)  PROVE  applied' = applied \union Range(ops)
BY Zenon DEF Commit

\* As many operations as positions, because no two have one sequence.
LEMMA RangeCount ==
  ASSUME NEW S, NEW s \in Seq(S),
         \A i, j \in 1 .. Len(s) : s[i].seq = s[j].seq => i = j
  PROVE  IsFiniteSet(Range(s)) /\ Cardinality(Range(s)) = Len(s)
<1>1. /\ Len(s) \in Nat /\ s \in [1 .. Len(s) -> Range(s)]
      /\ \A x \in Range(s) : \E i \in 1 .. Len(s) : s[i] = x
  BY OwnRange, LenProperties
<1>2. \A i, j \in 1 .. Len(s) : s[i] = s[j] => i = j
  OBVIOUS
<1>3. s \in Bijection(1 .. Len(s), Range(s))
  BY <1>1, <1>2 DEF Bijection, Injection, Surjection, IsInjective
<1>4. ExistsBijection(1 .. Len(s), Range(s))
  BY <1>3 DEF ExistsBijection
<1> QED BY <1>1, <1>4, FS_NatBijection, FS_CountingElements

LEMMA PopKeeps ==
  ASSUME PointsInv, PopBatch  PROVE  PointsInv'
<1> DEFINE size == IF Len(queue) < BatchSize THEN Len(queue) ELSE BatchSize
<1>1. /\ queue \in Seq(Range(queue)) /\ Len(queue) \in Nat /\ size \in 1 .. Len(queue)
  <2>1. queue \in Seq(Range(queue)) /\ queue # <<>>
    BY DEF PopBatch, PointsInv, Shape
  <2>2. Len(queue) \in Nat \ {0}  BY <2>1, EmptySeq
  <2> QED BY <2>1, <2>2, PointsAssumption
<1>2. /\ writer' = [at |-> "batch", batch |-> SubSeq(queue, 1, size), last |-> queue[size].seq, failed |-> 0]
      /\ queue' = SubSeq(queue, size + 1, Len(queue))
      /\ writer.at = "idle"
      /\ UNCHANGED <<call, next_op, admitted, closed, ordered, applied, failed, resolved, committed, joined>>
  BY DEF PopBatch, memory, marks, history
<1> HIDE DEF size
<1>3. Batch = <<>> /\ Batch' = SubSeq(queue, 1, size)
  BY <1>2 DEF PointsInv, WriterHolds, Batch
<1>4. Line = queue /\ Line' = queue
  <2>1. Line = queue  BY <1>1, <1>3, ConcatEmptySeq DEF Line
  <2>2. SubSeq(queue, 1, size) \o SubSeq(queue, size + 1, Len(queue)) = SubSeq(queue, 1, Len(queue))
    BY <1>1, ConcatAdjacentSubSeq
  <2> QED BY <1>1, <1>2, <1>3, <2>1, <2>2, SubSeqFull DEF Line
<1>5. /\ Batch' \in Seq(Range(queue)) /\ Len(Batch') = size
      /\ \A i \in 1 .. size : Batch'[i] = queue[i]
      /\ queue' \in Seq(Range(queue)) /\ Len(queue') = Len(queue) - size
  <2>1. \A i \in 1 .. Len(queue) : queue[i] \in Range(queue)
    BY <1>1, OwnRange
  <2>2. /\ SubSeq(queue, 1, size) \in Seq(Range(queue)) /\ Len(SubSeq(queue, 1, size)) = size
        /\ \A i \in 1 .. size : SubSeq(queue, 1, size)[i] = queue[i]
    BY <1>1, <2>1, SubSeqProperties
  <2>3. /\ SubSeq(queue, size + 1, Len(queue)) \in Seq(Range(queue))
        /\ Len(SubSeq(queue, size + 1, Len(queue))) = Len(queue) - size
    BY <1>1, <2>1, SubSeqProperties
  <2> QED BY <1>2, <1>3, <2>2, <2>3
<1>6. queue[size].seq \in Nat
  <2>1. next_op \in Nat /\ size \in DOMAIN Line  BY <1>1, <1>4, OwnRange DEF PointsInv, Shape
  <2>2. Line[size].seq \in 1 .. next_op - 1  BY <2>1 DEF PointsInv, OneTicket
  <2> QED BY <1>4, <2>1, <2>2
<1>7. Shape'
  <2>1. Batch' \in Seq(Range(Batch')) /\ queue' \in Seq(Range(queue'))
    BY <1>5, OwnRange
  <2> QED BY <1>2, <1>6, <2>1 DEF PointsInv, Shape, Batch
<1>8. WriterHolds'
  <2>1. Batch' # <<>>  BY <1>1, <1>5, EmptySeq
  <2>2. Batch'[Len(Batch')] = queue[size]  BY <1>1, <1>5
  <2>3. joined' = FALSE  BY <1>2 DEF PointsInv, WriterHolds, Shape
  <2> QED BY <1>2, <2>1, <2>2, <2>3 DEF WriterHolds
<1>9. OneTicket'
  BY <1>2, <1>4 DEF PointsInv, OneTicket, Holding, Done
<1>10. Counted'
  <2>1. Cardinality(applied) \in Nat /\ Cardinality(failed) \in Nat
    BY FS_CardinalityType DEF PointsInv, Counted
  <2>2. Len(Batch) = 0  BY <1>3
  <2>3. admitted = Len(queue) + Cardinality(applied) + Cardinality(failed)
    BY <1>1, <2>1, <2>2 DEF PointsInv, Counted
  <2>4. admitted = Len(queue') + Len(Batch') + Cardinality(applied) + Cardinality(failed)
    BY <1>1, <1>5, <2>1, <2>3
  <2> QED BY <1>2, <2>4 DEF PointsInv, Counted
<1>11. InOrder'
  <2>1. Finished' = Finished /\ Done' = Done /\ Holding' = Holding
    BY <1>2, <1>4 DEF Finished, Done, Holding
  <2> QED BY <1>2, <1>4, <2>1 DEF PointsInv, InOrder
<1> QED BY <1>7, <1>8, <1>9, <1>10, <1>11 DEF PointsInv

\* The first n operations of the line are done: applied or reported.
Settles(n) ==
  /\ Len(Line') = Len(Line) - n /\ DOMAIN Line' = 1 .. Len(Line')
  /\ \A i \in 1 .. Len(Line') : Line'[i] = Line[i + n]
  /\ Done' = Done \union {Line[i] : i \in 1 .. n}
  /\ UNCHANGED <<call, next_op, admitted, closed, ordered>>

LEMMA SettlesTickets ==
  ASSUME PointsInv, NEW n \in 1 .. Len(Line), Settles(n)
  PROVE  /\ OneTicket'
         /\ ordered' =>
              /\ Finished' = Finished + n
              /\ \A s \in 1 .. Finished' : \E op \in Done' : op.seq = s
              /\ \A i \in DOMAIN Line' : Line'[i].seq = Finished' + i
<1>1. /\ Len(Line) \in Nat /\ DOMAIN Line = 1 .. Len(Line) /\ n \in Nat
      /\ admitted \in Nat /\ next_op \in Nat
  BY LineShape, LenProperties DEF PointsInv, Shape
<1>2. Holding' = Holding  BY DEF Settles, Holding
<1>3. ASSUME NEW i \in DOMAIN Line'
      PROVE  i \in Nat /\ i + n \in DOMAIN Line /\ Line'[i] = Line[i + n]
  <2>1. i \in 1 .. Len(Line') /\ Len(Line') = Len(Line) - n  BY DEF Settles
  <2>2. i \in 1 .. Len(Line) - n  BY <2>1
  <2> QED BY <1>1, <2>1, <2>2 DEF Settles
<1>4. \A op \in Done' : op \in Done \/ \E i \in DOMAIN Line : i <= n /\ op = Line[i]
  <2>1. \A i \in 1 .. n : i \in DOMAIN Line /\ i <= n  BY <1>1
  <2> QED BY <2>1 DEF Settles
<1>5. OneTicket'
  <2>1. /\ \A c \in Holding' : call'[c].n \in 1 .. next_op' - 1
        /\ \A c, d \in Holding' : call'[c].n = call'[d].n => c = d
    BY <1>2 DEF Settles, PointsInv, OneTicket
  <2>2. \A i \in DOMAIN Line' : /\ Line'[i].seq \in 1 .. next_op' - 1
                              /\ \A c \in Holding' : call'[c].n # Line'[i].seq
    BY <1>2, <1>3 DEF Settles, PointsInv, OneTicket
  <2>3. ASSUME NEW i \in DOMAIN Line', NEW j \in DOMAIN Line', Line'[i].seq = Line'[j].seq
        PROVE  i = j
    <3>1. i + n = j + n  BY <1>3, <2>3 DEF PointsInv, OneTicket
    <3> QED BY <1>1, <1>3, <3>1
  <2>4. ASSUME NEW op \in Done'
        PROVE  /\ op.seq \in 1 .. next_op' - 1
               /\ \A c \in Holding' : call'[c].n # op.seq
               /\ \A i \in DOMAIN Line' : Line'[i].seq # op.seq
    <3>1. CASE op \in Done
      BY <1>2, <1>3, <3>1 DEF Settles, PointsInv, OneTicket
    <3>2. CASE op \notin Done
      <4>1. PICK k \in DOMAIN Line : k <= n /\ op = Line[k]  BY <1>4, <3>2
      <4>2. /\ op.seq \in 1 .. next_op' - 1
            /\ \A c \in Holding' : call'[c].n # op.seq
        BY <1>2, <4>1 DEF Settles, PointsInv, OneTicket
      <4>3. ASSUME NEW i \in DOMAIN Line', Line'[i].seq = op.seq  PROVE  FALSE
        <5>1. i + n = k  BY <1>3, <4>1, <4>3 DEF PointsInv, OneTicket
        <5>2. i \in 1 .. Len(Line) - n  BY DEF Settles
        <5> QED BY <1>1, <4>1, <5>1, <5>2
      <4> QED BY <4>2, <4>3
    <3> QED BY <3>1, <3>2
  <2> QED BY <2>1, <2>2, <2>3, <2>4 DEF OneTicket
<1>6. ASSUME ordered'
      PROVE  /\ Finished' = Finished + n
             /\ \A s \in 1 .. Finished' : \E op \in Done' : op.seq = s
             /\ \A i \in DOMAIN Line' : Line'[i].seq = Finished' + i
  <2>1. /\ \A i \in DOMAIN Line : Line[i].seq = Finished + i
        /\ \A s \in 1 .. Finished : \E op \in Done : op.seq = s
    BY <1>6 DEF Settles, PointsInv, InOrder
  <2>2. Finished \in Int  BY <1>1 DEF Finished
  <2>3. Finished' = Finished + n  BY <1>1 DEF Finished, Settles
  <2>4. ASSUME NEW s \in 1 .. Finished'  PROVE  \E op \in Done' : op.seq = s
    <3>1. CASE s <= Finished
      <4>1. s \in 1 .. Finished  BY <2>2, <2>3, <3>1
      <4> QED BY <2>1, <4>1 DEF Settles
    <3>2. CASE ~(s <= Finished)
      <4>1. s - Finished \in 1 .. n /\ s - Finished \in DOMAIN Line
        BY <1>1, <2>2, <2>3, <3>2
      <4>2. Line[s - Finished].seq = s  BY <2>1, <2>2, <4>1
      <4> QED BY <4>1, <4>2 DEF Settles
    <3> QED BY <3>1, <3>2
  <2>5. ASSUME NEW i \in DOMAIN Line'  PROVE  Line'[i].seq = Finished' + i
    BY <1>1, <1>3, <2>1, <2>2, <2>3
  <2> QED BY <2>3, <2>4, <2>5
<1> QED BY <1>5, <1>6

\* The writer is through with the first n operations of its batch, X: they were
\* all applied or all reported, and it goes on or has its watermarks to store.
Advances(n, X, first_failed) ==
  /\ Len(Batch') = Len(Batch) - n /\ Batch' \in Seq(Range(Batch))
  /\ \A i \in 1 .. Len(Batch') : Batch'[i] = Batch[i + n]
  /\ X = {Batch[i] : i \in 1 .. n} /\ IsFiniteSet(X) /\ Cardinality(X) = n
  /\ \/ applied' = applied \union X /\ failed' = failed
     \/ applied' = applied /\ failed' = failed \union X
  /\ first_failed \in Nat /\ (ordered => first_failed <= Finished + n)
  /\ \/ Batch' = <<>> /\ Ends(first_failed)
     \/ /\ Batch' # <<>> /\ writer.at = "single"
        /\ writer' = [writer EXCEPT !.batch = Batch', !.failed = first_failed]
        /\ UNCHANGED marks
  /\ UNCHANGED <<queue, call, next_op, admitted, closed, ordered>>

LEMMA AdvancesSettles ==
  ASSUME PointsInv, NEW n \in 1 .. Len(Batch), NEW X, NEW ff, Advances(n, X, ff)
  PROVE  Settles(n) /\ n \in 1 .. Len(Line)
<1>1. /\ Len(Line) = Len(Batch) + Len(queue) /\ Len(Batch) \in Nat /\ Len(queue) \in Nat
      /\ \A i \in 1 .. Len(Line) : Line[i] = IF i <= Len(Batch) THEN Batch[i] ELSE queue[i - Len(Batch)]
  BY LineShape DEF PointsInv
<1>2. Batch' \in Seq(Range(Batch')) /\ queue' \in Seq(Range(queue'))
  BY OwnRange DEF Advances, PointsInv, Shape
<1>3. /\ Len(Line') = Len(Batch') + Len(queue) /\ DOMAIN Line' = 1 .. Len(Line')
      /\ \A i \in 1 .. Len(Line') : Line'[i] = IF i <= Len(Batch') THEN Batch'[i] ELSE queue[i - Len(Batch')]
  <2>1. /\ Len(Batch' \o queue') = Len(Batch') + Len(queue')
        /\ DOMAIN (Batch' \o queue') = 1 .. Len(Batch' \o queue')
        /\ \A i \in 1 .. Len(Batch' \o queue') :
             (Batch' \o queue')[i] = IF i <= Len(Batch') THEN Batch'[i] ELSE queue'[i - Len(Batch')]
    BY <1>2, JoinShape
  <2>2. Line' = Batch' \o queue'  BY DEF Line
  <2>3. queue' = queue  BY DEF Advances
  <2> QED BY <2>1, <2>2, <2>3
<1>4. Len(Batch') = Len(Batch) - n /\ Len(Line') = Len(Line) - n
  BY <1>1, <1>3 DEF Advances
<1>5. ASSUME NEW i \in 1 .. Len(Line')  PROVE  Line'[i] = Line[i + n]
  <2>1. i + n \in 1 .. Len(Line)  BY <1>1, <1>4
  <2>2. CASE i <= Len(Batch')
    <3>1. i + n <= Len(Batch) /\ i \in 1 .. Len(Batch')  BY <1>1, <1>4, <2>2
    <3>2. Line'[i] = Batch[i + n]  BY <1>3, <2>2, <3>1 DEF Advances
    <3> QED BY <1>1, <2>1, <3>1, <3>2
  <2>3. CASE ~(i <= Len(Batch'))
    <3>1. ~(i + n <= Len(Batch)) /\ i - Len(Batch') = i + n - Len(Batch)  BY <1>1, <1>4, <2>3
    <3>2. Line'[i] = queue[i - Len(Batch')]  BY <1>3, <2>3
    <3>3. Line[i + n] = queue[i + n - Len(Batch)]  BY <1>1, <2>1, <3>1
    <3> QED BY <3>1, <3>2, <3>3
  <2> QED BY <2>2, <2>3
<1>6. X = {Line[i] : i \in 1 .. n}
  <2>1. \A i \in 1 .. n : i \in 1 .. Len(Line) /\ i <= Len(Batch)  BY <1>1
  <2>2. \A i \in 1 .. n : Line[i] = Batch[i]  BY <1>1, <2>1
  <2> QED BY <2>2 DEF Advances
<1>7. Done' = Done \union X  BY DEF Advances, Done
<1> QED BY <1>1, <1>3, <1>4, <1>5, <1>6, <1>7 DEF Settles, Advances

LEMMA AdvancesKeeps ==
  ASSUME PointsInv, NEW n \in 1 .. Len(Batch), NEW X, NEW ff, Advances(n, X, ff),
         writer.at \in {"batch", "single"}
  PROVE  PointsInv'
<1>1. Settles(n) /\ n \in 1 .. Len(Line)  BY AdvancesSettles
<1>2. /\ OneTicket'
      /\ ordered' => /\ Finished' = Finished + n
                     /\ \A s \in 1 .. Finished' : \E op \in Done' : op.seq = s
                     /\ \A i \in DOMAIN Line' : Line'[i].seq = Finished' + i
  BY <1>1, SettlesTickets
<1>3. /\ Len(Line) = Len(Batch) + Len(queue) /\ Len(Batch) \in Nat /\ Len(queue) \in Nat
      /\ DOMAIN Line = 1 .. Len(Line) /\ admitted \in Nat /\ next_op \in Nat
      /\ \A i \in 1 .. Len(Batch) : Line[i] = Batch[i]
  <2>1. \A i \in 1 .. Len(Line) : Line[i] = IF i <= Len(Batch) THEN Batch[i] ELSE queue[i - Len(Batch)]
    BY LineShape DEF PointsInv
  <2>2. Len(Line) = Len(Batch) + Len(queue) /\ Len(Batch) \in Nat /\ Len(queue) \in Nat
    BY LineShape DEF PointsInv
  <2>3. \A i \in 1 .. Len(Batch) : i \in 1 .. Len(Line) /\ i <= Len(Batch)  BY <2>2
  <2> QED BY <2>1, <2>2, <2>3, LineShape DEF PointsInv, Shape
<1>4. Batch # <<>>  BY <1>3 DEF PointsInv, WriterHolds
<1>5. /\ writer.last \in Nat /\ writer.last = Batch[Len(Batch)].seq
      /\ ordered => writer.last = Finished + Len(Batch)
  <2>1. Len(Batch) \in DOMAIN Line /\ Line[Len(Batch)] = Batch[Len(Batch)]  BY <1>3
  <2>2. writer.last = Batch[Len(Batch)].seq  BY <1>4 DEF PointsInv, WriterHolds, Batch
  <2>3. writer.last \in Nat  BY DEF PointsInv, Shape
  <2>4. ordered => Line[Len(Batch)].seq = Finished + Len(Batch)  BY <2>1 DEF PointsInv, InOrder
  <2> QED BY <2>1, <2>2, <2>3, <2>4
<1>6. Counted'
  <2>1. X \cap Done = {}
    <3>1. \A i \in 1 .. n : i \in DOMAIN Line  BY <1>1, <1>3
    <3>2. \A x \in X : \E i \in DOMAIN Line : x = Line[i]  BY <1>3, <3>1 DEF Advances
    <3> QED BY <3>2 DEF PointsInv, OneTicket
  <2>2. /\ IsFiniteSet(applied) /\ IsFiniteSet(failed) /\ applied \cap failed = {}
        /\ Cardinality(applied) \in Nat /\ Cardinality(failed) \in Nat
    BY FS_CardinalityType DEF PointsInv, Counted
  <2>3. ASSUME NEW S, S \subseteq Done, IsFiniteSet(S)
        PROVE  IsFiniteSet(S \union X) /\ Cardinality(S \union X) = Cardinality(S) + n
    <3>1. S \cap X = {}  BY <2>1, <2>3
    <3>2. Cardinality(S \cap X) = 0  BY <3>1, FS_EmptySet
    <3>3. Cardinality(S) \in Nat  BY <2>3, FS_CardinalityType
    <3>4. IsFiniteSet(X) /\ Cardinality(X) = n  BY DEF Advances
    <3>5. /\ IsFiniteSet(S \union X)
          /\ Cardinality(S \union X) = Cardinality(S) + Cardinality(X) - Cardinality(S \cap X)
      BY <2>3, <3>4, FS_Union
    <3> QED BY <3>2, <3>3, <3>4, <3>5
  <2>4. /\ IsFiniteSet(applied') /\ IsFiniteSet(failed') /\ applied' \cap failed' = {}
        /\ Cardinality(applied') + Cardinality(failed') = Cardinality(applied) + Cardinality(failed) + n
    <3>1. CASE applied' = applied \union X /\ failed' = failed
      <4>1. /\ IsFiniteSet(applied \union X)
            /\ Cardinality(applied \union X) = Cardinality(applied) + n
        BY <2>2, <2>3 DEF Done
      <4>2. applied' \cap failed' = {}
        BY <2>1, <2>2, <3>1 DEF Done
      <4> QED BY <2>2, <3>1, <4>1, <4>2
    <3>2. CASE applied' = applied /\ failed' = failed \union X
      <4>1. /\ IsFiniteSet(failed \union X)
            /\ Cardinality(failed \union X) = Cardinality(failed) + n
        BY <2>2, <2>3 DEF Done
      <4>2. applied' \cap failed' = {}
        BY <2>1, <2>2, <3>2 DEF Done
      <4> QED BY <2>2, <3>2, <4>1, <4>2
    <3> QED BY <3>1, <3>2 DEF Advances
  <2>5. Cardinality(applied') \in Nat /\ Cardinality(failed') \in Nat
    BY <2>4, FS_CardinalityType
  <2>6. admitted = Len(queue) + Len(Batch) + Cardinality(applied) + Cardinality(failed)
    BY DEF PointsInv, Counted
  <2>7. Len(Batch') = Len(Batch) - n /\ queue' = queue /\ admitted' = admitted  BY DEF Advances
  <2>8. admitted' = Len(queue') + Len(Batch') + Cardinality(applied') + Cardinality(failed')
    <3> DEFINE a == Cardinality(applied)   a1 == Cardinality(applied')
               f == Cardinality(failed)    f1 == Cardinality(failed')
               q == Len(queue)             b == Len(Batch)
    <3>1. /\ a \in Nat /\ a1 \in Nat /\ f \in Nat /\ f1 \in Nat /\ q \in Nat /\ b \in Nat /\ n \in Nat
          /\ admitted = q + b + a + f /\ a1 + f1 = a + f + n
      BY <1>3, <2>2, <2>4, <2>5, <2>6
    <3>2. admitted' = admitted /\ Len(queue') = q /\ Len(Batch') = b - n
      BY <2>7
    <3>3. admitted' = q + (b - n) + a1 + f1
      <4> HIDE DEF a, a1, f, f1, q, b
      <4> QED BY <3>1, <3>2
    <3> QED BY <3>2, <3>3
  <2> QED BY <2>4, <2>8 DEF Counted
<1>7. CASE Batch' = <<>> /\ Ends(ff)
  <2>1. n = Len(Batch)  BY <1>3, <1>7 DEF Advances
  <2>2. /\ UNCHANGED <<resolved, committed, joined>>
        /\ writer' = [at |-> "commit", batch |-> <<>>, last |-> writer.last, failed |-> ff]
    BY <1>7 DEF Ends, marks
  <2>3. Shape'
    <3>1. queue' \in Seq(Range(queue')) /\ <<>> \in Seq(Range(<<>>))
      BY OwnRange, EmptySeq DEF Advances, PointsInv, Shape
    <3> QED BY <1>5, <1>7, <2>2, <3>1 DEF Advances, Batch, PointsInv, Shape
  <2>4. WriterHolds'
    <3>1. joined' = FALSE  BY <1>4, <2>2 DEF PointsInv, WriterHolds, Shape
    <3> QED BY <1>7, <2>2, <3>1 DEF WriterHolds
  <2>5. InOrder'
    <3> SUFFICES ASSUME ordered'  PROVE  InOrder'
      BY DEF InOrder
    <3>1. ordered /\ Finished \in Int /\ Finished' = Finished + n
      BY <1>2, <1>3 DEF Advances, Finished
    <3>2. resolved' <= Finished' /\ committed' <= Finished'
      BY <1>3, <2>2, <3>1 DEF PointsInv, InOrder, Shape
    <3>3. writer'.last = Finished' /\ writer'.failed <= Finished'
      BY <1>5, <2>1, <2>2, <3>1 DEF Advances
    <3>4. Holding' = Holding  BY DEF Advances, Holding
    <3> QED BY <1>2, <3>1, <3>2, <3>3, <3>4 DEF Advances, PointsInv, InOrder
  <2> QED BY <1>2, <1>6, <2>3, <2>4, <2>5 DEF PointsInv
<1>8. CASE /\ Batch' # <<>> /\ writer.at = "single"
           /\ writer' = [writer EXCEPT !.batch = Batch', !.failed = ff]
           /\ UNCHANGED marks
  <2>1. UNCHANGED <<resolved, committed, joined>>  BY <1>8 DEF marks
  <2>2. Batch' \in Seq(Range(Batch')) /\ queue' \in Seq(Range(queue'))
    BY OwnRange DEF Advances, PointsInv, Shape
  <2>3. writer' = [at |-> "single", batch |-> Batch', last |-> writer.last, failed |-> ff]
    BY <1>8 DEF PointsInv, Shape
  <2>4. Shape'
    BY <1>5, <2>1, <2>2, <2>3 DEF Advances, PointsInv, Shape, Batch
  <2>5. WriterHolds'
    <3>1. Len(Batch') \in 1 .. Len(Batch') /\ Len(Batch') + n = Len(Batch)
      <4>1. Len(Batch') \in Nat \ {0}  BY <1>8, <2>2, EmptySeq
      <4> QED BY <1>3, <4>1 DEF Advances
    <3>2. Batch'[Len(Batch')] = Batch[Len(Batch)]  BY <3>1 DEF Advances
    <3>3. joined' = FALSE  BY <1>8, <2>1 DEF PointsInv, WriterHolds, Shape
    <3>4. writer'.last = writer.last /\ writer'.at = "single"  BY <2>3
    <3> QED BY <1>5, <1>8, <3>2, <3>3, <3>4 DEF WriterHolds
  <2>6. InOrder'
    <3> SUFFICES ASSUME ordered'  PROVE  InOrder'
      BY DEF InOrder
    <3>1. ordered /\ Finished \in Int /\ Finished' = Finished + n
      BY <1>2, <1>3 DEF Advances, Finished
    <3>2. resolved' <= Finished' /\ committed' <= Finished'
      BY <1>3, <2>1, <3>1 DEF PointsInv, InOrder, Shape
    <3>3. writer'.at = "single" /\ writer'.failed = ff /\ ff <= Finished'
      BY <2>3, <3>1 DEF Advances
    <3>4. Holding' = Holding  BY DEF Advances, Holding
    <3> QED BY <1>2, <3>1, <3>2, <3>3, <3>4 DEF Advances, PointsInv, InOrder
  <2> QED BY <1>2, <1>6, <2>4, <2>5, <2>6 DEF PointsInv
<1> QED BY <1>7, <1>8 DEF Advances

LEMMA BatchAdvances ==
  ASSUME PointsInv, ApplyBatch \/ ReportBatch
  PROVE  /\ Len(Batch) \in 1 .. Len(Batch) /\ writer.at = "batch"
         /\ \E ff : Advances(Len(Batch), Range(Batch), ff)
<1>1. /\ Batch \in Seq(Range(Batch)) /\ Batch # <<>> /\ writer.at = "batch"
  BY DEF ApplyBatch, ReportBatch, PointsInv, WriterHolds, Shape, Batch
<1>2. /\ Len(Batch) \in Nat \ {0} /\ Range(Batch) = {Batch[i] : i \in 1 .. Len(Batch)}
  BY <1>1, EmptySeq, LenProperties DEF Range
<1>3. \A i \in 1 .. Len(Batch) : i \in DOMAIN Line /\ Line[i] = Batch[i]
  <2>1. /\ Len(Line) = Len(Batch) + Len(queue) /\ Len(queue) \in Nat /\ DOMAIN Line = 1 .. Len(Line)
        /\ \A i \in 1 .. Len(Line) : Line[i] = IF i <= Len(Batch) THEN Batch[i] ELSE queue[i - Len(Batch)]
    BY LineShape DEF PointsInv
  <2>2. \A i \in 1 .. Len(Batch) : i \in 1 .. Len(Line) /\ i <= Len(Batch)
    BY <1>2, <2>1
  <2> QED BY <2>1, <2>2
<1>4. IsFiniteSet(Range(Batch)) /\ Cardinality(Range(Batch)) = Len(Batch)
  <2>1. \A i, j \in 1 .. Len(Batch) : Batch[i].seq = Batch[j].seq => i = j
    BY <1>3 DEF PointsInv, OneTicket
  <2> QED BY <1>1, <2>1, RangeCount
<1>5. Finished \in Nat
  <2>1. /\ Cardinality(applied) \in Nat /\ Cardinality(failed) \in Nat
        /\ admitted = Len(queue) + Len(Batch) + Cardinality(applied) + Cardinality(failed)
    BY FS_CardinalityType DEF PointsInv, Counted
  <2>2. Len(Line) = Len(Batch) + Len(queue) /\ Len(queue) \in Nat  BY LineShape DEF PointsInv
  <2> QED BY <1>2, <2>1, <2>2 DEF Finished
<1>6. ASSUME NEW ff \in Nat, Ends(ff),
             \/ applied' = applied \union Range(Batch) /\ failed' = failed
             \/ applied' = applied /\ failed' = failed \union Range(Batch),
             ordered => ff <= Finished + Len(Batch),
             UNCHANGED <<queue, call, next_op, admitted, closed, ordered>>
      PROVE  Advances(Len(Batch), Range(Batch), ff)
  <2>1. Batch' = <<>>  BY <1>6 DEF Ends, Batch
  <2>2. Len(Batch') = Len(Batch) - Len(Batch) /\ Batch' \in Seq(Range(Batch))
    BY <1>2, <2>1, EmptySeq
  <2>3. \A i \in 1 .. Len(Batch') : Batch'[i] = Batch[i + Len(Batch)]
    BY <2>1
  <2>4. Advances(Len(Batch), Range(Batch), ff)
    BY <1>2, <1>4, <1>6, <2>1, <2>2, <2>3 DEF Advances
  <2> QED BY <2>4
<1>7. ASSUME ApplyBatch  PROVE  \E ff : Advances(Len(Batch), Range(Batch), ff)
  <2>1. /\ Ends(0) /\ failed' = failed
        /\ UNCHANGED <<queue, call, next_op, admitted, closed, ordered>>
    BY <1>7 DEF ApplyBatch, memory, admission
  <2>2. applied' = applied \union Range(Batch)
    BY <1>7, CommitApplies DEF ApplyBatch, Batch
  <2>3. 0 \in Nat /\ 0 <= Finished + Len(Batch)  BY <1>2, <1>5
  <2>4. Advances(Len(Batch), Range(Batch), 0)  BY <1>6, <2>1, <2>2, <2>3
  <2> QED BY <2>4
<1>8. ASSUME ReportBatch  PROVE  \E ff : Advances(Len(Batch), Range(Batch), ff)
  <2>1. /\ Ends(Batch[1].seq) /\ applied' = applied /\ failed' = failed \union Range(Batch)
        /\ UNCHANGED <<queue, call, next_op, admitted, closed, ordered>>
    BY <1>8 DEF ReportBatch, memory, admission, Batch
  <2>2. 1 \in DOMAIN Line /\ Line[1] = Batch[1]  BY <1>2, <1>3
  <2>3. Batch[1].seq \in Nat  BY <2>2 DEF PointsInv, OneTicket, Shape
  <2>4. ordered => Batch[1].seq <= Finished + Len(Batch)
    BY <1>2, <1>5, <2>2 DEF PointsInv, InOrder
  <2>5. Advances(Len(Batch), Range(Batch), Batch[1].seq)  BY <1>6, <2>1, <2>3, <2>4
  <2> QED BY <2>5
<1>9. Len(Batch) \in 1 .. Len(Batch)  BY <1>2
<1> QED BY <1>1, <1>7, <1>8, <1>9

LEMMA BatchKeeps ==
  ASSUME PointsInv, ApplyBatch \/ ReportBatch  PROVE  PointsInv'
BY BatchAdvances, AdvancesKeeps

LEMMA OneAdvances ==
  ASSUME PointsInv, ApplyOne
  PROVE  /\ 1 \in 1 .. Len(Batch) /\ writer.at = "single" /\ Head(writer.batch) = Batch[1]
         /\ \E ff : Advances(1, {Head(writer.batch)}, ff)
<1> DEFINE op == Head(writer.batch)
           end(ff) == IF Tail(writer.batch) = <<>> THEN Ends(ff)
                      ELSE /\ writer' = [writer EXCEPT !.batch = Tail(@), !.failed = ff]
                           /\ UNCHANGED marks
<1>1. /\ Batch \in Seq(Range(Batch)) /\ Batch # <<>> /\ writer.at = "single"
  BY DEF ApplyOne, PointsInv, WriterHolds, Shape, Batch
<1>2. /\ Len(Batch) \in Nat \ {0} /\ op = Batch[1]
      /\ Tail(Batch) \in Seq(Range(Batch)) /\ Len(Tail(Batch)) = Len(Batch) - 1
      /\ \A i \in 1 .. Len(Tail(Batch)) : Tail(Batch)[i] = Batch[i + 1]
  <2>1. Len(Batch) \in Nat \ {0}  BY <1>1, EmptySeq
  <2>2. /\ Tail(Batch) \in Seq(Range(Batch)) /\ Len(Tail(Batch)) = Len(Batch) - 1
        /\ \A i \in 1 .. Len(Tail(Batch)) : Tail(Batch)[i] = Batch[i + 1]
    BY <1>1, HeadTailProperties
  <2>3. Head(Batch) = Batch[1]  BY <1>1, <2>1
  <2>4. op = Head(Batch)  BY DEF Batch
  <2> QED BY <2>1, <2>2, <2>3, <2>4
<1>3. 1 \in DOMAIN Line /\ Line[1] = Batch[1]
  <2>1. /\ Len(Line) = Len(Batch) + Len(queue) /\ Len(queue) \in Nat /\ DOMAIN Line = 1 .. Len(Line)
        /\ \A i \in 1 .. Len(Line) : Line[i] = IF i <= Len(Batch) THEN Batch[i] ELSE queue[i - Len(Batch)]
    BY LineShape DEF PointsInv
  <2>2. 1 \in 1 .. Len(Line) /\ 1 <= Len(Batch)  BY <1>2, <2>1
  <2> QED BY <2>1, <2>2
<1>4. /\ op.seq \in Nat /\ writer.failed \in Nat /\ Finished \in Int
      /\ ordered => op.seq = Finished + 1 /\ writer.failed <= Finished
  <2>1. Line[1].seq \in Nat  BY <1>3 DEF PointsInv, OneTicket, Shape
  <2>2. ordered => Line[1].seq = Finished + 1 /\ writer.failed <= Finished
    BY <1>1, <1>3 DEF PointsInv, InOrder
  <2>3. Finished \in Int
    <3>1. Len(Line) \in Nat  BY LineShape, LenProperties DEF PointsInv
    <3> QED BY <3>1 DEF Finished, PointsInv, Shape
  <2>4. writer.failed \in Nat  BY DEF PointsInv, Shape
  <2> QED BY <1>2, <1>3, <2>1, <2>2, <2>3, <2>4
<1>5. ASSUME NEW ff \in {writer.failed, op.seq}, end(ff),
             \/ applied' = applied \union {op} /\ failed' = failed
             \/ applied' = applied /\ failed' = failed \union {op},
             UNCHANGED <<queue, call, next_op, admitted, closed, ordered>>
      PROVE  Advances(1, {op}, ff)
  <2>1. Batch' = Tail(Batch)
    <3>1. CASE Tail(writer.batch) = <<>>
      <4>1. writer'.batch = <<>>  BY <1>5, <3>1 DEF Ends
      <4>2. Batch' = <<>>  BY <4>1 DEF Batch
      <4> QED BY <3>1, <4>2 DEF Batch
    <3>2. CASE Tail(writer.batch) # <<>>
      BY <1>5, <3>2 DEF Batch, PointsInv, Shape
    <3> QED BY <3>1, <3>2
  <2>2. ff \in Nat /\ (ordered => ff <= Finished + 1)
    BY <1>4
  <2>3. \/ Batch' = <<>> /\ Ends(ff)
        \/ /\ Batch' # <<>> /\ writer.at = "single"
           /\ writer' = [writer EXCEPT !.batch = Batch', !.failed = ff]
           /\ UNCHANGED marks
    BY <1>1, <1>5, <2>1 DEF Batch
  <2>4. /\ {op} = {Batch[i] : i \in 1 .. 1} /\ IsFiniteSet({op}) /\ Cardinality({op}) = 1
    <3>1. {Batch[i] : i \in 1 .. 1} = {Batch[1]}  OBVIOUS
    <3> HIDE DEF op
    <3> QED BY <1>2, <3>1, FS_Singleton
  <2>5. Advances(1, {op}, ff)
    <3> HIDE DEF op, end
    <3>1. /\ Len(Batch') = Len(Batch) - 1 /\ Batch' \in Seq(Range(Batch))
          /\ \A i \in 1 .. Len(Batch') : Batch'[i] = Batch[i + 1]
      BY <1>2, <2>1
    <3>2. /\ \/ applied' = applied \union {op} /\ failed' = failed
             \/ applied' = applied /\ failed' = failed \union {op}
          /\ UNCHANGED <<queue, call, next_op, admitted, closed, ordered>>
      BY <1>5
    <3> QED BY <2>2, <2>3, <2>4, <3>1, <3>2 DEF Advances
  <2> QED BY <2>5
<1>6. UNCHANGED <<queue, call, next_op, admitted, closed, ordered>>
  BY DEF ApplyOne, memory, admission
<1>7. ASSUME Commit(<<op>>), end(writer.failed), UNCHANGED failed
      PROVE  \E ff : Advances(1, {op}, ff)
  <2>1. applied' = applied \union Range(<<op>>)  BY <1>7, CommitApplies
  <2>2. Range(<<op>>) = {op}
    <3> HIDE DEF op
    <3> QED BY DEF Range
  <2>3. applied' = applied \union {op} /\ failed' = failed  BY <1>7, <2>1, <2>2
  <2>4. end(writer.failed) /\ writer.failed \in {writer.failed, op.seq}  BY <1>7
  <2> HIDE DEF op, end
  <2>5. Advances(1, {op}, writer.failed)  BY <1>5, <1>6, <2>3, <2>4
  <2> QED BY <2>5
<1>8. ASSUME failed' = failed \union {op},
             end(IF writer.failed = 0 THEN op.seq ELSE writer.failed),
             UNCHANGED <<durable, ledger, applied>>
      PROVE  \E ff : Advances(1, {op}, ff)
  <2>1. (IF writer.failed = 0 THEN op.seq ELSE writer.failed) \in {writer.failed, op.seq}  OBVIOUS
  <2> HIDE DEF op, end
  <2>2. Advances(1, {op}, IF writer.failed = 0 THEN op.seq ELSE writer.failed)
    BY <1>5, <1>6, <1>8, <2>1
  <2> QED BY <2>2
<1>9. \E ff : Advances(1, {op}, ff)
  BY <1>7, <1>8, Zenon DEF ApplyOne
<1>10. 1 \in 1 .. Len(Batch)  BY <1>2
<1> QED BY <1>1, <1>2, <1>9, <1>10

LEMMA OneKeeps ==
  ASSUME PointsInv, ApplyOne  PROVE  PointsInv'
BY OneAdvances, AdvancesKeeps

\* Steps that finish no operation and take none.
Moves == FallBack \/ StoreCommitted \/ StoreResolved \/ WriterStops \/ Close \/ Join

LEMMA MovesLeave ==
  ASSUME PointsInv, Moves
  PROVE  /\ UNCHANGED <<disk, memory, queue, call, admitted, history>>
         /\ Batch' = Batch
<1>1. CASE StoreCommitted
  BY <1>1 DEF StoreCommitted, admission, Batch, PointsInv, Shape
<1>2. CASE StoreResolved
  <2>1. Batch = <<>>  BY <1>2 DEF StoreResolved, PointsInv, WriterHolds
  <2>2. Batch' = <<>>  BY <1>2 DEF StoreResolved, NoBatch, Batch
  <2> QED BY <1>2, <2>1, <2>2 DEF StoreResolved, admission
<1>3. CASE FallBack \/ WriterStops \/ Close \/ Join
  BY <1>3 DEF FallBack, WriterStops, Close, Join, memory, admission, marks, PointsInv, Shape, Batch
<1> QED BY <1>1, <1>2, <1>3 DEF Moves

LEMMA WriterMoves ==
  ASSUME PointsInv, Moves  PROVE  PointsInv'
<1>1. /\ UNCHANGED <<queue, call, next_op, admitted, ordered, applied, failed>>
      /\ Batch' = Batch
  BY MovesLeave DEF memory, history
<1>2. Line' = Line /\ Done' = Done /\ Holding' = Holding /\ Finished' = Finished
  BY <1>1 DEF Line, Done, Holding, Finished
<1>3. OneTicket' /\ Counted'
  BY <1>1, <1>2 DEF PointsInv, OneTicket, Counted
<1>4. /\ Finished \in Nat /\ (ordered => resolved \in Nat)
      /\ Line = <<>> => Finished = admitted
  <2>1. /\ Cardinality(applied) \in Nat /\ Cardinality(failed) \in Nat
        /\ admitted = Len(queue) + Len(Batch) + Cardinality(applied) + Cardinality(failed)
    BY FS_CardinalityType DEF PointsInv, Counted
  <2>2. Len(Line) = Len(Batch) + Len(queue) /\ Len(queue) \in Nat /\ Len(Batch) \in Nat
    BY LineShape DEF PointsInv
  <2>3. Finished \in Nat  BY <2>1, <2>2 DEF Finished
  <2>4. Line = <<>> => Finished = admitted  BY <2>1, <2>2 DEF Finished
  <2> QED BY <2>3, <2>4 DEF PointsInv, Shape
<1>5. CASE FallBack
  <2>1. /\ writer.at = "batch" /\ writer' = [writer EXCEPT !.at = "single"]
        /\ UNCHANGED <<closed, resolved, committed, joined>>
    BY <1>5 DEF FallBack, admission, marks
  <2>2. Shape'  BY <1>1, <2>1 DEF PointsInv, Shape, Batch
  <2>3. /\ writer'.at = "single" /\ writer'.last = writer.last /\ writer'.failed = writer.failed
    BY <2>1 DEF PointsInv, Shape
  <2>4. WriterHolds'  BY <1>1, <2>1, <2>3 DEF PointsInv, WriterHolds
  <2>5. InOrder'
    BY <1>1, <1>2, <1>4, <2>1, <2>3 DEF PointsInv, InOrder, WriterHolds
  <2> QED BY <1>3, <2>2, <2>4, <2>5 DEF PointsInv
<1>6. CASE WriterStops
  <2>1. /\ writer.at = "idle" /\ closed /\ queue = <<>> /\ writer' = [writer EXCEPT !.at = "stopped"]
        /\ UNCHANGED <<closed, resolved, committed, joined>>
    BY <1>6 DEF WriterStops, admission, marks
  <2>2. Shape'  BY <1>1, <2>1 DEF PointsInv, Shape, Batch
  <2>3. /\ writer'.at = "stopped" /\ writer'.last = writer.last
    BY <2>1 DEF PointsInv, Shape
  <2>4. WriterHolds'  BY <1>1, <2>1, <2>3 DEF PointsInv, WriterHolds
  <2>5. InOrder'
    BY <1>1, <1>2, <2>1, <2>3 DEF PointsInv, InOrder
  <2> QED BY <1>3, <2>2, <2>4, <2>5 DEF PointsInv
<1>7. CASE Close
  <2>1. closed' = TRUE /\ ~closed /\ UNCHANGED <<writer, resolved, committed, joined>>
    BY <1>7 DEF Close, marks
  <2>2. Shape'  BY <1>1, <2>1 DEF PointsInv, Shape, Batch
  <2>3. WriterHolds'  BY <1>1, <2>1 DEF PointsInv, WriterHolds
  <2>4. InOrder'  BY <1>1, <1>2, <2>1 DEF PointsInv, InOrder
  <2> QED BY <1>3, <2>2, <2>3, <2>4 DEF PointsInv
<1>8. CASE Join
  <2>1. /\ writer.at = "stopped" /\ joined' = TRUE /\ UNCHANGED <<writer, closed, committed>>
        /\ resolved' = IF admitted > resolved THEN admitted ELSE resolved
    BY <1>8 DEF Join, admission
  <2>2. Shape'  BY <1>1, <2>1 DEF PointsInv, Shape, Batch
  <2>3. WriterHolds'  BY <1>1, <2>1 DEF PointsInv, WriterHolds
  <2>4. Line = <<>>
    <3>1. Batch = <<>> /\ queue = <<>>  BY <2>1 DEF PointsInv, WriterHolds
    <3> QED BY <3>1 DEF Line
  <2>5. InOrder'
    BY <1>1, <1>2, <1>4, <2>1, <2>4 DEF PointsInv, InOrder, Shape
  <2> QED BY <1>3, <2>2, <2>3, <2>5 DEF PointsInv
<1>9. CASE StoreCommitted
  <2>1. /\ writer.at = "commit" /\ writer' = [writer EXCEPT !.at = "resolve"]
        /\ committed' = IF writer.failed = 0 THEN writer.last ELSE writer.failed - 1
        /\ UNCHANGED <<closed, resolved, joined>>
    BY <1>9 DEF StoreCommitted, admission
  <2>2. /\ writer' = [at |-> "resolve", batch |-> Batch, last |-> writer.last, failed |-> writer.failed]
        /\ writer.last \in Nat /\ writer.failed \in Nat
    BY <2>1 DEF PointsInv, Shape, Batch
  <2>3. committed' \in Nat  BY <2>1, <2>2
  <2>4. Shape'  BY <1>1, <2>1, <2>2, <2>3 DEF PointsInv, Shape, Batch
  <2>5. WriterHolds'  BY <1>1, <2>1, <2>2 DEF PointsInv, WriterHolds
  <2>6. ordered => committed' <= Finished
    BY <1>4, <2>1, <2>2 DEF PointsInv, InOrder
  <2>7. InOrder'
    BY <1>1, <1>2, <1>4, <2>1, <2>2, <2>6 DEF PointsInv, InOrder
  <2> QED BY <1>3, <2>4, <2>5, <2>7 DEF PointsInv
<1>10. CASE StoreResolved
  <2>1. /\ writer.at = "resolve" /\ writer' = [at |-> "idle", batch |-> <<>>, last |-> 0, failed |-> 0]
        /\ resolved' = writer.last /\ UNCHANGED <<closed, committed, joined>>
    BY <1>10 DEF StoreResolved, NoBatch, admission
  <2>2. Batch = <<>> /\ writer.last \in Nat
    BY <2>1 DEF PointsInv, WriterHolds, Shape
  <2>3. Shape'
    <3>1. <<>> \in Seq(Range(<<>>))  BY EmptySeq
    <3> QED BY <1>1, <2>1, <2>2, <3>1 DEF PointsInv, Shape, Batch
  <2>4. WriterHolds'  BY <1>1, <2>1, <2>2 DEF PointsInv, WriterHolds
  <2>5. InOrder'
    BY <1>1, <1>2, <1>4, <2>1, <2>2 DEF PointsInv, InOrder
  <2> QED BY <1>3, <2>3, <2>4, <2>5 DEF PointsInv
<1> QED BY <1>5, <1>6, <1>7, <1>8, <1>9, <1>10 DEF Moves

-----------------------------------------------------------------------------
(* The theorems.                                                           *)

LEMMA InitInv == PointsInit => PointsInv
<1> SUFFICES ASSUME PointsInit  PROVE  PointsInv
  OBVIOUS
<1>1. Batch = <<>> /\ queue = <<>> /\ Line = <<>> /\ Len(Line) = 0
  BY DEF PointsInit, NoBatch, Batch, Line
<1>2. Holding = {} /\ Done = {} /\ Finished = 0
  <2>1. Holding = {}  BY DEF PointsInit, NoCall, Holding
  <2>2. Done = {} /\ admitted = 0  BY DEF PointsInit, Done
  <2>3. Finished = 0 - 0  BY <1>1, <2>2 DEF Finished
  <2> QED BY <2>1, <2>2, <2>3
<1>3. Shape
  <2>1. <<>> \in Seq(Range(<<>>))  BY EmptySeq
  <2>2. queue \in Seq(Range(queue)) /\ Batch \in Seq(Range(Batch))  BY <1>1, <2>1
  <2>3. /\ DOMAIN call = Callers
        /\ \A c \in Callers : DOMAIN call[c] = Fields
    BY DEF PointsInit, NoCall, Fields
  <2>4. writer = [at |-> "idle", batch |-> Batch, last |-> 0, failed |-> 0]
    BY DEF PointsInit, NoBatch, Batch
  <2>5. writer \in [at : {"idle", "batch", "single", "commit", "resolve", "stopped"},
                    batch : Seq(Range(Batch)), last : Nat, failed : Nat]
    BY <2>2, <2>4
  <2>6. ordered \in BOOLEAN /\ closed \in BOOLEAN /\ joined \in BOOLEAN
    BY Zenon DEF PointsInit
  <2>7. admitted \in Nat /\ resolved \in Nat /\ committed \in Nat /\ next_op \in Nat \ {0}
    BY DEF PointsInit
  <2> QED BY <2>2, <2>3, <2>5, <2>6, <2>7, Zenon DEF Shape
<1>4. WriterHolds  BY <1>1 DEF PointsInit, NoBatch, WriterHolds
<1>5. OneTicket  BY <1>1, <1>2 DEF OneTicket
<1>6. Counted
  BY <1>1, FS_EmptySet DEF PointsInit, Counted
<1>7. InOrder
  BY <1>1, <1>2 DEF PointsInit, NoBatch, InOrder
<1> QED BY <1>3, <1>4, <1>5, <1>6, <1>7 DEF PointsInv

LEMMA NextKeeps == PointsInv /\ [Next]_vars => PointsInv'
<1> SUFFICES ASSUME PointsInv, [Next]_vars  PROVE  PointsInv'
  OBVIOUS
<1> Shape  BY DEF PointsInv
<1>1. ASSUME NEW c \in Callers, CallerBegins(c)  PROVE  PointsInv'
  <2>1. Quietly
    <3>1. \/ \E op \in {"view", "award", "adjust"}, v \in Viewers : Begin(c, op, v)
          \/ \E kind \in {"reset", "clear"}, vs \in SUBSET Viewers : BeginReset(c, kind, vs)
      BY <1>1 DEF CallerBegins
    <3> QED BY <3>1, QuietSteps
  <2> QED BY <2>1, QuietKeeps
<1>2. ASSUME NEW c \in Callers, CallerProceeds(c)  PROVE  PointsInv'
  <2>1. CASE ReadPending(c) \/ Load(c) \/ Promote(c) \/ AdjustUnknown(c) \/ AwaitSlot(c) \/ Reject(c)
    BY <2>1, QuietSteps, QuietKeeps
  <2>2. CASE Mutate(c)
    BY <2>2, MutateTakes, TakesKeeps
  <2>3. CASE Submit(c)
    BY <2>3, SubmitHandsIn, HandsInKeeps
  <2>4. CASE Reset(c)
    BY <2>4, ResetHandsIn, HandsInKeeps
  <2> QED BY <1>2, <2>1, <2>2, <2>3, <2>4 DEF CallerProceeds
<1>3. CASE WriterStep
  BY <1>3, PopKeeps, BatchKeeps, OneKeeps, WriterMoves DEF WriterStep, Moves
<1>4. CASE Close \/ Join
  BY <1>4, WriterMoves DEF Moves
<1>5. CASE UNCHANGED vars
  <2>1. Quietly
    BY <1>5 DEF Quietly, CallsKeep, Holding, Shape, vars, memory, admission, marks, history
  <2> QED BY <2>1, QuietKeeps
<1> QED BY <1>1, <1>2, <1>3, <1>4, <1>5 DEF Next

\* The invariant holds in every state (points.rs, PointsWriterShared).
THEOREM PointsInvariant == Spec => []PointsInv
BY InitInv, NextKeeps, PTL DEF Spec

\* However many callers, retries, fallbacks and failed transactions: a write
\* the queue has taken is waiting, being applied, on disk or reported, and
\* shutdown returns with nothing waiting (points.rs, run_points_writer).
THEOREM WritesAreAccounted == Spec => []EveryWriteAccounted
<1>1. PointsInv => EveryWriteAccounted
  BY DEF PointsInv, Counted, WriterHolds, EveryWriteAccounted, Batch
<1> QED BY <1>1, PointsInvariant, PTL

\* While operations reach the queue in the order of their sequences, waiting
\* for the resolved watermark is waiting for one's own write, and the committed
\* one, stored before it, is not ahead of the writer either (points.rs,
\* wait_for_viewer_committed and run_points_writer).
THEOREM WatermarksAreHonest == Spec => []WatermarksHonest
<1>1. PointsInv => WatermarksHonest
  <2> SUFFICES ASSUME PointsInv, ordered, NEW s \in (1 .. resolved) \union (1 .. committed)
               PROVE  \E op \in Done : op.seq = s
    BY DEF WatermarksHonest, Done
  <2>1. /\ resolved <= Finished /\ committed <= Finished
        /\ \A t \in 1 .. Finished : \E op \in Done : op.seq = t
    BY DEF PointsInv, InOrder
  <2>2. resolved \in Nat /\ committed \in Nat /\ Finished \in Int
    BY LineShape, LenProperties DEF PointsInv, Shape, Finished
  <2>3. s \in 1 .. Finished  BY <2>1, <2>2
  <2> QED BY <2>1, <2>3
<1> QED BY <1>1, PointsInvariant, PTL

-----------------------------------------------------------------------------
(* Induction and folds.                                                    *)

\* Induction over the naturals, said of a set instead of an operator.
LEMMA NatSetInduction ==
  ASSUME NEW S, 0 \in S, \A n \in Nat : n \in S => n + 1 \in S
  PROVE Nat \subseteq S
<1> SUFFICES ASSUME Nat \ S # {} PROVE FALSE
  OBVIOUS
<1>1. PICK x \in Nat \ S : \A y \in Nat \ S : ~ (<<y, x>> \in OpToRel(<, Nat))
  <2>1. IsWellFoundedOn(OpToRel(<, Nat), Nat)  BY NatLessThanWellFounded
  <2> QED BY <2>1, WFMin
<1>2. x # 0  BY <1>1
<1>3. x - 1 \in Nat /\ (x - 1) + 1 = x  BY <1>2
<1>4. x - 1 \in Nat \ S  BY <1>3
<1>5. <<x - 1, x>> \in OpToRel(<, Nat)
  <2>1. x - 1 < x BY <1>2
  <2> QED BY <1>3, <2>1 DEF OpToRel
<1> QED BY <1>1, <1>4, <1>5

\* Max of a set of positions is one of them and none is above it.
LEMMA MaxIn ==
  ASSUME NEW n \in Nat, NEW s \in SUBSET (1 .. n), s # {}
  PROVE  Max(s) \in s /\ \A y \in s : y <= Max(s)
<1> DEFINE Tops == {k \in Nat : \A t \in SUBSET (1 .. k) :
                      t # {} => \E x \in t : \A y \in t : x >= y}
<1>1. 0 \in Tops
  <2>1. 1 .. 0 = {}
    OBVIOUS
  <2> QED BY <2>1
<1>2. ASSUME NEW k \in Nat, k \in Tops PROVE k + 1 \in Tops
  <2> SUFFICES ASSUME NEW t \in SUBSET (1 .. k + 1), t # {}
               PROVE  \E x \in t : \A y \in t : x >= y
    OBVIOUS
  <2>1. CASE k + 1 \in t
    <3>1. \A y \in t : k + 1 >= y
      OBVIOUS
    <3> QED BY <2>1, <3>1
  <2>2. CASE k + 1 \notin t
    <3>1. t \in SUBSET (1 .. k)
      BY <2>2
    <3> QED BY <1>2, <3>1
  <2> QED BY <2>1, <2>2
<1>3. n \in Tops
  <2> HIDE DEF Tops
  <2> QED BY <1>1, <1>2, NatSetInduction
<1>4. \E x \in s : \A y \in s : x >= y
  BY <1>3
<1>5. Max(s) \in s /\ \A y \in s : Max(s) >= y
  BY <1>4 DEF Max
<1> QED BY <1>5

\* The fold of Commit, as an operator of its own.
AppliedAll(store, ops) == FoldLeft(Applied, store, ops)

\* FoldLeft over a sequence, as the values after each of its elements.
LEMMA FoldSteps ==
  ASSUME NEW base, NEW n \in Nat, NEW seq, DOMAIN seq = 1 .. n
  PROVE  \E after : /\ after[0] = base
                    /\ \A k \in 1 .. n : after[k] = Applied(after[k - 1], seq[k])
                    /\ AppliedAll(base, seq) = after[n]
<1> DEFINE D == DOMAIN seq
           Body(g, s) == IF s = {} THEN base ELSE Applied(g[s \ {Max(s)}], seq[Max(s)])
           Small(k) == {s \in SUBSET D : Cardinality(s) <= k}
           iter[s \in SUBSET D] == IF s = {} THEN base ELSE Applied(iter[s \ {Max(s)}], seq[Max(s)])
<1>1. AppliedAll(base, seq) = iter[D]
  BY DEF AppliedAll, FoldLeft, MapThenFoldSet
<1>2. \A s \in SUBSET D : /\ IsFiniteSet(s) /\ Cardinality(s) \in Nat
                          /\ s # {} => /\ Max(s) \in s
                                       /\ Cardinality(s \ {Max(s)}) = Cardinality(s) - 1
  <2> TAKE s \in SUBSET D
  <2>1. IsFiniteSet(s) /\ Cardinality(s) \in Nat
    <3>1. IsFiniteSet(1 .. n)
      BY FS_Interval
    <3>2. IsFiniteSet(s)
      BY <3>1, FS_Subset
    <3> QED BY <3>2, FS_CardinalityType
  <2> QED BY <2>1, MaxIn, FS_RemoveElement
<1>3. \E f : f = [s \in SUBSET D |-> Body(f, s)]
  <2> DEFINE Good == {k \in Nat : \E f : f = [s \in Small(k) |-> Body(f, s)]}
  <2>1. 0 \in Good
    <3>1. \A s \in Small(0) : s = {}
      <4> TAKE s \in Small(0)
      <4>1. s \in SUBSET D /\ Cardinality(s) <= 0
        OBVIOUS
      <4>2. IsFiniteSet(s) /\ Cardinality(s) \in Nat
        BY <1>2, <4>1
      <4> QED BY <4>1, <4>2, FS_EmptySet
    <3>2. [s \in Small(0) |-> base] = [s \in Small(0) |-> Body([t \in Small(0) |-> base], s)]
      BY <3>1
    <3> QED BY <3>2
  <2>2. ASSUME NEW k \in Nat, k \in Good PROVE k + 1 \in Good
    <3>1. PICK f : f = [s \in Small(k) |-> Body(f, s)]
      BY <2>2
    <3> DEFINE g == [s \in Small(k + 1) |-> Body(f, s)]
    <3>2. \A s \in Small(k + 1) : s # {} => s \ {Max(s)} \in Small(k)
      BY <1>2
    <3>3. \A s \in Small(k) : s \in Small(k + 1) /\ g[s] = f[s]
      <4> TAKE s \in Small(k)
      <4>0. s \in SUBSET D /\ Cardinality(s) <= k /\ Cardinality(s) \in Nat
        <5>1. s \in SUBSET D /\ Cardinality(s) <= k
          OBVIOUS
        <5> QED BY <1>2, <5>1
      <4>1. s \in Small(k + 1)
        BY <4>0
      <4>2. f[s] = Body(f, s)
        <5> DEFINE rhs == [t \in Small(k) |-> Body(f, t)]
        <5>1. rhs[s] = Body(f, s)
          OBVIOUS
        <5> HIDE DEF rhs, Body
        <5> QED BY <3>1, <5>1 DEF rhs
      <4> QED BY <4>1, <4>2
    <3>4. \A s \in Small(k + 1) : Body(f, s) = Body(g, s)
      <4> HIDE DEF g
      <4> QED BY <3>2, <3>3
    <3>5. g = [s \in Small(k + 1) |-> Body(g, s)]
      BY <3>4
    <3> HIDE DEF g, Body, Small
    <3> QED BY <3>5
  <2>3. n \in Good
    <3> HIDE DEF Good
    <3> QED BY <2>1, <2>2, NatSetInduction
  <2>4. Small(n) = SUBSET D
    BY <1>2, FS_Interval, FS_Subset
  <2> QED BY <2>3, <2>4
<1>4. iter = [s \in SUBSET D |-> Body(iter, s)]
  BY <1>3 DEF iter
<1> HIDE DEF iter
<1> DEFINE after == [k \in 0 .. n |-> iter[1 .. k]]
<1>5. after[0] = base
  BY <1>4
<1>6. ASSUME NEW k \in 1 .. n PROVE after[k] = Applied(after[k - 1], seq[k])
  <2>1. 1 .. k \in SUBSET D /\ 1 .. k # {} /\ k \in 1 .. k
    <3>1. k \in Nat /\ 1 <= k /\ k <= n /\ k \in 1 .. k
      OBVIOUS
    <3>2. \A i \in 1 .. k : i \in 1 .. n
      BY <3>1
    <3> QED BY <3>1, <3>2
  <2>2. Max(1 .. k) \in 1 .. k /\ k <= Max(1 .. k)
    BY <2>1, MaxIn
  <2>3. Max(1 .. k) = k
    BY <2>2
  <2>4. (1 .. k) \ {k} = 1 .. k - 1
    OBVIOUS
  <2>5. iter[1 .. k] = Applied(iter[1 .. k - 1], seq[k])
    BY <1>4, <2>1, <2>3, <2>4
  <2> QED BY <2>5
<1>7. AppliedAll(base, seq) = after[n]
  BY <1>1
<1> QED BY <1>5, <1>6, <1>7

-----------------------------------------------------------------------------
(* The balances.  For each viewer the invariant says what the row will be  *)
(* once the operations on their way are applied: the last of them carries  *)
(* the sum of what was asked, and the markers cover them all.              *)

Rows == [Viewers -> Nat \union {NoRow}]
Operations == [seq : Nat, kind : {"save", "adjust", "reset", "clear"},
               viewers : SUBSET Viewers, points : Nat]

\* The operation a caller at its submission will hand in.
Ticket(c) == [seq |-> call[c].n, kind |-> IF call[c].op = "award" THEN "save" ELSE "adjust",
              viewers |-> call[c].viewers, points |-> call[c].row]

\* What is on its way to the disk, and the part of it about one viewer.
Waiting == Range(Line) \union {Ticket(c) : c \in Holding}
Touching(v) == {op \in Waiting : v \in op.viewers}

\* A call is about one viewer, except for a reset.
Single == {"miss", "wait", "promote", "mutate", "capacity", "submit"}

\* The calls.
CallRecords ==
  [at : {"idle", "reset"} \union Single, op : {"view", "award", "adjust", "reset", "clear"},
   viewers : SUBSET Viewers, n : Nat, row : Nat \union {NoRow}, raced : BOOLEAN]

\* Where a call is tells what it is about and what it holds.
Sound(r) ==
  /\ r \in CallRecords
  /\ r.at = "idle" => r.op = "view"
  /\ r.at \in Single => r.op \in {"view", "award", "adjust"} /\ \E v \in Viewers : r.viewers = {v}
  /\ r.at = "reset" => r.op \in {"reset", "clear"} /\ (r.op = "clear" => r.viewers = Viewers)
  /\ r.at \in {"mutate", "capacity", "submit"} => r.op # "view"
  /\ r.at \in {"promote", "submit"} => r.row # NoRow

\* A full reset is about everybody.
SoundOp(op) ==
  /\ op \in Operations
  /\ op.kind = "clear" => op.viewers = Viewers

\* Kinds of values, and that the keeper of the lock is the call waiting for room.
BalanceTypes ==
  /\ durable \in Rows /\ cache \in Rows /\ intended \in Rows
  /\ pending \in [Viewers -> Nat] /\ reset_pending \in Nat
  /\ doubtful \subseteq Viewers
  /\ \A op \in Waiting : SoundOp(op)
  /\ failed \union lost \subseteq Operations
  /\ call \in [Callers -> CallRecords] /\ \A c \in Callers : Sound(call[c])
  /\ \A c \in Callers : call[c].at = "capacity" <=> lock = c

\* The markers cover what is outstanding.
Marked ==
  \A op \in Waiting, v \in Viewers : v \in op.viewers =>
    /\ op.kind \in {"save", "adjust"} => op.seq <= pending[v]
    /\ op.kind = "clear" => op.seq <= reset_pending
    /\ op.kind = "reset" /\ v \notin doubtful /\ cache[v] # NoRow => op.seq <= pending[v]

\* What a call has read of its viewer is still so, unless it has raced.
UpToDate(r) ==
  /\ \A v \in Viewers : r.viewers = {v} /\ ~r.raced =>
       /\ r.at = "wait" => \A op \in Touching(v) : op.kind # "reset" => op.seq <= r.n
       /\ r.at = "promote" => Touching(v) = {} /\ r.row = durable[v]
       /\ r.at \in {"mutate", "capacity"} =>
            cache[v] # NoRow \/ (Touching(v) = {} /\ durable[v] = NoRow)
  /\ r.at = "reset" => r.n <= resolved

\* Nothing that excuses a difference has happened to the viewer.
Clean(v) == v \notin doubtful \union UNION {op.viewers : op \in failed \union lost}

\* What the row will be once the outstanding operations are applied.
Exact(v) ==
  /\ cache[v] # NoRow => cache[v] = intended[v]
  /\ Touching(v) = {} => durable[v] = intended[v]
  /\ intended[v] = NoRow =>
       durable[v] = NoRow /\ \A op \in Touching(v) : op.kind # "save"
  /\ intended[v] # NoRow =>
       /\ durable[v] # NoRow \/ \E op \in Touching(v) : op.kind = "save"
       /\ \A op \in Touching(v) :
            (\A other \in Touching(v) : other.seq <= op.seq) => op.points = intended[v]

\* What holds while the queue has the order of the sequences.
Balanced ==
  /\ Marked
  /\ \A c \in Callers : UpToDate(call[c])
  /\ \A v \in Viewers : Clean(v) => Exact(v)

BalanceInv == PointsInv /\ BalanceTypes /\ (ordered => Balanced)

-----------------------------------------------------------------------------
(* What a committed transaction does to the rows and to the ledger.        *)

\* The rows after k of the operations, in terms of those operations alone.
RowsAfter(store, ops, k) ==
  /\ store.rows \in Rows
  /\ \A v \in Viewers :
       /\ (\A i \in 1 .. k : v \notin ops[i].viewers) => store.rows[v] = durable[v]
       /\ store.rows[v] = NoRow <=>
            /\ durable[v] = NoRow
            /\ \A i \in 1 .. k : v \in ops[i].viewers => ops[i].kind # "save"
       /\ \A i \in 1 .. k :
            /\ v \in ops[i].viewers /\ \A j \in i + 1 .. k : v \notin ops[j].viewers
            /\ store.rows[v] # NoRow
            => store.rows[v] = ops[i].points

\* The transaction rows after k of the operations.
LedgerAfter(store, ops, k) ==
  /\ store.ledger \in [Seqs -> Nat]
  /\ \A s \in Seqs :
       (\A i \in 1 .. k : ops[i].seq # s) =>
         /\ store.ledger[s] <= ledger[s]
         /\ (\A i \in 1 .. k : ops[i].kind # "clear") => store.ledger[s] = ledger[s]
  /\ \A i \in 1 .. k :
       /\ store.ledger[ops[i].seq] <= 1
       /\ ops[i].kind = "save" /\ (\A j \in 1 .. k : ops[j].kind # "clear")
            => store.ledger[ops[i].seq] = 1

\* One more operation on the rows.
LEMMA AppliedRows ==
  ASSUME NEW ops, NEW k \in Nat, NEW store, RowsAfter(store, ops, k), durable \in Rows,
         ops[k + 1] \in Operations
  PROVE  RowsAfter(Applied(store, ops[k + 1]), ops, k + 1)
<1> DEFINE op == ops[k + 1]
           rows == Applied(store, op).rows
<1>1. /\ op.viewers \subseteq Viewers /\ op.points \in Nat
      /\ rows = [v \in Viewers |->
                   IF v \in op.viewers /\ (op.kind = "save" \/ store.rows[v] # NoRow)
                   THEN op.points ELSE store.rows[v]]
  BY DEF Operations, Applied
<1>2. op.points # NoRow
  BY <1>1, PointsAssumption
<1>3. \A i \in 1 .. k + 1 : i \in 1 .. k \/ i = k + 1
  OBVIOUS
<1>4. k + 1 \in 1 .. k + 1 /\ \A i \in 1 .. k : i \in 1 .. k + 1 /\ k + 1 \in i + 1 .. k + 1
  OBVIOUS
<1>5. rows \in Rows
  BY <1>1 DEF RowsAfter, Rows
<1>6. ASSUME NEW v \in Viewers
      PROVE  /\ (\A i \in 1 .. k + 1 : v \notin ops[i].viewers) => rows[v] = durable[v]
             /\ rows[v] = NoRow <=>
                  /\ durable[v] = NoRow
                  /\ \A i \in 1 .. k + 1 : v \in ops[i].viewers => ops[i].kind # "save"
  <2>1. rows[v] = IF v \in op.viewers /\ (op.kind = "save" \/ store.rows[v] # NoRow)
                  THEN op.points ELSE store.rows[v]
    BY <1>1
  <2> HIDE DEF rows
  <2> QED BY <1>2, <1>3, <1>4, <2>1 DEF RowsAfter
<1>7. ASSUME NEW v \in Viewers, NEW i \in 1 .. k + 1,
             v \in ops[i].viewers, \A j \in i + 1 .. k + 1 : v \notin ops[j].viewers,
             rows[v] # NoRow
      PROVE  rows[v] = ops[i].points
  <2>1. rows[v] = IF v \in op.viewers /\ (op.kind = "save" \/ store.rows[v] # NoRow)
                  THEN op.points ELSE store.rows[v]
    BY <1>1
  <2>2. CASE i = k + 1
    <3> HIDE DEF rows
    <3> QED BY <1>7, <2>1, <2>2 DEF RowsAfter
  <2>3. CASE i \in 1 .. k
    <3>1. v \notin op.viewers
      BY <1>4, <1>7, <2>3
    <3>2. \A j \in i + 1 .. k : j \in i + 1 .. k + 1
      BY <2>3
    <3>3. \A j \in i + 1 .. k : v \notin ops[j].viewers
      BY <1>7, <3>2
    <3> HIDE DEF rows
    <3> QED BY <1>7, <2>1, <2>3, <3>1, <3>3 DEF RowsAfter
  <2> QED BY <1>3, <2>2, <2>3
<1> HIDE DEF op
<1> QED BY <1>5, <1>6, <1>7 DEF RowsAfter, op

\* No two operations of a transaction have one sequence, and none of them has
\* left a row before.
NewTickets(ops, n) ==
  \A i \in 1 .. n : /\ ops[i] \in Operations /\ ops[i].seq \in Seqs /\ ledger[ops[i].seq] = 0
                    /\ \A j \in 1 .. n : ops[i].seq = ops[j].seq => i = j

\* One more operation on the transaction rows.
LEMMA AppliedLedger ==
  ASSUME NEW ops, NEW n \in Nat, NewTickets(ops, n), ledger \in [Seqs -> Nat],
         NEW k \in Nat, k + 1 <= n, NEW store, LedgerAfter(store, ops, k)
  PROVE  LedgerAfter(Applied(store, ops[k + 1]), ops, k + 1)
<1> DEFINE op == ops[k + 1]
           after == Applied(store, op).ledger
<1>1. /\ \A i \in 1 .. k + 1 : i \in 1 .. k \/ i = k + 1
      /\ k + 1 \in 1 .. k + 1 /\ k + 1 \in 1 .. n
      /\ \A i \in 1 .. k : i \in 1 .. k + 1 /\ i \in 1 .. n /\ i # k + 1
  OBVIOUS
<1>2. /\ op.seq \in Seqs /\ op.kind \in {"save", "adjust", "reset", "clear"}
      /\ ledger[op.seq] = 0 /\ \A i \in 1 .. k : ops[i].seq # op.seq
  BY <1>1 DEF NewTickets, Operations
<1>3. /\ store.ledger \in [Seqs -> Nat] /\ store.ledger[op.seq] = 0
  BY <1>2 DEF LedgerAfter
<1>4. /\ op.kind = "clear" => after = [s \in Seqs |-> 0]
      /\ op.kind = "adjust" => after = store.ledger
      /\ op.kind \in {"save", "reset"} => after = [store.ledger EXCEPT ![op.seq] = @ + 1]
  BY DEF Applied
<1> HIDE DEF after
<1>5. after \in [Seqs -> Nat]
  BY <1>2, <1>3, <1>4
<1>6. /\ \A s \in Seqs \ {op.seq} : after[s] = IF op.kind = "clear" THEN 0 ELSE store.ledger[s]
      /\ after[op.seq] <= 1 /\ (op.kind = "save" => after[op.seq] = 1)
  BY <1>2, <1>3, <1>4
<1>7. ASSUME NEW s \in Seqs, \A i \in 1 .. k + 1 : ops[i].seq # s
      PROVE  /\ after[s] <= ledger[s]
             /\ (\A i \in 1 .. k + 1 : ops[i].kind # "clear") => after[s] = ledger[s]
  <2>1. s # op.seq /\ \A i \in 1 .. k : ops[i].seq # s
    BY <1>1, <1>7
  <2>2. store.ledger[s] <= ledger[s] /\ ledger[s] \in Nat
    BY <2>1 DEF LedgerAfter
  <2>3. (\A i \in 1 .. k + 1 : ops[i].kind # "clear") => store.ledger[s] = ledger[s] /\ op.kind # "clear"
    BY <1>1, <2>1 DEF LedgerAfter
  <2> HIDE DEF op
  <2> QED BY <1>6, <2>1, <2>2, <2>3
<1>8. ASSUME NEW i \in 1 .. k + 1
      PROVE  /\ after[ops[i].seq] <= 1
             /\ ops[i].kind = "save" /\ (\A j \in 1 .. k + 1 : ops[j].kind # "clear")
                  => after[ops[i].seq] = 1
  <2>1. CASE i = k + 1
    BY <1>6, <2>1
  <2>2. CASE i \in 1 .. k
    <3>1. /\ ops[i].seq \in Seqs \ {op.seq}
          /\ after[ops[i].seq] = IF op.kind = "clear" THEN 0 ELSE store.ledger[ops[i].seq]
      BY <1>1, <1>2, <1>6, <2>2 DEF NewTickets
    <3>2. (\A j \in 1 .. k + 1 : ops[j].kind # "clear")
            => op.kind # "clear" /\ \A j \in 1 .. k : ops[j].kind # "clear"
      BY <1>1
    <3> HIDE DEF op
    <3> QED BY <2>2, <3>1, <3>2 DEF LedgerAfter
  <2> QED BY <1>1, <2>1, <2>2
<1> HIDE DEF op
<1> QED BY <1>5, <1>7, <1>8 DEF LedgerAfter, op, after

\* A committed transaction goes through its operations one by one.
LEMMA CommitSteps ==
  ASSUME NEW ops, NEW n \in Nat, DOMAIN ops = 1 .. n, Commit(ops)
  PROVE  \E after : /\ after[0] = Store
                    /\ \A k \in 1 .. n : after[k] = Applied(after[k - 1], ops[k])
                    /\ durable' = after[n].rows /\ ledger' = after[n].ledger
<1>1. \E after : /\ after[0] = Store
                 /\ \A k \in 1 .. n : after[k] = Applied(after[k - 1], ops[k])
                 /\ AppliedAll(Store, ops) = after[n]
  BY FoldSteps
<1>2. durable' = AppliedAll(Store, ops).rows /\ ledger' = AppliedAll(Store, ops).ledger
  BY Zenon DEF Commit, AppliedAll
<1> QED BY <1>1, <1>2

\* A committed transaction, as its operations alone tell it.
LEMMA CommitRows ==
  ASSUME NEW ops, NEW n \in Nat, DOMAIN ops = 1 .. n, Commit(ops),
         \A i \in 1 .. n : ops[i] \in Operations, durable \in Rows
  PROVE  RowsAfter([rows |-> durable', ledger |-> ledger'], ops, n)
<1>1. PICK after : /\ after[0] = Store
                   /\ \A k \in 1 .. n : after[k] = Applied(after[k - 1], ops[k])
                   /\ durable' = after[n].rows /\ ledger' = after[n].ledger
  BY CommitSteps
<1> DEFINE Good == {k \in Nat : k <= n => RowsAfter(after[k], ops, k)}
<1>2. 0 \in Good
  BY <1>1 DEF RowsAfter, Store
<1>3. ASSUME NEW k \in Nat, k \in Good  PROVE k + 1 \in Good
  <2> SUFFICES ASSUME k + 1 <= n  PROVE RowsAfter(after[k + 1], ops, k + 1)
    OBVIOUS
  <2>1. RowsAfter(after[k], ops, k) /\ ops[k + 1] \in Operations
    BY <1>3
  <2>2. after[k + 1] = Applied(after[k], ops[k + 1])
    <3>1. k + 1 \in 1 .. n /\ (k + 1) - 1 = k  OBVIOUS
    <3> QED BY <1>1, <3>1
  <2> QED BY <2>1, <2>2, AppliedRows
<1>4. n \in Good
  <2> HIDE DEF Good
  <2> QED BY <1>2, <1>3, NatSetInduction
<1> QED BY <1>1, <1>4 DEF RowsAfter

\* A committed transaction leaves one row for each award, unless it resets all.
LEMMA CommitLedger ==
  ASSUME NEW ops, NEW n \in Nat, DOMAIN ops = 1 .. n, Commit(ops),
         NewTickets(ops, n), ledger \in [Seqs -> Nat]
  PROVE  LedgerAfter([rows |-> durable', ledger |-> ledger'], ops, n)
<1>1. PICK after : /\ after[0] = Store
                   /\ \A k \in 1 .. n : after[k] = Applied(after[k - 1], ops[k])
                   /\ durable' = after[n].rows /\ ledger' = after[n].ledger
  BY CommitSteps
<1> DEFINE Good == {k \in Nat : k <= n => LedgerAfter(after[k], ops, k)}
<1>2. 0 \in Good
  BY <1>1 DEF LedgerAfter, Store
<1>3. ASSUME NEW k \in Nat, k \in Good  PROVE k + 1 \in Good
  <2> SUFFICES ASSUME k + 1 <= n  PROVE LedgerAfter(after[k + 1], ops, k + 1)
    OBVIOUS
  <2>1. LedgerAfter(after[k], ops, k)
    BY <1>3
  <2>2. after[k + 1] = Applied(after[k], ops[k + 1])
    <3>1. k + 1 \in 1 .. n /\ (k + 1) - 1 = k  OBVIOUS
    <3> QED BY <1>1, <3>1
  <2> QED BY <2>1, <2>2, AppliedLedger
<1>4. n \in Good
  <2> HIDE DEF Good
  <2> QED BY <1>2, <1>3, NatSetInduction
<1>5. LedgerAfter(after[n], ops, n)
  BY <1>4
<1> DEFINE stored == [rows |-> durable', ledger |-> ledger']
<1>6. stored.ledger = after[n].ledger
  BY <1>1
<1> HIDE DEF stored
<1>7. LedgerAfter(stored, ops, n)
  BY <1>5, <1>6 DEF LedgerAfter
<1> QED BY <1>7 DEF stored

-----------------------------------------------------------------------------
(* The balances: what the steps have in common.                            *)

\* Call c becomes r, and the others may have learnt that touched viewers changed.
Turns(c, r, touched) ==
  /\ call' \in [Callers -> CallRecords] /\ call'[c] = r
  /\ \A d \in Callers \ {c} :
       /\ \A f \in Fields \ {"raced"} : call'[d][f] = call[d][f]
       /\ call[d].raced => call'[d].raced
       /\ call[d].at \in {"wait", "promote", "mutate"} /\ call[d].viewers \cap touched # {}
            => call'[d].raced

\* A turn of a call that changes rows (Races), and of one that does not.
LEMMA RacesTurn ==
  ASSUME BalanceTypes, NEW c \in Callers, NEW touched, NEW calls, NEW r \in CallRecords,
         calls = [call EXCEPT ![c] = r], call' = Races(c, touched, calls)
  PROVE  Turns(c, r, touched)
<1>1. call \in [Callers -> CallRecords]
  BY DEF BalanceTypes
<1>2. calls \in [Callers -> CallRecords] /\ calls[c] = r /\ \A d \in Callers \ {c} : calls[d] = call[d]
  BY <1>1
<1> DEFINE Late(k) == [k EXCEPT !.raced = TRUE]
<1>3. \A d \in Callers : call'[d] = IF d # c /\ calls[d].at \in {"wait", "promote", "mutate"}
                                       /\ calls[d].viewers \cap touched # {}
                                    THEN Late(calls[d]) ELSE calls[d]
  BY DEF Races
<1>4. \A k \in CallRecords : /\ Late(k) \in CallRecords /\ Late(k).raced
                             /\ \A f \in Fields \ {"raced"} : Late(k)[f] = k[f]
  BY DEF CallRecords, Fields
<1> HIDE DEF CallRecords, Late
<1>5. ASSUME NEW d \in Callers  PROVE call'[d] \in CallRecords
  <2>1. calls[d] \in CallRecords
    BY <1>2
  <2>2. call'[d] = calls[d] \/ call'[d] = Late(calls[d])
    BY <1>3
  <2> QED BY <1>4, <2>1, <2>2
<1>6. call' \in [Callers -> CallRecords]
  <2>1. call' = [d \in Callers |-> call'[d]]
    BY DEF Races
  <2> QED BY <1>5, <2>1
<1>7. call'[c] = r
  BY <1>2, <1>3
<1>8. ASSUME NEW d \in Callers \ {c}
      PROVE  /\ \A f \in Fields \ {"raced"} : call'[d][f] = call[d][f]
             /\ call[d].raced => call'[d].raced
             /\ call[d].at \in {"wait", "promote", "mutate"} /\ call[d].viewers \cap touched # {}
                  => call'[d].raced
  <2>1. calls[d] = call[d] /\ call[d] \in CallRecords
    BY <1>1, <1>2
  <2>2. call'[d] = call[d] \/ call'[d] = Late(call[d])
    BY <1>3, <2>1
  <2>3. call[d].at \in {"wait", "promote", "mutate"} /\ call[d].viewers \cap touched # {}
          => call'[d] = Late(call[d])
    BY <1>3, <2>1
  <2> QED BY <1>4, <2>1, <2>2, <2>3
<1> QED BY <1>6, <1>7, <1>8 DEF Turns

LEMMA PlainTurn ==
  ASSUME BalanceTypes, NEW c \in Callers, NEW r \in CallRecords, call' = [call EXCEPT ![c] = r]
  PROVE  Turns(c, r, {})
BY DEF BalanceTypes, Turns

\* The kinds of calls stay as they should be.
LEMMA TurnsTypes ==
  ASSUME BalanceTypes, NEW c \in Callers, NEW r, NEW touched, Turns(c, r, touched), Sound(r)
  PROVE  /\ call' \in [Callers -> CallRecords]
         /\ \A d \in Callers : Sound(call'[d])
         /\ \A d \in Callers \ {c} : /\ call'[d].at = call[d].at
                                     /\ call'[d].viewers = call[d].viewers
                                     /\ call'[d].n = call[d].n
                                     /\ call'[d].op = call[d].op
                                     /\ call'[d].row = call[d].row
<1>1. \A d \in Callers \ {c} : /\ call'[d].at = call[d].at
                               /\ call'[d].viewers = call[d].viewers
                               /\ call'[d].n = call[d].n
                               /\ call'[d].op = call[d].op
                               /\ call'[d].row = call[d].row
  BY DEF Turns, Fields
<1>2. call' \in [Callers -> CallRecords]
  BY DEF Turns
<1>3. \A d \in Callers \ {c} : Sound(call'[d])
  BY <1>1, <1>2 DEF BalanceTypes, Sound
<1>4. Sound(call'[c])
  BY DEF Turns
<1> QED BY <1>1, <1>2, <1>3, <1>4

\* What is waiting, after a turn: the ticket c had is gone, the one it has is new.
Tickets == {Ticket(d) : d \in Holding}
LEMMA TurnsTickets ==
  ASSUME PointsInv, BalanceTypes, NEW c \in Callers, NEW r, NEW touched, Turns(c, r, touched)
  PROVE  Tickets' = (Tickets \ {t \in {Ticket(c)} : c \in Holding})
                      \union {t \in {Ticket(c)'} : c \in Holding'}
<1>1. \A d \in Callers \ {c} : Ticket(d)' = Ticket(d) /\ call'[d].at = call[d].at
  BY DEF Turns, Ticket, Fields
<1>2. \A d \in Holding \ {c} : c \in Holding => Ticket(d) # Ticket(c)
  <2>1. \A d \in Holding \ {c} : c \in Holding => call[d].n # call[c].n
    BY DEF PointsInv, OneTicket
  <2> QED BY <2>1 DEF Ticket
<1>3. \A d \in Callers \ {c} : d \in Holding' <=> d \in Holding
  BY <1>1 DEF Holding
<1>4. Holding \subseteq Callers /\ Holding' \subseteq Callers
  BY DEF Holding
<1>5. Tickets' = {Ticket(d)' : d \in Holding'}
  BY DEF Tickets
<1>6. Tickets = {Ticket(d) : d \in Holding}
  BY DEF Tickets
<1> QED BY <1>1, <1>2, <1>3, <1>4, <1>5, <1>6

\* The elements of two sequences one after the other.
LEMMA JoinRange ==
  ASSUME NEW b, NEW q, b \in Seq(Range(b)), q \in Seq(Range(q))
  PROVE  Range(b \o q) = Range(b) \union Range(q)
<1> DEFINE n == Len(b)
           m == Len(q)
           l == b \o q
<1>1. /\ Len(l) = n + m /\ n \in Nat /\ m \in Nat /\ DOMAIN l = 1 .. Len(l)
      /\ \A i \in 1 .. Len(l) : l[i] = IF i <= n THEN b[i] ELSE q[i - n]
  BY JoinShape
<1>2. /\ \A x : x \in Range(b) <=> \E i \in 1 .. n : b[i] = x
      /\ \A x : x \in Range(q) <=> \E i \in 1 .. m : q[i] = x
  BY OwnRange
<1>3. \A x : x \in Range(l) <=> \E i \in 1 .. n + m : l[i] = x
  BY <1>1 DEF Range
<1> HIDE DEF l, n, m
<1>4. ASSUME NEW x \in Range(l)  PROVE x \in Range(b) \/ x \in Range(q)
  <2>1. PICK i \in 1 .. n + m : l[i] = x
    BY <1>3
  <2>2. i <= n => i \in 1 .. n
    BY <1>1
  <2>3. ~(i <= n) => i - n \in 1 .. m
    BY <1>1
  <2> QED BY <1>1, <1>2, <2>1, <2>2, <2>3
<1>5. ASSUME NEW x \in Range(b)  PROVE x \in Range(l)
  <2>1. PICK i \in 1 .. n : b[i] = x
    BY <1>2
  <2>2. i \in 1 .. n + m /\ i <= n
    BY <1>1
  <2> QED BY <1>1, <1>3, <2>1, <2>2
<1>6. ASSUME NEW x \in Range(q)  PROVE x \in Range(l)
  <2>1. PICK i \in 1 .. m : q[i] = x
    BY <1>2
  <2>2. i + n \in 1 .. n + m /\ ~(i + n <= n) /\ (i + n) - n = i
    BY <1>1
  <2> QED BY <1>1, <1>3, <2>1, <2>2
<1>7. Range(l) = Range(b) \union Range(q)
  BY <1>4, <1>5, <1>6
<1> QED BY <1>7 DEF l

\* The sequences on their way: no two alike, all above what is resolved.
LEMMA WaitingSeqs ==
  ASSUME PointsInv
  PROVE  /\ Waiting = Range(Line) \union Tickets
         /\ Range(Line) = {Line[i] : i \in 1 .. Len(Line)} /\ Len(Line) \in Nat
         /\ Range(Line) = Range(Batch) \union Range(queue)
         /\ \A op \in Waiting : op.seq \in 1 .. next_op - 1
         /\ \A op \in Waiting, other \in Waiting : op.seq = other.seq => op = other
         /\ \A op \in Range(Line), t \in Tickets : op # t
         /\ ordered => /\ \A op \in Waiting : op.seq > resolved
                       /\ resolved < next_op
<1>1. /\ Len(Line) \in Nat /\ DOMAIN Line = 1 .. Len(Line)
      /\ next_op \in Nat /\ admitted \in Nat /\ resolved \in Nat
  BY LineShape, LenProperties DEF PointsInv, Shape
<1>2. Range(Line) = {Line[i] : i \in 1 .. Len(Line)}
  BY <1>1 DEF Range
<1>3. Waiting = Range(Line) \union Tickets
  BY DEF Waiting, Tickets
<1>4. \A t \in Tickets : \E c \in Holding : t = Ticket(c) /\ t.seq = call[c].n
  BY DEF Tickets, Ticket
<1>5. \A op \in Waiting : op.seq \in 1 .. next_op - 1
  BY <1>1, <1>2, <1>3, <1>4 DEF PointsInv, OneTicket
<1>6. \A op \in Waiting, other \in Waiting : op.seq = other.seq => op = other
  <2>1. \A op \in Range(Line), other \in Range(Line) : op.seq = other.seq => op = other
    BY <1>1, <1>2 DEF PointsInv, OneTicket
  <2>2. \A op \in Tickets, other \in Tickets : op.seq = other.seq => op = other
    BY <1>4 DEF PointsInv, OneTicket
  <2>3. \A op \in Range(Line), other \in Tickets : op.seq # other.seq
    BY <1>1, <1>2, <1>4 DEF PointsInv, OneTicket
  <2> QED BY <1>3, <2>1, <2>2, <2>3
<1>7. \A op \in Range(Line), t \in Tickets : op # t
  BY <1>1, <1>2, <1>4 DEF PointsInv, OneTicket
<1>8. ASSUME ordered  PROVE (\A op \in Waiting : op.seq > resolved) /\ resolved < next_op
  <2>1. /\ Finished = admitted - Len(Line) /\ resolved <= Finished /\ admitted < next_op
        /\ \A i \in 1 .. Len(Line) : Line[i].seq = Finished + i
        /\ \A c \in Holding : call[c].n > admitted /\ call[c].n \in 1 .. next_op - 1
    BY <1>1, <1>8 DEF PointsInv, InOrder, Finished, OneTicket
  <2>2. \A op \in Range(Line) : op.seq > resolved
    BY <1>1, <1>2, <2>1
  <2>3. \A op \in Tickets : op.seq > resolved
    BY <1>1, <1>4, <2>1
  <2> QED BY <1>1, <1>3, <2>1, <2>2, <2>3
<1>9. Range(Line) = Range(Batch) \union Range(queue)
  <2>1. /\ Batch \in Seq(Range(Batch)) /\ queue \in Seq(Range(queue))
    BY DEF PointsInv, Shape, Batch
  <2> QED BY <2>1, JoinRange DEF Line
<1> QED BY <1>1, <1>2, <1>3, <1>5, <1>6, <1>7, <1>8, <1>9

\* What the calls about u have read stays so.
Undisturbed(u) ==
  /\ Touching(u)' \subseteq Touching(u)
  /\ Touching(u) = {} => durable'[u] = durable[u]
  /\ cache[u] # NoRow => cache'[u] # NoRow

\* A viewer no step speaks of keeps what its calls know.
LEMMA OthersStay ==
  ASSUME BalanceTypes, NEW c \in Callers, NEW r, NEW touched, Turns(c, r, touched),
         \A u \in Viewers \ touched : Undisturbed(u), resolved \in Nat, resolved' \in Nat, resolved <= resolved',
         touched = {} \/ lock \in {NoCaller, c},
         NEW d \in Callers \ {c}, UpToDate(call[d])
  PROVE  UpToDate(call[d])'
<1>1. /\ call'[d].at = call[d].at /\ call'[d].viewers = call[d].viewers
      /\ call'[d].n = call[d].n /\ call'[d].row = call[d].row
      /\ call[d].raced => call'[d].raced
      /\ call[d].at \in {"wait", "promote", "mutate"} /\ call[d].viewers \cap touched # {}
           => call'[d].raced
      /\ call[d] \in CallRecords /\ call'[d] \in CallRecords
  BY DEF Turns, Fields, BalanceTypes
<1>2. call[d].at = "capacity" => touched = {}
  BY PointsAssumption DEF BalanceTypes
<1>3. ASSUME NEW v \in Viewers, call[d].viewers = {v}, ~call'[d].raced,
             call[d].at \in {"wait", "promote", "mutate", "capacity"}
      PROVE  Undisturbed(v) /\ ~call[d].raced
  <2>1. v \notin touched /\ ~call[d].raced
    BY <1>1, <1>2, <1>3
  <2> QED BY <2>1
<1>4. call[d].at = "reset" => call[d].n <= resolved'
  BY <1>1 DEF UpToDate, CallRecords
<1>5. ASSUME NEW v \in Viewers, call[d].viewers = {v}, ~call'[d].raced
      PROVE  /\ call[d].at = "wait" => \A op \in Touching(v)' : op.kind # "reset" => op.seq <= call[d].n
             /\ call[d].at = "promote" => Touching(v)' = {} /\ call[d].row = durable'[v]
             /\ call[d].at \in {"mutate", "capacity"} =>
                  cache'[v] # NoRow \/ (Touching(v)' = {} /\ durable'[v] = NoRow)
  BY <1>3, <1>5 DEF UpToDate, Undisturbed
<1> QED BY <1>1, <1>4, <1>5 DEF UpToDate

\* What evict_cold may leave of the rows and the markers, given to it or not.
Trims(rows, marked, marker, seen) ==
  /\ cache' \in Rows /\ pending' \in [Viewers -> Nat] /\ reset_pending' \in Nat
  /\ \A v \in Viewers : /\ cache'[v] = rows[v] \/ (cache'[v] = NoRow /\ marked[v] <= seen)
                        /\ pending'[v] = marked[v] \/ marked[v] <= seen
  /\ reset_pending' = marker \/ marker <= seen

\* A row whose marker is above the watermark is not evicted (points.rs,
\* evict_cold).
LEMMA EvictColdTrims ==
  ASSUME NEW rows \in Rows, NEW marked \in [Viewers -> Nat], NEW marker \in Nat, NEW seen \in Nat,
         EvictCold(rows, marked, marker, seen)
  PROVE  Trims(rows, marked, marker, seen)
<1>1. cache' \in Evicted(rows, marked, seen) /\ pending' = Retired(marked, seen)
      /\ reset_pending' = IF marker <= seen THEN 0 ELSE marker
  BY DEF EvictCold
<1>2. pending' \in [Viewers -> Nat] /\ \A v \in Viewers : pending'[v] = marked[v] \/ marked[v] <= seen
  BY <1>1 DEF Retired
<1>3. /\ cache' \in Rows
      /\ \A v \in Viewers : cache'[v] = rows[v] \/ (cache'[v] = NoRow /\ marked[v] <= seen)
  <2>1. CASE cache' = rows
    BY <2>1
  <2>2. CASE \E k \in SUBSET Cached(rows) :
               /\ {v \in Cached(rows) : marked[v] > seen} \subseteq k
               /\ cache' = [v \in Viewers |-> IF v \in k THEN rows[v] ELSE NoRow]
    <3>1. PICK k \in SUBSET Cached(rows) :
               /\ {v \in Cached(rows) : marked[v] > seen} \subseteq k
               /\ cache' = [v \in Viewers |-> IF v \in k THEN rows[v] ELSE NoRow]
      BY <2>2
    <3>2. cache' \in Rows
      BY <3>1 DEF Rows
    <3>3. ASSUME NEW v \in Viewers  PROVE cache'[v] = rows[v] \/ (cache'[v] = NoRow /\ marked[v] <= seen)
      <4>1. cache'[v] = IF v \in k THEN rows[v] ELSE NoRow
        BY <3>1
      <4>2. v \notin k => rows[v] = NoRow \/ ~(marked[v] > seen)
        BY <3>1 DEF Cached
      <4> QED BY <4>1, <4>2
    <3> QED BY <3>2, <3>3
  <2>3. cache' = rows \/ \E k \in SUBSET Cached(rows) :
               /\ {v \in Cached(rows) : marked[v] > seen} \subseteq k
               /\ cache' = [v \in Viewers |-> IF v \in k THEN rows[v] ELSE NoRow]
    BY <1>1, Zenon DEF Evicted
  <2> QED BY <2>1, <2>2, <2>3
<1>4. reset_pending' \in Nat /\ (reset_pending' = marker \/ marker <= seen)
  BY <1>1
<1> QED BY <1>2, <1>3, <1>4 DEF Trims

\* The markers that matter survive the eviction.
LEMMA TrimsKeepsMarkers ==
  ASSUME NEW rows, NEW marked \in [Viewers -> Nat], NEW marker \in Nat, NEW seen \in Nat,
         Trims(rows, marked, marker, seen), NEW s \in Nat, s > seen
  PROVE  /\ \A v \in Viewers : s <= marked[v] => s <= pending'[v] /\ cache'[v] = rows[v]
         /\ s <= marker => s <= reset_pending'
BY DEF Trims

\* The viewer of a call about one viewer.
LEMMA TheViewerIs ==
  ASSUME BalanceTypes, NEW c \in Callers, call[c].at \in Single
  PROVE  /\ TheViewer(c) \in Viewers /\ call[c].viewers = {TheViewer(c)}
         /\ \A v \in Viewers : call[c].viewers = {v} => v = TheViewer(c)
<1>1. \E v \in Viewers : call[c].viewers = {v}
  BY DEF BalanceTypes, Sound
<1>2. /\ TheViewer(c) \in Viewers /\ call[c].viewers = {TheViewer(c)}
  BY <1>1 DEF TheViewer
<1>3. \A v \in Viewers : call[c].viewers = {v} => v = TheViewer(c)
  BY <1>2
<1> QED BY <1>2, <1>3

-----------------------------------------------------------------------------
(* The steps that only look.                                               *)

\* Call c becomes r; nothing but the viewer lock changes with it.
Looks(c, r) ==
  /\ Turns(c, r, {}) /\ Sound(r)
  /\ call[c].at # "submit" /\ r.at # "submit"
  /\ lock \in {NoCaller, c} \/ lock' = lock
  /\ lock' = IF r.at = "capacity" THEN c ELSE IF call[c].at = "capacity" THEN NoCaller ELSE lock
  /\ ordered /\ Balanced => UpToDate(r)
  /\ UNCHANGED <<durable, cache, pending, reset_pending, next_op, queue, closed, admitted,
                 resolved, writer, intended, failed, lost, doubtful, ordered>>

\* A look leaves what is waiting as it is.
LEMMA LooksWaits ==
  ASSUME PointsInv, BalanceTypes, NEW c \in Callers, NEW r, Looks(c, r)
  PROVE  Waiting' = Waiting /\ \A v : Touching(v)' = Touching(v)
<1>1. c \notin Holding /\ c \notin Holding'
  BY DEF Looks, Turns, Holding
<1>2. Tickets' = Tickets
  BY <1>1, TurnsTickets DEF Looks
<1>3. Line' = Line
  BY DEF Looks, Line, Batch
<1>4. Waiting' = Waiting
  BY <1>2, <1>3 DEF Waiting, Tickets
<1> QED BY <1>4 DEF Touching

\* A look keeps the invariant.
LEMMA LooksKeeps ==
  ASSUME BalanceInv, NEW c \in Callers, NEW r, Looks(c, r)
  PROVE  BalanceTypes' /\ (ordered => Balanced)'
<1>1. PointsInv /\ BalanceTypes
  BY DEF BalanceInv
<1>2. Waiting' = Waiting /\ \A v : Touching(v)' = Touching(v)
  BY <1>1, LooksWaits
<1>3. /\ call' \in [Callers -> CallRecords] /\ \A d \in Callers : Sound(call'[d])
      /\ \A d \in Callers \ {c} : call'[d].at = call[d].at
      /\ call'[c] = r
  BY <1>1, TurnsTypes DEF Looks, Turns
<1>4. \A d \in Callers : call'[d].at = "capacity" <=> lock' = d
  BY <1>1, <1>3, PointsAssumption DEF Looks, BalanceTypes
<1>5. BalanceTypes'
  BY <1>1, <1>2, <1>3, <1>4 DEF Looks, BalanceTypes
<1>6. ASSUME ordered'  PROVE Balanced'
  <2>1. ordered /\ Balanced
    BY <1>6 DEF Looks, BalanceInv
  <2>2. Marked'
    BY <1>2, <2>1 DEF Balanced, Marked, Looks
  <2>3. ASSUME NEW v \in Viewers, Clean(v)'  PROVE Exact(v)'
    <3>1. Exact(v)
      BY <2>1, <2>3 DEF Balanced, Clean, Looks
    <3> QED BY <1>2, <3>1 DEF Exact, Looks
  <2>4. ASSUME NEW d \in Callers  PROVE UpToDate(call[d])'
    <3>1. CASE d = c
      <4>1. UpToDate(r)
        BY <2>1 DEF Looks
      <4> QED BY <1>2, <1>3, <3>1, <4>1 DEF UpToDate, Looks
    <3>2. CASE d # c
      <4>1. \A u \in Viewers : Undisturbed(u)
        BY <1>2 DEF Undisturbed, Looks
      <4>2. resolved \in Nat /\ resolved' = resolved
        BY <1>1 DEF Looks, PointsInv, Shape
      <4>3. UpToDate(call[d]) /\ Turns(c, r, {})
        BY <2>1 DEF Balanced, Looks
      <4> QED BY <1>1, <3>2, <4>1, <4>2, <4>3, OthersStay
    <3> QED BY <3>1, <3>2
  <2> QED BY <2>2, <2>3, <2>4 DEF Balanced
<1> QED BY <1>5, <1>6

\* All that a look leaves alone.
Elsewhere == UNCHANGED <<durable, cache, pending, reset_pending, next_op, queue, closed, admitted,
                         resolved, writer, intended, failed, lost, doubtful, ordered>>

\* A call that goes to r, read off its action.
LEMMA PlainLook ==
  ASSUME BalanceTypes, NEW c \in Callers, NEW r, Sound(r), call' = [call EXCEPT ![c] = r],
         call[c].at # "submit", r.at # "submit",
         lock \in {NoCaller, c} \/ lock' = lock,
         lock' = IF r.at = "capacity" THEN c ELSE IF call[c].at = "capacity" THEN NoCaller ELSE lock,
         ordered /\ Balanced => UpToDate(r), Elsewhere
  PROVE  Looks(c, r)
<1>1. Turns(c, r, {})
  BY PlainTurn DEF Sound
<1> QED BY <1>1 DEF Looks, Elsewhere

\* A caller in no call.
LEMMA IdleIsSound == Sound(NoCall) /\ UpToDate(NoCall)
BY DEF Sound, NoCall, UpToDate, CallRecords, Single

\* The calls begin (points.rs, viewer, award_points and adjust).
LEMMA BeginLooks ==
  ASSUME BalanceTypes, NEW c \in Callers, NEW op \in {"view", "award", "adjust"}, NEW v \in Viewers,
         Begin(c, op, v)
  PROVE  \E r : Looks(c, r)
<1> DEFINE r == [NoCall EXCEPT !.op = op, !.viewers = {v}, !.at = IF cache[v] = NoRow THEN "miss" ELSE "mutate"]
<1>1. /\ r.at = (IF cache[v] = NoRow THEN "miss" ELSE "mutate") /\ r.op = op /\ r.viewers = {v}
      /\ r.n = 0 /\ r.row = NoRow /\ ~r.raced
      /\ r \in CallRecords
  BY DEF NoCall, CallRecords, Single
<1>2. /\ call[c].at = "idle" /\ lock = NoCaller /\ call' = [call EXCEPT ![c] = r]
      /\ op = "view" => cache[v] = NoRow
      /\ Elsewhere /\ lock' = lock
  BY DEF Begin, Unlocked, Elsewhere, disk, memory, admission, marks, history
<1> HIDE DEF r
<1>3. Sound(r)
  BY <1>1, <1>2 DEF Sound, Single
<1>4. UpToDate(r)
  BY <1>1 DEF UpToDate
<1>5. Looks(c, r)
  BY <1>1, <1>2, <1>3, <1>4, PlainLook
<1> QED BY <1>5

\* reset reads the watermark before it takes the lock (points.rs, reset).
LEMMA BeginResetLooks ==
  ASSUME PointsInv, BalanceTypes, NEW c \in Callers, NEW kind \in {"reset", "clear"}, NEW vs \in SUBSET Viewers,
         kind = "clear" => vs = Viewers, BeginReset(c, kind, vs)
  PROVE  \E r : Looks(c, r)
<1> DEFINE r == [NoCall EXCEPT !.at = "reset", !.op = kind, !.viewers = vs, !.n = resolved]
<1>1. resolved \in Nat
  BY DEF PointsInv, Shape
<1>2. /\ r.at = "reset" /\ r.op = kind /\ r.viewers = vs /\ r.n = resolved
      /\ r \in CallRecords
  BY <1>1 DEF NoCall, CallRecords, Single
<1>3. /\ call[c].at = "idle" /\ call' = [call EXCEPT ![c] = r] /\ Elsewhere /\ lock' = lock
  BY DEF BeginReset, Elsewhere, disk, memory, admission, marks, history
<1> HIDE DEF r
<1>4. Sound(r)
  BY <1>2 DEF Sound, Single
<1>5. UpToDate(r)
  BY <1>1, <1>2 DEF UpToDate
<1>6. Looks(c, r)
  BY <1>2, <1>3, <1>4, <1>5, PlainLook
<1> QED BY <1>6

\* The marker a reload waits for covers every write on its way but the reset of
\* a cold viewer (points.rs, reload_wait_seq).
LEMMA ReadPendingLooks ==
  ASSUME BalanceTypes, NEW c \in Callers, ReadPending(c)
  PROVE  \E r : Looks(c, r)
<1> DEFINE v == TheViewer(c)
           n == IF pending[v] > reset_pending THEN pending[v] ELSE reset_pending
           r == [call[c] EXCEPT !.at = "wait", !.n = n]
<1>1. call[c].at = "miss" /\ call[c] \in CallRecords /\ Sound(call[c])
  BY DEF ReadPending, BalanceTypes
<1>2. v \in Viewers /\ call[c].viewers = {v} /\ \A u \in Viewers : call[c].viewers = {u} => u = v
  BY <1>1, TheViewerIs DEF Single
<1>3. n \in Nat /\ pending[v] <= n /\ reset_pending <= n /\ pending[v] \in Nat /\ reset_pending \in Nat
  BY <1>2 DEF BalanceTypes
<1>4. /\ Elsewhere /\ lock' = lock
      /\ call' = [Goes(c, "wait") EXCEPT ![c].n = n]
  BY DEF ReadPending, Elsewhere, disk, memory, admission, marks, history
<1> HIDE DEF v, n
<1>5. call' = [call EXCEPT ![c] = r]
  BY <1>4 DEF Goes, BalanceTypes
<1>6. /\ r.at = "wait" /\ r.op = call[c].op /\ r.viewers = {v} /\ r.n = n
      /\ r \in CallRecords
  BY <1>1, <1>2, <1>3 DEF CallRecords, Single
<1> HIDE DEF r
<1>7. Sound(r)
  BY <1>1, <1>2, <1>6 DEF Sound, Single
<1>8. ASSUME ordered, Balanced  PROVE UpToDate(r)
  <2>1. ASSUME NEW op \in Touching(v), op.kind # "reset"  PROVE op.seq <= n
    <3>1. op \in Waiting /\ v \in op.viewers
      BY <2>1 DEF Touching
    <3>2. op.kind \in {"save", "adjust", "reset", "clear"} /\ op.seq \in Nat
      BY <3>1 DEF BalanceTypes, SoundOp, Operations
    <3>3. op.seq <= pending[v] \/ op.seq <= reset_pending
      BY <1>2, <1>8, <2>1, <3>1, <3>2 DEF Balanced, Marked
    <3> QED BY <1>3, <3>2, <3>3
  <2>2. \A u \in Viewers : r.viewers = {u} => u = v
    BY <1>6
  <2> QED BY <1>6, <2>1, <2>2 DEF UpToDate
<1>9. Looks(c, r)
  BY <1>1, <1>4, <1>5, <1>6, <1>7, <1>8, PlainLook
<1> QED BY <1>9

\* A read after the wait has the balance, or the call has raced (points.rs, viewer).
LEMMA LoadLooks ==
  ASSUME PointsInv, BalanceTypes, NEW c \in Callers, Load(c)
  PROVE  \E r : Looks(c, r)
<1> DEFINE v == TheViewer(c)
           late == resolved < call[c].n
           unreset == \E op \in Range(queue) \union Range(writer.batch) : op.kind = "reset" /\ v \in op.viewers
           next(row) == [call[c] EXCEPT !.at = IF row = NoRow THEN "mutate" ELSE "promote", !.row = row, !.n = 0,
                                        !.raced = @ \/ late \/ unreset \/ row # durable[v]]
<1>1. call[c].at = "wait" /\ call[c] \in CallRecords /\ Sound(call[c])
  BY DEF Load, BalanceTypes
<1>2. v \in Viewers /\ call[c].viewers = {v} /\ \A u \in Viewers : call[c].viewers = {u} => u = v
  BY <1>1, TheViewerIs DEF Single
<1>3. Elsewhere /\ lock' = lock
  BY DEF Load, Elsewhere, disk, memory, admission, marks, history
<1>4. \E row \in {durable[v], NoRow} :
        IF row = NoRow /\ call[c].op = "view" THEN call' = [call EXCEPT ![c] = NoCall]
        ELSE call' = [call EXCEPT ![c] = next(row)]
  <2>1. \E row \in {durable[v]} \union IF "read" \in Faults THEN {NoRow} ELSE {} :
        IF row = NoRow /\ call[c].op = "view" THEN call' = [call EXCEPT ![c] = NoCall]
        ELSE call' = [call EXCEPT ![c] = next(row)]
    BY Zenon DEF Load, Idle
  <2> HIDE DEF next, v
  <2> QED BY <2>1
<1>5. PICK row \in {durable[v], NoRow} :
        IF row = NoRow /\ call[c].op = "view" THEN call' = [call EXCEPT ![c] = NoCall]
        ELSE call' = [call EXCEPT ![c] = next(row)]
  BY <1>4
<1>6. CASE row = NoRow /\ call[c].op = "view"
  <2>1. call' = [call EXCEPT ![c] = NoCall] /\ NoCall.at = "idle"
    BY <1>5, <1>6 DEF NoCall
  <2>2. Looks(c, NoCall)
    BY <1>1, <1>3, <2>1, IdleIsSound, PlainLook
  <2> QED BY <2>2
<1>7. CASE ~(row = NoRow /\ call[c].op = "view")
  <2> DEFINE r == next(row)
  <2>1. call' = [call EXCEPT ![c] = r]
    BY <1>5, <1>7
  <2>2. row \in Nat \union {NoRow}
    BY <1>2 DEF BalanceTypes, Rows
  <2>3. /\ r.at = (IF row = NoRow THEN "mutate" ELSE "promote") /\ r.op = call[c].op /\ r.viewers = {v}
        /\ r.row = row /\ r \in CallRecords
        /\ ~r.raced => ~call[c].raced /\ ~late /\ ~unreset /\ row = durable[v]
    <3> HIDE DEF late, unreset, v
    <3> QED BY <1>1, <1>2, <2>2 DEF CallRecords, Single
  <2> HIDE DEF r, next
  <2>4. Sound(r)
    BY <1>1, <1>2, <1>7, <2>3 DEF Sound, Single
  <2>5. ASSUME ordered, Balanced  PROVE UpToDate(r)
    <3>1. ASSUME ~r.raced, NEW op \in Touching(v)  PROVE FALSE
      <4>1. op \in Waiting /\ v \in op.viewers
        BY DEF Touching
      <4>2. op.seq > resolved /\ op.seq \in Nat /\ resolved \in Nat /\ call[c].n \in Nat
        BY <1>1, <2>5, <4>1, WaitingSeqs DEF PointsInv, Shape, BalanceTypes, SoundOp, Operations, CallRecords
      <4>3. ~(op.seq <= call[c].n)
        BY <2>3, <3>1, <4>2
      <4>4. UpToDate(call[c])
        BY <2>5 DEF Balanced
      <4>5. op.kind = "reset"
        BY <1>1, <1>2, <2>3, <3>1, <4>3, <4>4 DEF UpToDate
      <4>6. op \in Range(Line)
        <5>1. \A d \in Holding : Ticket(d).kind # "reset"
          BY DEF Ticket
        <5> QED BY <4>1, <4>5, <5>1 DEF Waiting
      <4>7. op \in Range(queue) \union Range(writer.batch)
        BY <4>6, WaitingSeqs DEF Batch
      <4> QED BY <2>3, <3>1, <4>1, <4>5, <4>7
    <3>2. ~r.raced => Touching(v) = {} /\ row = durable[v]
      BY <2>3, <3>1
    <3>3. \A u \in Viewers : r.viewers = {u} => u = v
      BY <2>3
    <3> QED BY <2>3, <3>2, <3>3 DEF UpToDate
  <2>6. Looks(c, r)
    BY <1>1, <1>3, <2>1, <2>3, <2>4, <2>5, PlainLook
  <2> QED BY <2>6
<1> QED BY <1>6, <1>7

\* The calls that end or wait without a change (points.rs, award_points and adjust).
LEMMA MutateLooks ==
  ASSUME BalanceTypes, NEW c \in Callers, AdjustUnknown(c) \/ AwaitSlot(c) \/ Reject(c)
  PROVE  \E r : Looks(c, r)
<1>1. Elsewhere /\ call[c] \in CallRecords /\ Sound(call[c]) /\ call[c].at \in {"mutate", "capacity"}
  BY DEF AdjustUnknown, AwaitSlot, Reject, InSection, Elsewhere, disk, memory, admission, marks, history, BalanceTypes
<1>2. NoCall.at = "idle"
  BY DEF NoCall
<1>3. CASE AdjustUnknown(c)
  <2>1. call' = [call EXCEPT ![c] = NoCall] /\ lock' = lock /\ call[c].at = "mutate"
    BY <1>3 DEF AdjustUnknown, Idle
  <2>2. Looks(c, NoCall)
    BY <1>1, <1>2, <2>1, IdleIsSound, PlainLook
  <2> QED BY <2>2
<1>4. CASE Reject(c)
  <2>1. call' = [call EXCEPT ![c] = NoCall] /\ lock' = NoCaller
    BY <1>4 DEF Reject, Idle
  <2>2. lock \in {NoCaller, c} /\ (call[c].at # "capacity" => lock = NoCaller)
    BY <1>4 DEF Reject, InSection, Unlocked, BalanceTypes
  <2>3. Looks(c, NoCall)
    BY <1>1, <1>2, <2>1, <2>2, IdleIsSound, PlainLook
  <2> QED BY <2>3
<1>5. CASE AwaitSlot(c)
  <2> DEFINE r == [call[c] EXCEPT !.at = "capacity"]
  <2>1. call[c].at = "mutate" /\ lock = NoCaller /\ lock' = c /\ call' = Goes(c, "capacity")
    BY <1>5 DEF AwaitSlot, Unlocked
  <2>2. call' = [call EXCEPT ![c] = r]
    BY <2>1 DEF Goes
  <2>3. /\ r.at = "capacity" /\ r.op = call[c].op /\ r.viewers = call[c].viewers /\ r.raced = call[c].raced
        /\ r \in CallRecords
    BY <1>1 DEF CallRecords, Single
  <2> HIDE DEF r
  <2>4. Sound(r)
    BY <1>1, <2>1, <2>3 DEF Sound, Single
  <2>5. ordered /\ Balanced => UpToDate(r)
    <3>1. Balanced => UpToDate(call[c])
      BY DEF Balanced
    <3> QED BY <2>1, <2>3, <3>1 DEF UpToDate
  <2>6. Looks(c, r)
    BY <1>1, <2>1, <2>2, <2>3, <2>4, <2>5, PlainLook
  <2> QED BY <2>6
<1> QED BY <1>3, <1>4, <1>5

-----------------------------------------------------------------------------
(* The writer's steps.                                                     *)

\* The writer moves, or applies or reports operations that were waiting.
Drains ==
  /\ Waiting' \subseteq Waiting
  /\ resolved' \in Nat /\ (ordered => resolved <= resolved')
  /\ failed \subseteq failed' /\ failed' \subseteq failed \union Waiting
  /\ durable' \in Rows
  /\ ordered => \A v \in Viewers :
       /\ Touching(v) = {} => durable'[v] = durable[v]
       /\ (\A op \in failed' : v \in op.viewers => op \in failed) /\ Exact(v)
            => Exact(v)'
  /\ UNCHANGED <<cache, pending, reset_pending, call, lock, intended, lost, doubtful, ordered>>

\* The writer keeps the invariant, given what a transaction leaves.
LEMMA DrainsKeeps ==
  ASSUME BalanceInv, Drains  PROVE BalanceTypes' /\ (ordered => Balanced)'
<1>1. PointsInv /\ BalanceTypes
  BY DEF BalanceInv
<1>2. BalanceTypes'
  <2>1. \A op \in Waiting' : SoundOp(op)
    BY <1>1 DEF Drains, BalanceTypes
  <2>2. failed' \union lost' \subseteq Operations
    BY <1>1 DEF Drains, BalanceTypes, SoundOp
  <2> QED BY <1>1, <2>1, <2>2 DEF Drains, BalanceTypes
<1>3. ASSUME ordered'  PROVE Balanced'
  <2>1. ordered /\ Balanced
    BY <1>3 DEF Drains, BalanceInv
  <2>2. Marked'
    BY <2>1 DEF Balanced, Marked, Drains
  <2>3. ASSUME NEW v \in Viewers, Clean(v)'  PROVE Exact(v)'
    <3>1. Clean(v) /\ \A op \in failed' : v \in op.viewers => op \in failed
      BY <2>3 DEF Clean, Drains
    <3> QED BY <2>1, <3>1 DEF Balanced, Drains
  <2>4. ASSUME NEW d \in Callers  PROVE UpToDate(call[d])'
    <3>1. UpToDate(call[d]) /\ call' = call /\ cache' = cache /\ call[d] \in CallRecords
      BY <1>1, <2>1 DEF Balanced, Drains, BalanceTypes
    <3>2. \A v \in Viewers : /\ Touching(v)' \subseteq Touching(v)
                             /\ Touching(v) = {} => durable'[v] = durable[v]
      BY <2>1 DEF Drains, Touching
    <3>3. resolved <= resolved' /\ resolved \in Nat /\ resolved' \in Nat /\ call[d].n \in Nat
      BY <1>1, <2>1, <3>1 DEF Drains, PointsInv, Shape, CallRecords
    <3>4. call[d].at = "reset" => call[d].n <= resolved'
      BY <3>1, <3>3 DEF UpToDate
    <3>5. ASSUME NEW v \in Viewers, call[d].viewers = {v}, ~call[d].raced
          PROVE  /\ call[d].at = "wait" => \A op \in Touching(v)' : op.kind # "reset" => op.seq <= call[d].n
                 /\ call[d].at = "promote" => Touching(v)' = {} /\ call[d].row = durable'[v]
                 /\ call[d].at \in {"mutate", "capacity"} =>
                      cache[v] # NoRow \/ (Touching(v)' = {} /\ durable'[v] = NoRow)
      BY <3>1, <3>2, <3>5 DEF UpToDate
    <3> QED BY <3>1, <3>4, <3>5 DEF UpToDate
  <2> QED BY <2>2, <2>3, <2>4 DEF Balanced
<1> QED BY <1>2, <1>3

\* Pop, fallback, both stores, stop, close and join leave what is waiting as it is.
LEMMA MovesDrain ==
  ASSUME PointsInv, BalanceTypes, PopBatch \/ Moves  PROVE Drains
<1>1. UNCHANGED <<durable, cache, pending, reset_pending, call, lock, intended, failed, lost, doubtful, ordered>>
  BY DEF PopBatch, Moves, FallBack, StoreCommitted, StoreResolved, WriterStops, Close, Join, disk, memory, history
<1>2. Range(Line)' = Range(Line)
  <2>1. CASE PopBatch
    <3> DEFINE size == IF Len(queue) < BatchSize THEN Len(queue) ELSE BatchSize
    <3>1. /\ queue \in Seq(Range(queue)) /\ Len(queue) \in Nat /\ size \in 1 .. Len(queue)
      <4>1. queue \in Seq(Range(queue)) /\ queue # <<>>
        BY <2>1 DEF PopBatch, PointsInv, Shape
      <4>2. Len(queue) \in Nat \ {0}
        BY <4>1, EmptySeq
      <4> QED BY <4>1, <4>2, PointsAssumption
    <3>2. /\ writer' = [at |-> "batch", batch |-> SubSeq(queue, 1, size), last |-> queue[size].seq, failed |-> 0]
          /\ queue' = SubSeq(queue, size + 1, Len(queue))
          /\ writer.at = "idle"
      BY <2>1 DEF PopBatch
    <3> HIDE DEF size
    <3>3. Line = queue
      BY <3>1, <3>2, ConcatEmptySeq DEF Line, PointsInv, WriterHolds
    <3>4. Line' = SubSeq(queue, 1, size) \o SubSeq(queue, size + 1, Len(queue))
      BY <3>2 DEF Line, Batch
    <3>5. Line' = queue
      BY <3>1, <3>4, ConcatAdjacentSubSeq, SubSeqFull
    <3> QED BY <3>3, <3>5
  <2>2. CASE Moves
    <3>1. queue' = queue /\ Batch' = Batch
      BY <2>2, MovesLeave
    <3> QED BY <3>1 DEF Line
  <2> QED BY <2>1, <2>2
<1>3. Waiting' = Waiting
  BY <1>1, <1>2 DEF Waiting, Ticket, Holding
<1>4. resolved' \in Nat /\ (ordered => resolved <= resolved')
  <2>1. resolved \in Nat /\ admitted \in Nat /\ writer.last \in Nat
    BY DEF PointsInv, Shape
  <2>2. CASE StoreResolved
    BY <2>1, <2>2 DEF StoreResolved, PointsInv, InOrder
  <2> QED BY <2>1, <2>2 DEF PopBatch, Moves, FallBack, StoreCommitted, WriterStops, Close, Join, marks
<1>5. ASSUME NEW v \in Viewers, Exact(v)  PROVE Exact(v)'
  BY <1>1, <1>3, <1>5 DEF Exact, Touching
<1>6. durable' \in Rows
  BY <1>1 DEF BalanceTypes
<1> QED BY <1>1, <1>3, <1>4, <1>5, <1>6 DEF Drains

\* The operations a settling writer has finished.
First(n) == {Line[i] : i \in 1 .. n}

\* They are no longer waiting; the others are.
LEMMA SettlesWaits ==
  ASSUME PointsInv, NEW n \in 1 .. Len(Line), Settles(n)
  PROVE  Waiting' = Waiting \ First(n) /\ First(n) \subseteq Waiting
<1>1. /\ Waiting = Range(Line) \union Tickets /\ Len(Line) \in Nat
      /\ Range(Line) = {Line[i] : i \in 1 .. Len(Line)}
      /\ \A op \in Range(Line), t \in Tickets : op # t
  BY WaitingSeqs
<1>2. DOMAIN Line = 1 .. Len(Line)
  BY LineShape DEF PointsInv
<1>3. /\ Len(Line') = Len(Line) - n /\ DOMAIN Line' = 1 .. Len(Line')
      /\ \A i \in 1 .. Len(Line') : Line'[i] = Line[i + n]
      /\ call' = call
  BY DEF Settles
<1>4. Range(Line') = {Line'[i] : i \in 1 .. Len(Line')}
  BY <1>3 DEF Range
<1>5. \A i, j \in 1 .. Len(Line) : Line[i] = Line[j] => i = j
  BY <1>2 DEF PointsInv, OneTicket
<1>6. First(n) = {Line[i] : i \in 1 .. n} /\ First(n) \subseteq Range(Line)
  <2>1. \A i \in 1 .. n : i \in 1 .. Len(Line)
    BY <1>1
  <2> QED BY <1>1, <2>1 DEF First
<1>7. Range(Line') = Range(Line) \ First(n)
  <2>1. ASSUME NEW i \in 1 .. Len(Line')  PROVE Line'[i] \in Range(Line) \ First(n)
    <3>1. i + n \in 1 .. Len(Line) /\ \A j \in 1 .. n : j # i + n /\ j \in 1 .. Len(Line)
      BY <1>1, <1>3
    <3>2. Line'[i] = Line[i + n]
      BY <1>3
    <3> QED BY <1>1, <1>5, <1>6, <3>1, <3>2
  <2>2. ASSUME NEW j \in 1 .. Len(Line), Line[j] \notin First(n)  PROVE Line[j] \in Range(Line')
    <3>1. j \notin 1 .. n
      BY <1>6, <2>2
    <3>2. j - n \in 1 .. Len(Line') /\ (j - n) + n = j
      BY <1>1, <1>3, <3>1
    <3>3. Line'[j - n] = Line[j]
      BY <1>3, <3>2
    <3> QED BY <1>4, <3>2, <3>3
  <2> QED BY <1>1, <1>4, <2>1, <2>2
<1>8. Tickets' = Tickets
  BY <1>3 DEF Tickets, Ticket, Holding
<1>9. Waiting' = Range(Line') \union Tickets'
  BY DEF Waiting, Tickets
<1> QED BY <1>1, <1>6, <1>7, <1>8, <1>9

\* The rows a transaction leaves are those the operations asked for.
LEMMA AppliedIsExact ==
  ASSUME PointsInv, BalanceTypes, ordered, NEW n \in 1 .. Len(Line), Settles(n),
         NEW ops, NEW store, RowsAfter(store, ops, n), store.rows = durable',
         \A i \in 1 .. n : ops[i] = Line[i],
         UNCHANGED <<cache, intended>>, NEW v \in Viewers
  PROVE  /\ Touching(v) = {} => durable'[v] = durable[v]
         /\ Exact(v) => Exact(v)'
<1>1. /\ Waiting' = Waiting \ First(n) /\ First(n) \subseteq Waiting
      /\ First(n) = {Line[i] : i \in 1 .. n}
  BY SettlesWaits DEF First
<1>2. /\ Len(Line) \in Nat /\ n \in Nat /\ \A i \in 1 .. n : Line[i] \in Waiting /\ i \in 1 .. Len(Line)
  BY <1>1, WaitingSeqs
<1>3. /\ (\A i \in 1 .. n : v \notin Line[i].viewers) => durable'[v] = durable[v]
      /\ durable'[v] = NoRow <=>
            /\ durable[v] = NoRow
            /\ \A i \in 1 .. n : v \in Line[i].viewers => Line[i].kind # "save"
      /\ \A i \in 1 .. n :
            /\ v \in Line[i].viewers /\ \A j \in i + 1 .. n : v \notin Line[j].viewers
            /\ durable'[v] # NoRow
            => durable'[v] = Line[i].points
  <2>1. \A i \in 1 .. n : \A j \in i + 1 .. n : j \in 1 .. n
    BY <1>2
  <2>2. /\ (\A i \in 1 .. n : v \notin ops[i].viewers) => durable'[v] = durable[v]
        /\ durable'[v] = NoRow <=>
              /\ durable[v] = NoRow
              /\ \A i \in 1 .. n : v \in ops[i].viewers => ops[i].kind # "save"
        /\ \A i \in 1 .. n :
              /\ v \in ops[i].viewers /\ \A j \in i + 1 .. n : v \notin ops[j].viewers
              /\ durable'[v] # NoRow
              => durable'[v] = ops[i].points
    BY DEF RowsAfter
  <2> QED BY <2>1, <2>2
<1>4. Touching(v) = {op \in Waiting : v \in op.viewers} /\ Touching(v)' = Touching(v) \ First(n)
  BY <1>1 DEF Touching
<1>5. Touching(v) = {} => durable'[v] = durable[v]
  BY <1>2, <1>3, <1>4
<1>6. \A i \in 1 .. Len(Line) : Line[i].seq = Finished + i
  BY LineShape DEF PointsInv, InOrder
<1>7. Finished \in Int /\ admitted \in Nat /\ Finished = admitted - Len(Line)
  BY <1>2 DEF Finished, PointsInv, Shape
<1>8. ASSUME Exact(v)  PROVE Exact(v)'
  <2>1. /\ cache[v] # NoRow => cache[v] = intended[v]
        /\ Touching(v) = {} => durable[v] = intended[v]
        /\ intended[v] = NoRow =>
             durable[v] = NoRow /\ \A op \in Touching(v) : op.kind # "save"
        /\ intended[v] # NoRow =>
             /\ durable[v] # NoRow \/ \E op \in Touching(v) : op.kind = "save"
             /\ \A op \in Touching(v) :
                  (\A other \in Touching(v) : other.seq <= op.seq) => op.points = intended[v]
    BY <1>8 DEF Exact
  <2>2. intended[v] = NoRow => durable'[v] = NoRow
    BY <1>2, <1>3, <1>4, <2>1
  <2>3. intended[v] # NoRow => durable'[v] # NoRow \/ \E op \in Touching(v)' : op.kind = "save"
    <3>1. ASSUME NEW op \in Touching(v), op.kind = "save", op \in First(n)  PROVE durable'[v] # NoRow
      BY <1>1, <1>3, <1>4, <3>1
    <3> QED BY <1>3, <1>4, <2>1, <3>1
  <2>4. ASSUME NEW op \in Touching(v)', \A other \in Touching(v)' : other.seq <= op.seq, intended[v] # NoRow
        PROVE  op.points = intended[v]
    <3>1. op.seq > Finished + n
      <4>1. op \in Waiting /\ op \notin First(n)
        BY <1>4
      <4>2. CASE op \in Range(Line)
        <5>1. PICK i \in 1 .. Len(Line) : op = Line[i]
          BY <4>2, WaitingSeqs
        <5>2. i \notin 1 .. n
          BY <1>1, <4>1, <5>1
        <5> QED BY <1>2, <1>6, <1>7, <5>1, <5>2
      <4>3. CASE op \in Tickets
        <5>1. PICK c \in Holding : op = Ticket(c) /\ op.seq = call[c].n
          BY <4>3 DEF Tickets, Ticket
        <5>2. call[c].n > admitted /\ call[c].n \in Int
          BY DEF PointsInv, InOrder, OneTicket
        <5> QED BY <1>2, <1>7, <5>1, <5>2
      <4> QED BY <4>1, <4>2, <4>3, WaitingSeqs
    <3>2. \A other \in First(n) : other.seq <= Finished + n
      BY <1>1, <1>2, <1>6, <1>7
    <3>3. op.seq \in Int /\ \A other \in Waiting : other.seq \in Int
      BY <1>4, WaitingSeqs
    <3>4. \A other \in Touching(v) : other.seq <= op.seq
      BY <1>1, <1>4, <1>7, <2>4, <3>1, <3>2, <3>3
    <3> QED BY <1>4, <2>1, <2>4, <3>4
  <2>5. ASSUME Touching(v)' = {}  PROVE durable'[v] = intended[v]
    <3>1. CASE Touching(v) = {}
      BY <1>5, <2>1, <3>1
    <3>2. CASE intended[v] = NoRow
      BY <2>2, <3>2
    <3>3. CASE Touching(v) # {} /\ intended[v] # NoRow
      <4> DEFINE places == {k \in 1 .. n : v \in Line[k].viewers}
                 top == Max(places)
      <4>1. places # {}
        <5>1. \E op \in Touching(v) : op \in First(n)
          BY <1>4, <2>5, <3>3
        <5> QED BY <1>1, <1>4, <5>1
      <4>2. top \in places /\ \A j \in places : j <= top
        BY <1>2, <4>1, MaxIn
      <4> HIDE DEF top
      <4>3. top \in 1 .. n /\ v \in Line[top].viewers /\ \A j \in top + 1 .. n : v \notin Line[j].viewers
        <5>1. \A j \in top + 1 .. n : j \in 1 .. n /\ ~(j <= top)
          BY <1>2, <4>2
        <5> QED BY <4>2, <5>1
      <4>4. durable'[v] # NoRow
        BY <2>3, <2>5, <3>3
      <4>5. durable'[v] = Line[top].points
        BY <1>3, <4>3, <4>4
      <4>6. Line[top] \in Touching(v)
        BY <1>2, <1>4, <4>3
      <4>7. \A other \in Touching(v) : other.seq <= Line[top].seq
        <5>1. ASSUME NEW other \in Touching(v)  PROVE other.seq <= Line[top].seq
          <6>1. PICK j \in 1 .. n : other = Line[j]
            BY <1>1, <1>4, <2>5
          <6>2. j \in places
            BY <1>4, <6>1
          <6> HIDE DEF places
          <6>3. j <= top /\ top \in 1 .. Len(Line) /\ j \in 1 .. Len(Line)
            BY <1>2, <4>2, <4>3, <6>2
          <6> QED BY <1>6, <1>7, <6>1, <6>3
        <5> QED BY <5>1
      <4> QED BY <2>1, <3>3, <4>5, <4>6, <4>7
    <3> QED BY <3>1, <3>2, <3>3
  <2> QED BY <2>1, <2>2, <2>3, <2>4, <2>5, <1>4 DEF Exact
<1> QED BY <1>5, <1>8

\* The first operations of the line, in a transaction or given up.
Finishes(n, ops) ==
  /\ Settles(n) /\ n \in 1 .. Len(Line)
  /\ DOMAIN ops = 1 .. n /\ \A i \in 1 .. n : ops[i] = Line[i]
  /\ \/ Commit(ops) /\ applied' = applied \union First(n) /\ failed' = failed
     \/ /\ failed' = failed \union First(n)
        /\ UNCHANGED <<durable, ledger, applied>>
  /\ UNCHANGED <<cache, pending, reset_pending, call, lock, resolved, intended, lost, doubtful, ordered>>

\* The three ways of the writer to finish operations (points.rs, run_points_writer).
LEMMA WriterFinishes ==
  ASSUME PointsInv, ApplyBatch \/ ReportBatch \/ ApplyOne
  PROVE  \E n, ops : Finishes(n, ops)
<1>1. UNCHANGED <<cache, pending, reset_pending, call, lock, intended, lost, doubtful, ordered>>
  BY DEF ApplyBatch, ReportBatch, ApplyOne, memory
<1>2. ASSUME NEW n \in 1 .. Len(Batch), NEW ops, NEW X, NEW ff, Advances(n, X, ff),
             DOMAIN ops = 1 .. n, \A i \in 1 .. n : ops[i] = Batch[i],
             \/ Commit(ops) /\ applied' = applied \union X /\ failed' = failed
             \/ failed' = failed \union X /\ UNCHANGED <<durable, ledger, applied>>
      PROVE  Finishes(n, ops)
  <2>1. Settles(n) /\ n \in 1 .. Len(Line)
    BY <1>2, AdvancesSettles
  <2>2. \A i \in 1 .. n : Line[i] = Batch[i]
    <3>1. /\ Len(Line) = Len(Batch) + Len(queue) /\ Len(Batch) \in Nat /\ Len(queue) \in Nat
          /\ \A i \in 1 .. Len(Line) : Line[i] = IF i <= Len(Batch) THEN Batch[i] ELSE queue[i - Len(Batch)]
      BY LineShape DEF PointsInv
    <3>2. \A i \in 1 .. n : i \in 1 .. Len(Line) /\ i <= Len(Batch)
      BY <3>1
    <3> QED BY <3>1, <3>2
  <2>3. X = First(n)
    <3>1. X = {Batch[i] : i \in 1 .. n}
      BY <1>2 DEF Advances
    <3>2. {Batch[i] : i \in 1 .. n} = {Line[i] : i \in 1 .. n}
      BY <2>2
    <3> QED BY <3>1, <3>2 DEF First
  <2>4. resolved' = resolved
    BY <1>2 DEF Advances, Ends, marks
  <2> QED BY <1>1, <1>2, <2>1, <2>2, <2>3, <2>4 DEF Finishes
<1>3. Batch \in Seq(Range(Batch)) /\ DOMAIN Batch = 1 .. Len(Batch)
  BY OwnRange DEF PointsInv, Shape, Batch
<1>4. CASE ApplyBatch \/ ReportBatch
  <2>1. Len(Batch) \in 1 .. Len(Batch) /\ \E ff : Advances(Len(Batch), Range(Batch), ff)
    BY <1>4, BatchAdvances
  <2>2. PICK ff : Advances(Len(Batch), Range(Batch), ff)
    BY <2>1
  <2>3. \/ Commit(Batch) /\ applied' = applied \union Range(Batch) /\ failed' = failed
        \/ failed' = failed \union Range(Batch) /\ UNCHANGED <<durable, ledger, applied>>
    <3>1. CASE ApplyBatch
      BY <3>1, CommitApplies DEF ApplyBatch, Batch
    <3>2. CASE ReportBatch
      BY <3>2 DEF ReportBatch, Batch, disk
    <3> QED BY <1>4, <3>1, <3>2
  <2>4. Finishes(Len(Batch), Batch)
    BY <1>2, <1>3, <2>1, <2>2, <2>3
  <2> QED BY <2>4
<1>5. CASE ApplyOne
  <2> DEFINE op == Head(writer.batch)
             ops == <<op>>
  <2>1. 1 \in 1 .. Len(Batch) /\ op = Batch[1] /\ \E ff : Advances(1, {op}, ff)
    BY <1>5, OneAdvances
  <2>2. PICK ff : Advances(1, {op}, ff)
    BY <2>1
  <2>3. DOMAIN ops = 1 .. 1 /\ Range(ops) = {op} /\ \A i \in 1 .. 1 : ops[i] = Batch[i]
    <3>1. ops[1] = Batch[1]
      BY <2>1
    <3> HIDE DEF op
    <3>2. DOMAIN ops = 1 .. 1 /\ Range(ops) = {op}
      BY DEF Range
    <3> QED BY <3>1, <3>2
  <2>4. \/ Commit(ops) /\ failed' = failed
        \/ failed' = failed \union {op} /\ UNCHANGED <<durable, ledger, applied>>
    BY <1>5, Zenon DEF ApplyOne
  <2> HIDE DEF op, ops
  <2>5. Commit(ops) => applied' = applied \union {op}
    BY <2>3, CommitApplies
  <2>6. Finishes(1, ops)
    BY <1>2, <2>1, <2>2, <2>3, <2>4, <2>5
  <2> QED BY <2>6
<1> QED BY <1>4, <1>5

\* Finishing operations drains the line.
LEMMA FinishesDrains ==
  ASSUME PointsInv, BalanceTypes, NEW n, NEW ops, Finishes(n, ops)  PROVE Drains
<1>1. n \in 1 .. Len(Line) /\ n \in Nat /\ Settles(n)
  BY WaitingSeqs DEF Finishes
<1>2. Waiting' = Waiting \ First(n) /\ First(n) \subseteq Waiting /\ First(n) = {Line[i] : i \in 1 .. n}
  BY <1>1, SettlesWaits DEF First
<1>3. /\ UNCHANGED <<cache, pending, reset_pending, call, lock, intended, lost, doubtful, ordered>>
      /\ resolved' \in Nat /\ (ordered => resolved <= resolved')
  BY DEF Finishes, PointsInv, Shape
<1>4. CASE Commit(ops) /\ failed' = failed
  <2> DEFINE store == [rows |-> durable', ledger |-> ledger']
  <2>1. \A i \in 1 .. n : ops[i] \in Operations
    BY <1>2 DEF Finishes, BalanceTypes, SoundOp
  <2>2. DOMAIN ops = 1 .. n /\ durable \in Rows /\ \A i \in 1 .. n : ops[i] = Line[i]
    BY DEF Finishes, BalanceTypes
  <2>3. RowsAfter(store, ops, n) /\ store.rows = durable'
    BY <1>1, <1>4, <2>1, <2>2, CommitRows
  <2> HIDE DEF store
  <2>4. durable' \in Rows
    BY <2>3 DEF RowsAfter
  <2>5. ASSUME ordered, NEW v \in Viewers
        PROVE  /\ Touching(v) = {} => durable'[v] = durable[v]
               /\ Exact(v) => Exact(v)'
    BY <1>1, <1>3, <2>2, <2>3, <2>5, AppliedIsExact
  <2> QED BY <1>2, <1>3, <1>4, <2>4, <2>5 DEF Drains
<1>5. CASE failed' = failed \union First(n) /\ durable' = durable
  <2>1. ASSUME NEW v \in Viewers, \A op \in failed' : v \in op.viewers => op \in failed, ordered, Exact(v)
        PROVE  Exact(v)'
    <3>1. ASSUME NEW i \in 1 .. n, Line[i] \in failed  PROVE FALSE
      <4>1. i \in DOMAIN Line /\ Line[i] \in Done
        BY <1>1, <3>1, LineShape DEF PointsInv, Done
      <4> QED BY <4>1 DEF PointsInv, OneTicket
    <3>2. \A op \in First(n) : v \notin op.viewers
      BY <1>2, <1>5, <2>1, <3>1
    <3>3. Touching(v)' = Touching(v)
      BY <1>2, <3>2 DEF Touching
    <3> QED BY <1>3, <1>5, <2>1, <3>3 DEF Exact
  <2>2. durable' \in Rows
    BY <1>5 DEF BalanceTypes
  <2> QED BY <1>2, <1>3, <1>5, <2>1, <2>2 DEF Drains
<1> QED BY <1>4, <1>5 DEF Finishes

-----------------------------------------------------------------------------
(* The steps of the callers that change rows.                              *)

\* A row that was loaded enters the cache unless one is there (points.rs, viewer).
LEMMA PromoteKeeps ==
  ASSUME BalanceInv, NEW c \in Callers, Promote(c)
  PROVE  BalanceTypes' /\ (ordered => Balanced)'
<1> DEFINE v == TheViewer(c)
           insert == cache[v] = NoRow
           rows == [cache EXCEPT ![v] = IF insert THEN call[c].row ELSE @]
           r == IF call[c].op = "view" THEN NoCall ELSE [call[c] EXCEPT !.at = "mutate", !.row = NoRow]
<1>1. PointsInv /\ BalanceTypes
  BY DEF BalanceInv
<1>2. call[c].at = "promote" /\ lock = NoCaller /\ call[c] \in CallRecords /\ Sound(call[c])
  BY <1>1 DEF Promote, Unlocked, BalanceTypes
<1>3. v \in Viewers /\ call[c].viewers = {v} /\ \A u \in Viewers : call[c].viewers = {u} => u = v
  BY <1>1, <1>2, TheViewerIs DEF Single
<1>4. call[c].row \in Nat
  BY <1>2 DEF Sound, CallRecords
<1>5. /\ rows \in Rows /\ rows[v] # NoRow
      /\ rows[v] = IF insert THEN call[c].row ELSE cache[v]
      /\ \A u \in Viewers \ {v} : rows[u] = cache[u]
      /\ \A u \in Viewers : cache[u] # NoRow => rows[u] = cache[u]
  BY <1>1, <1>3, <1>4, PointsAssumption DEF BalanceTypes, Rows
<1>6. doubtful' = doubtful \union IF insert /\ call[c].raced THEN {v} ELSE {}
  BY DEF Promote
<1>7. UNCHANGED <<durable, next_op, lock, queue, closed, admitted, resolved, writer, intended, failed, lost, ordered>>
  BY DEF Promote, disk, admission, marks
<1>8. \/ call[c].op = "view" /\ EvictCold(rows, pending, reset_pending, resolved)
      \/ call[c].op # "view" /\ cache' = rows /\ UNCHANGED <<pending, reset_pending>>
  BY DEF Promote
<1>9. /\ r \in CallRecords /\ Sound(r) /\ r.at \in {"idle", "mutate"}
      /\ r.at = "mutate" => r.viewers = {v} /\ call[c].op # "view"
  BY <1>2, <1>3 DEF Sound, CallRecords, NoCall, Single
<1>10. \E touched : /\ Turns(c, r, touched)
                    /\ \A u \in Viewers \ touched : cache[u] # NoRow => cache'[u] # NoRow
  <2>1. CASE call[c].op = "view"
    <3>1. call' = Races(c, Touched({}), [call EXCEPT ![c] = NoCall]) /\ r = NoCall
      BY <2>1 DEF Promote
    <3>2. Turns(c, r, Touched({}))
      BY <1>1, <1>9, <3>1, RacesTurn
    <3>3. \A u \in Viewers \ Touched({}) : cache[u] # NoRow => cache'[u] # NoRow
      BY DEF Touched, Cached
    <3> QED BY <3>2, <3>3
  <2>2. CASE call[c].op # "view"
    <3>1. call' = [Goes(c, "mutate") EXCEPT ![c].row = NoRow] /\ cache' = rows
          /\ r = [call[c] EXCEPT !.at = "mutate", !.row = NoRow]
      BY <2>2 DEF Promote
    <3>2. call' = [call EXCEPT ![c] = r]
      BY <1>1, <3>1 DEF Goes, BalanceTypes
    <3>3. Turns(c, r, {})
      BY <1>1, <1>9, <3>2, PlainTurn
    <3>4. \A u \in Viewers : cache[u] # NoRow => cache'[u] # NoRow
      BY <1>5, <3>1
    <3> QED BY <3>3, <3>4
  <2> QED BY <2>1, <2>2
<1>11. PICK touched : /\ Turns(c, r, touched)
                      /\ \A u \in Viewers \ touched : cache[u] # NoRow => cache'[u] # NoRow
  BY <1>10
<1>12. pending \in [Viewers -> Nat] /\ reset_pending \in Nat /\ resolved \in Nat
  BY <1>1 DEF BalanceTypes, PointsInv, Shape
<1> HIDE DEF rows, r, v
<1>13. Trims(rows, pending, reset_pending, resolved)
  <2>1. CASE EvictCold(rows, pending, reset_pending, resolved)
    BY <1>5, <1>12, <2>1, EvictColdTrims
  <2>2. CASE cache' = rows /\ UNCHANGED <<pending, reset_pending>>
    BY <1>5, <1>12, <2>2 DEF Trims
  <2> QED BY <1>8, <2>1, <2>2
<1>14. Waiting' = Waiting
  <2>1. c \notin Holding /\ c \notin Holding'
    BY <1>2, <1>9, <1>11 DEF Turns, Holding
  <2>2. Tickets' = Tickets
    BY <1>1, <1>11, <2>1, TurnsTickets
  <2>3. Line' = Line
    BY <1>7 DEF Line, Batch
  <2> QED BY <2>2, <2>3 DEF Waiting, Tickets
<1>15. \A u : Touching(u)' = Touching(u)
  BY <1>14 DEF Touching
<1>16. BalanceTypes'
  <2>1. /\ call' \in [Callers -> CallRecords] /\ \A d \in Callers : Sound(call'[d])
        /\ \A d \in Callers \ {c} : call'[d].at = call[d].at
        /\ call'[c] = r
    <3>1. /\ call' \in [Callers -> CallRecords] /\ \A d \in Callers : Sound(call'[d])
          /\ \A d \in Callers \ {c} : call'[d].at = call[d].at
      BY <1>1, <1>9, <1>11, TurnsTypes
    <3>2. call'[c] = r
      BY <1>11 DEF Turns
    <3> QED BY <3>1, <3>2
  <2>2. \A d \in Callers : call'[d].at = "capacity" <=> lock' = d
    BY <1>1, <1>2, <1>7, <1>9, <2>1, PointsAssumption DEF BalanceTypes
  <2>3. doubtful' \subseteq Viewers
    BY <1>1, <1>3, <1>6 DEF BalanceTypes
  <2>4. cache' \in Rows /\ pending' \in [Viewers -> Nat] /\ reset_pending' \in Nat
    BY <1>13 DEF Trims
  <2> QED BY <1>1, <1>7, <1>14, <2>1, <2>2, <2>3, <2>4 DEF BalanceTypes
<1>17. ASSUME ordered'  PROVE Balanced'
  <2>1. ordered /\ Balanced /\ UpToDate(call[c])
    BY <1>7, <1>17 DEF Balanced, BalanceInv
  <2>2. \A op \in Waiting : op.seq \in Nat /\ op.seq > resolved /\ op.kind \in {"save", "adjust", "reset", "clear"}
    BY <1>1, <2>1, WaitingSeqs DEF BalanceTypes, SoundOp, Operations
  <2>3. insert /\ v \notin doubtful' => Touching(v) = {} /\ call[c].row = durable[v]
    BY <1>2, <1>3, <1>6, <2>1 DEF UpToDate
  <2>4. Marked'
    <3> SUFFICES ASSUME NEW op \in Waiting, NEW u \in Viewers, u \in op.viewers
                 PROVE  /\ op.kind \in {"save", "adjust"} => op.seq <= pending'[u]
                        /\ op.kind = "clear" => op.seq <= reset_pending'
                        /\ op.kind = "reset" /\ u \notin doubtful' /\ cache'[u] # NoRow => op.seq <= pending'[u]
      BY <1>14 DEF Marked
    <3>1. /\ op.kind \in {"save", "adjust"} => op.seq <= pending[u]
          /\ op.kind = "clear" => op.seq <= reset_pending
          /\ op.kind = "reset" /\ u \notin doubtful /\ cache[u] # NoRow => op.seq <= pending[u]
      BY <2>1 DEF Balanced, Marked
    <3>2. /\ op.seq <= pending[u] => op.seq <= pending'[u]
          /\ op.seq <= reset_pending => op.seq <= reset_pending'
      BY <1>12, <1>13, <2>2, TrimsKeepsMarkers
    <3>3. ASSUME cache'[u] # NoRow, u \notin doubtful'  PROVE cache[u] # NoRow
      <4>1. cache'[u] = rows[u]
        BY <1>13, <3>3 DEF Trims
      <4>2. u = v => ~insert
        BY <2>3, <3>3 DEF Touching
      <4> QED BY <1>5, <3>3, <4>1, <4>2
    <3>4. u \notin doubtful' => u \notin doubtful
      BY <1>6
    <3> QED BY <3>1, <3>2, <3>3, <3>4
  <2>5. ASSUME NEW u \in Viewers, Clean(u)'  PROVE Exact(u)'
    <3>1. Exact(u) /\ u \notin doubtful'
      BY <1>6, <1>7, <2>1, <2>5 DEF Balanced, Clean
    <3>2. cache'[u] # NoRow => cache'[u] = intended[u]
      <4>1. cache'[u] # NoRow => cache'[u] = rows[u]
        BY <1>13 DEF Trims
      <4>2. rows[u] # NoRow => rows[u] = intended[u]
        <5>1. CASE u = v /\ insert
          BY <1>5, <2>3, <3>1, <5>1 DEF Exact
        <5>2. CASE ~(u = v /\ insert)
          BY <1>5, <3>1, <5>2 DEF Exact
        <5> QED BY <5>1, <5>2
      <4> QED BY <4>1, <4>2
    <3> QED BY <1>7, <1>15, <3>1, <3>2 DEF Exact
  <2>6. ASSUME NEW d \in Callers  PROVE UpToDate(call[d])'
    <3>1. CASE d = c
      <4>1. call'[c] = r
        BY <1>11 DEF Turns
      <4>2. r.at = "mutate" => cache'[v] # NoRow
        BY <1>5, <1>8, <1>9
      <4> QED BY <1>9, <3>1, <4>1, <4>2 DEF UpToDate
    <3>2. CASE d # c
      <4>1. \A u \in Viewers \ touched : Undisturbed(u)
        BY <1>7, <1>11, <1>15 DEF Undisturbed
      <4>2. UpToDate(call[d])
        BY <2>1 DEF Balanced
      <4> QED BY <1>1, <1>2, <1>7, <1>11, <1>12, <3>2, <4>1, <4>2, OthersStay
    <3> QED BY <3>1, <3>2
  <2> QED BY <2>4, <2>5, <2>6 DEF Balanced
<1> QED BY <1>16, <1>17

\* An operation the queue takes ends the line.
LEMMA AppendLine ==
  ASSUME PointsInv, NEW op, queue' = Append(queue, op), writer' = writer
  PROVE  Range(Line)' = Range(Line) \union {op}
<1>1. queue \in Seq(Range(queue) \union {op}) /\ Batch \in Seq(Range(Batch))
  BY SeqMonotonic DEF PointsInv, Shape, Batch
<1>2. /\ queue' \in Seq(Range(queue) \union {op}) /\ Len(queue') = Len(queue) + 1 /\ Len(queue) \in Nat
      /\ \A i \in 1 .. Len(queue) : queue'[i] = queue[i]
      /\ queue'[Len(queue) + 1] = op
  BY <1>1, AppendProperties, LenProperties
<1>3. /\ queue' \in Seq(Range(queue'))
      /\ \A x : x \in Range(queue') <=> \E i \in 1 .. Len(queue') : queue'[i] = x
      /\ \A x : x \in Range(queue) <=> \E i \in 1 .. Len(queue) : queue[i] = x
  <2>1. /\ queue' \in Seq(Range(queue'))
        /\ \A x : x \in Range(queue') <=> \E i \in 1 .. Len(queue') : queue'[i] = x
    BY <1>2, OwnRange
  <2>2. \A x : x \in Range(queue) <=> \E i \in 1 .. Len(queue) : queue[i] = x
    BY <1>1, OwnRange
  <2> QED BY <2>1, <2>2
<1>4. Range(queue') = Range(queue) \union {op}
  <2>1. ASSUME NEW x \in Range(queue')  PROVE x \in Range(queue) \/ x = op
    <3>1. PICK i \in 1 .. Len(queue) + 1 : queue'[i] = x
      BY <1>2, <1>3
    <3>2. i \in 1 .. Len(queue) \/ i = Len(queue) + 1
      BY <1>2
    <3> QED BY <1>2, <1>3, <3>1, <3>2
  <2>2. ASSUME NEW x \in Range(queue)  PROVE x \in Range(queue')
    <3>1. PICK i \in 1 .. Len(queue) : queue[i] = x
      BY <1>3
    <3>2. i \in 1 .. Len(queue') /\ queue'[i] = x
      BY <1>2, <3>1
    <3> QED BY <1>3, <3>2
  <2>3. op \in Range(queue')
    <3>1. Len(queue) + 1 \in 1 .. Len(queue')
      BY <1>2
    <3> QED BY <1>2, <1>3, <3>1
  <2> QED BY <2>1, <2>2, <2>3
<1>5. Line' = Batch \o queue'
  BY DEF Line, Batch
<1>6. Range(Line') = Range(Batch) \union Range(queue')
  BY <1>1, <1>3, <1>5, JoinRange
<1>7. Range(Line) = Range(Batch) \union Range(queue)
  BY WaitingSeqs
<1> QED BY <1>4, <1>6, <1>7

\* The ticket becomes an operation of the queue (points.rs, submit_points_op).
LEMMA SubmitKeeps ==
  ASSUME BalanceInv, NEW c \in Callers, Submit(c)
  PROVE  BalanceTypes' /\ (ordered => Balanced)'
<1> DEFINE op == Ticket(c)
<1>1. PointsInv /\ BalanceTypes
  BY DEF BalanceInv
<1>2. call[c].at = "submit" /\ c \in Holding /\ call' = [call EXCEPT ![c] = NoCall] /\ Push(c, op)
      /\ UNCHANGED <<durable, cache, pending, reset_pending, next_op, lock, resolved, writer, intended, failed, doubtful>>
  BY DEF Submit, Idle, Holding, Ticket, disk, memory, marks
<1>3. Turns(c, NoCall, {}) /\ Sound(NoCall) /\ UpToDate(NoCall) /\ NoCall.at = "idle"
  BY <1>1, <1>2, IdleIsSound, PlainTurn DEF Sound, NoCall
<1>4. op \in Waiting /\ \A other \in Range(Line) : other # op
  BY <1>1, <1>2, WaitingSeqs DEF Waiting, Tickets
<1> HIDE DEF op
<1>5. Tickets' = Tickets \ {op}
  <2>1. c \notin Holding'
    BY <1>3 DEF Turns, Holding
  <2> QED BY <1>1, <1>2, <1>3, <2>1, TurnsTickets DEF op
<1>6. \/ closed /\ lost' = lost \union {op} /\ UNCHANGED <<queue, admitted, ordered>>
      \/ queue' = Append(queue, op) /\ lost' = lost /\ (ordered' => ordered)
  <2>1. CASE closed
    BY <1>2, <2>1 DEF Push, admission
  <2>2. CASE ~closed
    <3>1. ordered' => ordered
      BY <1>2, <2>2, Zenon DEF Push
    <3>2. queue' = Append(queue, op) /\ lost' = lost
      BY <1>2, <2>2, Zenon DEF Push
    <3> QED BY <3>1, <3>2
  <2> QED BY <2>1, <2>2
<1>7. \/ lost' = lost \union {op} /\ Waiting' = Waiting \ {op}
      \/ lost' = lost /\ Waiting' = Waiting
  <2>1. CASE lost' = lost \union {op} /\ UNCHANGED <<queue, admitted, ordered>>
    <3>1. Line' = Line
      BY <1>2, <2>1 DEF Line, Batch
    <3>2. Waiting = Range(Line) \union Tickets /\ Waiting' = Range(Line) \union Tickets'
      BY <3>1 DEF Waiting, Tickets
    <3> QED BY <1>4, <1>5, <2>1, <3>2
  <2>2. CASE queue' = Append(queue, op) /\ lost' = lost
    <3>1. Range(Line)' = Range(Line) \union {op}
      BY <1>1, <1>2, <2>2, AppendLine
    <3>2. Waiting = Range(Line) \union Tickets /\ Waiting' = Range(Line)' \union Tickets'
      BY DEF Waiting, Tickets
    <3>3. op \in Tickets
      BY <1>2 DEF Tickets, op
    <3> QED BY <1>5, <2>2, <3>1, <3>2, <3>3
  <2> QED BY <1>6, <2>1, <2>2
<1>8. ordered' => ordered
  BY <1>6
<1>9. BalanceTypes'
  <2>1. /\ call' \in [Callers -> CallRecords] /\ \A d \in Callers : Sound(call'[d])
        /\ \A d \in Callers \ {c} : call'[d].at = call[d].at
        /\ call'[c] = NoCall
    <3>1. /\ call' \in [Callers -> CallRecords] /\ \A d \in Callers : Sound(call'[d])
          /\ \A d \in Callers \ {c} : call'[d].at = call[d].at
      BY <1>1, <1>3, TurnsTypes
    <3>2. call'[c] = NoCall
      BY <1>3 DEF Turns
    <3> QED BY <3>1, <3>2
  <2>2. \A d \in Callers : call'[d].at = "capacity" <=> lock' = d
    BY <1>1, <1>2, <1>3, <2>1 DEF BalanceTypes
  <2>3. \A other \in Waiting' : SoundOp(other)
    BY <1>1, <1>7 DEF BalanceTypes
  <2>4. failed' \union lost' \subseteq Operations
    BY <1>1, <1>2, <1>4, <1>7 DEF BalanceTypes, SoundOp
  <2> QED BY <1>1, <1>2, <2>1, <2>2, <2>3, <2>4 DEF BalanceTypes
<1>10. ASSUME ordered'  PROVE Balanced'
  <2>1. ordered /\ Balanced
    BY <1>8, <1>10 DEF BalanceInv
  <2>2. Marked'
    BY <1>2, <1>7, <2>1 DEF Balanced, Marked
  <2>3. ASSUME NEW u \in Viewers, Clean(u)'  PROVE Exact(u)'
    <3>1. Clean(u) /\ (lost' = lost \union {op} => u \notin op.viewers)
      BY <1>2, <1>7, <2>3 DEF Clean
    <3>2. Touching(u)' = Touching(u)
      BY <1>7, <3>1 DEF Touching
    <3> QED BY <1>2, <2>1, <3>1, <3>2 DEF Balanced, Exact
  <2>4. ASSUME NEW d \in Callers  PROVE UpToDate(call[d])'
    <3>1. CASE d = c
      <4>1. call'[c] = NoCall
        BY <1>3 DEF Turns
      <4> QED BY <3>1, <4>1 DEF UpToDate, NoCall
    <3>2. CASE d # c
      <4>1. \A u \in Viewers : Undisturbed(u)
        BY <1>2, <1>7 DEF Undisturbed, Touching
      <4>2. UpToDate(call[d]) /\ resolved \in Nat /\ resolved' = resolved
        BY <1>1, <1>2, <2>1 DEF Balanced, PointsInv, Shape
      <4> QED BY <1>1, <1>3, <3>2, <4>1, <4>2, OthersStay
    <3> QED BY <3>1, <3>2
  <2> QED BY <2>2, <2>3, <2>4 DEF Balanced
<1> QED BY <1>9, <1>10

\* The balance, its marker and its ticket in one critical section (points.rs,
\* award_points and adjust).
LEMMA MutateKeeps ==
  ASSUME BalanceInv, NEW c \in Callers, Mutate(c)
  PROVE  BalanceTypes' /\ (ordered => Balanced)'
<1>1. PointsInv /\ BalanceTypes
  BY DEF BalanceInv
<1>2. /\ call[c].at \in {"mutate", "capacity"} /\ lock \in {NoCaller, c} /\ lock' = NoCaller
      /\ call[c] \in CallRecords /\ Sound(call[c])
      /\ call[c].op \in {"award", "adjust"}
  BY <1>1 DEF Mutate, InSection, Unlocked, BalanceTypes, Sound, Single
<1>3. PICK v \in Viewers : /\ TheViewer(c) = v /\ call[c].viewers = {v}
                           /\ \A u \in Viewers : call[c].viewers = {u} => u = v
  BY <1>1, <1>2, TheViewerIs DEF Single
<1> DEFINE total(r) == IF call[c].op = "award" THEN Balance(r, v) + 1
                       ELSE IF Balance(r, v) > 0 THEN Balance(r, v) - 1 ELSE 0
           got == total(cache)
           asked == total(intended)
           rows == [cache EXCEPT ![v] = got]
           marked == [pending EXCEPT ![v] = next_op]
           step == [call[c] EXCEPT !.at = "submit", !.n = next_op, !.row = got, !.raced = FALSE]
           op == [seq |-> next_op, kind |-> IF call[c].op = "award" THEN "save" ELSE "adjust",
                  viewers |-> {v}, points |-> got]
<1>4. /\ cache \in Rows /\ intended \in Rows /\ cache[v] \in Nat \union {NoRow}
      /\ intended[v] \in Nat \union {NoRow} /\ next_op \in Nat /\ resolved \in Nat
      /\ pending \in [Viewers -> Nat] /\ reset_pending \in Nat
  BY <1>1, <1>3 DEF BalanceTypes, Rows, PointsInv, Shape
<1>5. got \in Nat /\ asked \in Nat /\ (cache[v] = intended[v] => got = asked)
  BY <1>2, <1>4 DEF Balance
<1>6. /\ UNCHANGED <<durable, queue, closed, admitted, resolved, writer, failed, lost, ordered>>
      /\ next_op' = next_op + 1
      /\ intended' = [intended EXCEPT ![v] = asked]
      /\ doubtful' = doubtful \union IF cache[v] = NoRow /\ call[c].raced THEN {v} ELSE {}
  BY <1>3 DEF Mutate, disk, admission, marks
<1>7. EvictCold(rows, marked, reset_pending, resolved) \/ (cache' = rows /\ pending' = marked /\ reset_pending' = reset_pending)
  BY <1>3 DEF Mutate
<1>8. call[c].op = "adjust" => cache[v] # NoRow
  BY <1>3 DEF Mutate, Known
<1>9. call' = Races(c, Touched({v}), [Goes(c, "submit") EXCEPT ![c].n = next_op, ![c].row = rows[v], ![c].raced = FALSE])
  BY <1>3 DEF Mutate
<1>10. /\ rows[v] = got /\ marked[v] = next_op
       /\ \A u \in Viewers \ {v} : rows[u] = cache[u] /\ marked[u] = pending[u]
       /\ rows \in Rows /\ marked \in [Viewers -> Nat]
  BY <1>3, <1>4, <1>5 DEF Rows
<1>11. /\ intended'[v] = asked
       /\ \A u \in Viewers \ {v} : intended'[u] = intended[u]
       /\ intended' \in Rows
  BY <1>3, <1>4, <1>5, <1>6 DEF Rows
<1> HIDE DEF total, got, asked, rows, marked
<1>12. /\ op \in Operations /\ op.seq = next_op /\ op.viewers = {v} /\ op.points = got
       /\ op.kind \in {"save", "adjust"} /\ (op.kind = "save" <=> call[c].op = "award")
  BY <1>3, <1>4, <1>5 DEF Operations
<1>13. /\ step.at = "submit" /\ step.n = next_op /\ step.row = got /\ step.viewers = {v}
       /\ step.op = call[c].op /\ step \in CallRecords
  BY <1>2, <1>3, <1>4, <1>5 DEF CallRecords, Single
<1>14. [Goes(c, "submit") EXCEPT ![c].n = next_op, ![c].row = rows[v], ![c].raced = FALSE]
         = [call EXCEPT ![c] = step]
  BY <1>1, <1>10 DEF Goes, BalanceTypes
<1> HIDE DEF step, op
<1>15. Sound(step)
  BY <1>2, <1>3, <1>5, <1>13, PointsAssumption DEF Sound, Single
<1>16. Turns(c, step, Touched({v}))
  BY <1>1, <1>9, <1>13, <1>14, RacesTurn
<1>17. rows \in Rows /\ marked \in [Viewers -> Nat] /\ reset_pending \in Nat /\ resolved \in Nat /\ next_op \in Nat
  <2>1. rows \in Rows /\ marked \in [Viewers -> Nat]
    BY <1>10
  <2>2. reset_pending \in Nat /\ resolved \in Nat /\ next_op \in Nat
    BY <1>4
  <2> QED BY <2>1, <2>2
<1>18. Trims(rows, marked, reset_pending, resolved)
  <2>1. CASE EvictCold(rows, marked, reset_pending, resolved)
    BY <1>17, <2>1, EvictColdTrims
  <2>2. CASE cache' = rows /\ pending' = marked /\ reset_pending' = reset_pending
    BY <1>17, <2>2 DEF Trims
  <2> QED BY <1>7, <2>1, <2>2
<1>19. Waiting' = Waiting \union {op}
  <2>1. c \notin Holding /\ c \in Holding'
    BY <1>2, <1>13, <1>16 DEF Turns, Holding
  <2>2. Ticket(c)' = op
    BY <1>13, <1>16 DEF Turns, Ticket, op
  <2>3. Tickets' = Tickets \union {op}
    <3> QED BY <1>1, <1>16, <2>1, <2>2, TurnsTickets
  <2>4. Line' = Line
    BY <1>6 DEF Line, Batch
  <2> QED BY <2>3, <2>4 DEF Waiting, Tickets
<1>20. SoundOp(op)
  BY <1>12 DEF SoundOp
<1>21. Touching(v)' = Touching(v) \union {op} /\ \A u \in Viewers \ {v} : Touching(u)' = Touching(u)
  <2>1. op.viewers = {v}
    BY <1>12
  <2>2. Touching(v)' = Touching(v) \union {op}
    BY <1>19, <2>1 DEF Touching
  <2>3. ASSUME NEW u \in Viewers \ {v}  PROVE Touching(u)' = Touching(u)
    <3>1. u \notin op.viewers
      BY <2>1
    <3> QED BY <1>19, <3>1 DEF Touching
  <2> QED BY <2>2, <2>3
<1>22. BalanceTypes'
  <2>1. /\ call' \in [Callers -> CallRecords] /\ \A d \in Callers : Sound(call'[d])
        /\ \A d \in Callers \ {c} : call'[d].at = call[d].at
    BY <1>1, <1>15, <1>16, TurnsTypes
  <2>2. call'[c] = step
    BY <1>16 DEF Turns
  <2>3. \A d \in Callers : call'[d].at = "capacity" <=> lock' = d
    BY <1>1, <1>2, <1>13, <2>1, <2>2, PointsAssumption DEF BalanceTypes
  <2>4. doubtful' \subseteq Viewers
    BY <1>1, <1>3, <1>6 DEF BalanceTypes
  <2>5. cache' \in Rows /\ pending' \in [Viewers -> Nat] /\ reset_pending' \in Nat
    BY <1>18 DEF Trims
  <2>6. \A other \in Waiting' : SoundOp(other)
    BY <1>1, <1>19, <1>20 DEF BalanceTypes
  <2>7. durable' \in Rows /\ failed' \union lost' \subseteq Operations
    BY <1>1, <1>6 DEF BalanceTypes
  <2> QED BY <1>11, <2>1, <2>3, <2>4, <2>5, <2>6, <2>7 DEF BalanceTypes
<1>23. ASSUME ordered'  PROVE Balanced'
  <2>1. ordered /\ Balanced /\ UpToDate(call[c])
    BY <1>6, <1>23 DEF Balanced, BalanceInv
  <2>2. /\ \A other \in Waiting : /\ other.seq \in Nat /\ other.seq > resolved /\ other.seq < next_op
                                  /\ other.kind \in {"save", "adjust", "reset", "clear"}
        /\ next_op > resolved
    BY <1>1, <1>4, <2>1, WaitingSeqs DEF BalanceTypes, SoundOp, Operations
  <2>3. cache[v] = NoRow /\ v \notin doubtful' => Touching(v) = {} /\ durable[v] = NoRow
    BY <1>2, <1>3, <1>6, <2>1 DEF UpToDate
  <2>4. Marked'
    <3>1. ASSUME NEW other \in Waiting, NEW u \in Viewers, u \in other.viewers
          PROVE  /\ other.kind \in {"save", "adjust"} => other.seq <= pending'[u]
                 /\ other.kind = "clear" => other.seq <= reset_pending'
                 /\ other.kind = "reset" /\ u \notin doubtful' /\ cache'[u] # NoRow => other.seq <= pending'[u]
      <4>1. /\ other.kind \in {"save", "adjust"} => other.seq <= pending[u]
            /\ other.kind = "clear" => other.seq <= reset_pending
            /\ other.kind = "reset" /\ u \notin doubtful /\ cache[u] # NoRow => other.seq <= pending[u]
        BY <2>1, <3>1 DEF Balanced, Marked
      <4>2. /\ other.seq <= marked[u] => other.seq <= pending'[u]
            /\ other.seq <= reset_pending => other.seq <= reset_pending'
        BY <1>17, <1>18, <2>2, TrimsKeepsMarkers
      <4>3. other.seq <= pending[u] => other.seq <= marked[u]
        BY <1>4, <1>10, <2>2
      <4>4. ASSUME cache'[u] # NoRow, u \notin doubtful'  PROVE cache[u] # NoRow /\ u \notin doubtful
        <5>1. cache'[u] = rows[u]
          BY <1>18, <4>4 DEF Trims
        <5>2. u = v => cache[u] # NoRow
          BY <2>3, <3>1, <4>4 DEF Touching
        <5> QED BY <1>6, <1>10, <4>4, <5>1, <5>2
      <4> QED BY <4>1, <4>2, <4>3, <4>4
    <3>2. next_op <= pending'[v]
      BY <1>3, <1>10, <1>17, <1>18, <2>2, TrimsKeepsMarkers
    <3> QED BY <1>19, <1>12, <3>1, <3>2 DEF Marked
  <2>5. ASSUME NEW u \in Viewers, Clean(u)'  PROVE Exact(u)'
    <3>1. Exact(u) /\ u \notin doubtful'
      BY <1>6, <2>1, <2>5 DEF Balanced, Clean
    <3>2. cache'[u] # NoRow => cache'[u] = rows[u]
      BY <1>18 DEF Trims
    <3>3. CASE u # v
      <4>1. /\ Touching(u)' = Touching(u) /\ intended'[u] = intended[u] /\ durable' = durable
            /\ rows[u] = cache[u]
        BY <1>6, <1>10, <1>11, <1>21, <3>3
      <4> QED BY <3>1, <3>2, <4>1 DEF Exact
    <3>4. CASE u = v
      <4>1. cache[v] = intended[v]
        BY <2>3, <3>1, <3>4 DEF Exact
      <4>2. intended'[v] = got /\ intended'[v] # NoRow /\ rows[v] = got
        BY <1>5, <1>10, <1>11, <4>1, PointsAssumption
      <4>3. durable[v] # NoRow \/ \E other \in Touching(v)' : other.kind = "save"
        <5>1. CASE call[c].op = "award"
          BY <1>12, <1>21, <5>1
        <5>2. CASE call[c].op # "award"
          <6>1. intended[v] # NoRow
            BY <1>2, <1>8, <4>1, <5>2
          <6> QED BY <1>21, <3>1, <3>4, <6>1 DEF Exact
        <5> QED BY <5>1, <5>2
      <4>4. ASSUME NEW other \in Touching(v)', \A third \in Touching(v)' : third.seq <= other.seq
            PROVE  other.points = got
        <5>1. op.seq <= other.seq
          BY <1>21, <4>4
        <5>2. other \notin Waiting
          BY <1>4, <1>12, <2>2, <5>1
        <5>3. other = op
          BY <1>21, <5>2 DEF Touching
        <5> QED BY <1>12, <5>3
      <4>5. Touching(v)' # {}
        BY <1>21
      <4>6. durable' = durable /\ (cache'[v] # NoRow => cache'[v] = intended'[v])
        BY <1>6, <3>2, <3>4, <4>2
      <4>7. intended'[v] = got /\ intended'[v] # NoRow
        BY <4>2
      <4>8. Exact(v)'
        BY <4>3, <4>4, <4>5, <4>6, <4>7 DEF Exact
      <4> QED BY <3>4, <4>8
    <3> QED BY <3>3, <3>4
  <2>6. ASSUME NEW d \in Callers  PROVE UpToDate(call[d])'
    <3>1. CASE d = c
      <4>1. call'[c] = step
        BY <1>16 DEF Turns
      <4> QED BY <1>13, <3>1, <4>1 DEF UpToDate
    <3>2. CASE d # c
      <4>1. \A u \in Viewers \ Touched({v}) : Undisturbed(u)
        <5> TAKE u \in Viewers \ Touched({v})
        <5>1. u # v /\ (cache[u] # NoRow => cache'[u] # NoRow)
          BY DEF Touched, Cached
        <5> QED BY <1>6, <1>21, <5>1 DEF Undisturbed
      <4>2. UpToDate(call[d]) /\ resolved' = resolved /\ resolved' \in Nat /\ resolved <= resolved'
        BY <1>4, <1>6, <2>1 DEF Balanced
      <4> QED BY <1>1, <1>2, <1>4, <1>16, <3>2, <4>1, <4>2, OthersStay
    <3> QED BY <3>1, <3>2
  <2> QED BY <2>4, <2>5, <2>6 DEF Balanced
<1> QED BY <1>22, <1>23

\* Memory, markers and push in one critical section (points.rs, reset).
LEMMA ResetKeeps ==
  ASSUME BalanceInv, NEW c \in Callers, Reset(c)
  PROVE  BalanceTypes' /\ (ordered => Balanced)'
<1>1. PointsInv /\ BalanceTypes
  BY DEF BalanceInv
<1>2. call[c].at = "reset" /\ lock = NoCaller /\ call[c] \in CallRecords /\ Sound(call[c])
  BY <1>1 DEF Reset, Unlocked, BalanceTypes
<1>3. PICK viewers \in SUBSET Viewers, kind \in {"reset", "clear"}, seen \in Nat :
        /\ call[c].viewers = viewers /\ call[c].op = kind /\ call[c].n = seen
        /\ kind = "clear" => viewers = Viewers
  BY <1>2 DEF Sound, CallRecords, Single
<1> DEFINE zero(r) == [v \in Viewers |-> IF v \in viewers /\ r[v] # NoRow THEN 0 ELSE r[v]]
           rows == zero(cache)
           marked == [v \in Viewers |-> IF kind # "clear" /\ v \in viewers /\ cache[v] # NoRow THEN next_op ELSE pending[v]]
           marker == IF kind = "clear" THEN next_op ELSE reset_pending
           op == [seq |-> next_op, kind |-> kind, viewers |-> viewers, points |-> 0]
<1>4. /\ cache \in Rows /\ intended \in Rows /\ next_op \in Nat /\ resolved \in Nat
      /\ pending \in [Viewers -> Nat] /\ reset_pending \in Nat
  BY <1>1 DEF BalanceTypes, PointsInv, Shape
<1>5. /\ UNCHANGED <<durable, lock, resolved, writer, failed, doubtful>>
      /\ next_op' = next_op + 1 /\ intended' = zero(intended)
      /\ EvictCold(rows, marked, marker, seen) /\ Push(c, op)
      /\ call' = Races(c, Touched(viewers), [call EXCEPT ![c] = NoCall])
  BY <1>3 DEF Reset, disk, marks
<1>6. /\ rows \in Rows /\ marked \in [Viewers -> Nat] /\ marker \in Nat
      /\ \A u \in Viewers : /\ rows[u] = IF u \in viewers /\ cache[u] # NoRow THEN 0 ELSE cache[u]
                            /\ marked[u] = IF kind # "clear" /\ u \in viewers /\ cache[u] # NoRow THEN next_op ELSE pending[u]
  BY <1>4 DEF Rows
<1>7. /\ intended' \in Rows
      /\ \A u \in Viewers : intended'[u] = IF u \in viewers /\ intended[u] # NoRow THEN 0 ELSE intended[u]
  BY <1>4, <1>5 DEF Rows
<1>8. marker = IF kind = "clear" THEN next_op ELSE reset_pending
  OBVIOUS
<1>9. /\ op \in Operations /\ op.seq = next_op /\ op.viewers = viewers /\ op.points = 0 /\ op.kind = kind
      /\ SoundOp(op)
  BY <1>3, <1>4 DEF Operations, SoundOp
<1> HIDE DEF zero, rows, marked, marker, op
<1>10. Trims(rows, marked, marker, seen)
  BY <1>5, <1>6, EvictColdTrims
<1>11. Turns(c, NoCall, Touched(viewers)) /\ Sound(NoCall) /\ NoCall.at = "idle"
  BY <1>1, <1>5, IdleIsSound, RacesTurn DEF Sound, NoCall
<1>12. Tickets' = Tickets
  <2>1. c \notin Holding /\ c \notin Holding'
    BY <1>2, <1>11 DEF Turns, Holding
  <2> QED BY <1>1, <1>11, <2>1, TurnsTickets
<1>13. \/ closed /\ lost' = lost \union {op} /\ UNCHANGED <<queue, ordered>>
       \/ queue' = Append(queue, op) /\ lost' = lost /\ (ordered' => ordered)
  <2>1. CASE closed
    BY <1>5, <2>1 DEF Push, admission
  <2>2. CASE ~closed
    <3>1. ordered' => ordered
      BY <1>5, <2>2, Zenon DEF Push
    <3>2. queue' = Append(queue, op) /\ lost' = lost
      BY <1>5, <2>2, Zenon DEF Push
    <3> QED BY <3>1, <3>2
  <2> QED BY <2>1, <2>2
<1>14. \/ lost' = lost \union {op} /\ Waiting' = Waiting
       \/ lost' = lost /\ Waiting' = Waiting \union {op}
  <2>1. CASE lost' = lost \union {op} /\ UNCHANGED <<queue, ordered>>
    <3>1. Line' = Line
      BY <1>5, <2>1 DEF Line, Batch
    <3> QED BY <1>12, <2>1, <3>1 DEF Waiting, Tickets
  <2>2. CASE queue' = Append(queue, op) /\ lost' = lost
    <3>1. Range(Line)' = Range(Line) \union {op}
      BY <1>1, <1>5, <2>2, AppendLine
    <3>2. Waiting = Range(Line) \union Tickets /\ Waiting' = Range(Line)' \union Tickets'
      BY DEF Waiting, Tickets
    <3> QED BY <1>12, <2>2, <3>1, <3>2
  <2> QED BY <1>13, <2>1, <2>2
<1>15. ordered' => ordered
  BY <1>13
<1>16. \A u \in Viewers \ viewers : Touching(u)' = Touching(u)
  <2>1. ASSUME NEW u \in Viewers \ viewers  PROVE Touching(u)' = Touching(u)
    <3>1. u \notin op.viewers
      BY <1>9
    <3> QED BY <1>14, <3>1 DEF Touching
  <2> QED BY <2>1
<1>17. BalanceTypes'
  <2>1. /\ call' \in [Callers -> CallRecords] /\ \A d \in Callers : Sound(call'[d])
        /\ \A d \in Callers \ {c} : call'[d].at = call[d].at
    BY <1>1, <1>11, TurnsTypes
  <2>2. call'[c] = NoCall
    BY <1>11 DEF Turns
  <2>3. \A d \in Callers : call'[d].at = "capacity" <=> lock' = d
    BY <1>1, <1>2, <1>5, <1>11, <2>1, <2>2, PointsAssumption DEF BalanceTypes
  <2>4. cache' \in Rows /\ pending' \in [Viewers -> Nat] /\ reset_pending' \in Nat
    BY <1>10 DEF Trims
  <2>5. \A other \in Waiting' : SoundOp(other)
    BY <1>1, <1>9, <1>14 DEF BalanceTypes
  <2>6. durable' \in Rows /\ failed' \union lost' \subseteq Operations /\ doubtful' \subseteq Viewers
    BY <1>1, <1>5, <1>9, <1>14 DEF BalanceTypes
  <2> QED BY <1>7, <2>1, <2>3, <2>4, <2>5, <2>6 DEF BalanceTypes
<1>18. ASSUME ordered'  PROVE Balanced'
  <2>1. ordered /\ Balanced /\ UpToDate(call[c])
    BY <1>15, <1>18 DEF Balanced, BalanceInv
  <2>2. seen <= resolved
    BY <1>2, <1>3, <2>1 DEF UpToDate
  <2>3. /\ \A other \in Waiting : /\ other.seq \in Nat /\ other.seq > seen /\ other.seq < next_op
                                  /\ other.kind \in {"save", "adjust", "reset", "clear"}
        /\ next_op > seen
    <3>1. /\ \A other \in Waiting : /\ other.seq \in Nat /\ other.seq > resolved /\ other.seq < next_op
                                    /\ other.kind \in {"save", "adjust", "reset", "clear"}
          /\ next_op > resolved
      BY <1>1, <1>4, <2>1, WaitingSeqs DEF BalanceTypes, SoundOp, Operations
    <3> QED BY <1>3, <1>4, <2>2, <3>1
  <2>4. \A u \in Viewers : cache'[u] # NoRow => cache'[u] = rows[u] /\ cache[u] # NoRow
    <3>1. \A u \in Viewers : cache'[u] # NoRow => cache'[u] = rows[u]
      BY <1>10 DEF Trims
    <3> QED BY <1>6, <3>1
  <2>5. Marked'
    <3>1. ASSUME NEW other \in Waiting, NEW u \in Viewers, u \in other.viewers
          PROVE  /\ other.kind \in {"save", "adjust"} => other.seq <= pending'[u]
                 /\ other.kind = "clear" => other.seq <= reset_pending'
                 /\ other.kind = "reset" /\ u \notin doubtful' /\ cache'[u] # NoRow => other.seq <= pending'[u]
      <4>1. /\ other.kind \in {"save", "adjust"} => other.seq <= pending[u]
            /\ other.kind = "clear" => other.seq <= reset_pending
            /\ other.kind = "reset" /\ u \notin doubtful /\ cache[u] # NoRow => other.seq <= pending[u]
        BY <2>1, <3>1 DEF Balanced, Marked
      <4>2. /\ other.seq <= marked[u] => other.seq <= pending'[u]
            /\ other.seq <= marker => other.seq <= reset_pending'
        BY <1>3, <1>6, <1>10, <2>3, TrimsKeepsMarkers
      <4>3. /\ other.seq <= pending[u] => other.seq <= marked[u]
            /\ other.seq <= reset_pending => other.seq <= marker
        BY <1>4, <1>6, <1>8, <2>3
      <4> QED BY <1>5, <2>4, <4>1, <4>2, <4>3
    <3>2. ASSUME NEW u \in viewers
          PROVE  /\ kind = "clear" => next_op <= reset_pending'
                 /\ kind = "reset" /\ cache'[u] # NoRow => next_op <= pending'[u]
      <4>1. /\ next_op <= marked[u] => next_op <= pending'[u]
            /\ next_op <= marker => next_op <= reset_pending'
        BY <1>3, <1>4, <1>6, <1>10, <2>3, TrimsKeepsMarkers
      <4>2. kind = "clear" => next_op <= marker
        BY <1>4, <1>8
      <4>3. kind = "reset" /\ cache'[u] # NoRow => next_op <= marked[u]
        BY <1>4, <1>6, <2>4
      <4> QED BY <4>1, <4>2, <4>3
    <3>3. \A other \in Waiting' : other \in Waiting \/ other = op
      BY <1>14
    <3> QED BY <1>3, <1>9, <3>1, <3>2, <3>3 DEF Marked
  <2>6. ASSUME NEW u \in Viewers, Clean(u)'  PROVE Exact(u)'
    <3>1. Exact(u) /\ (lost' = lost \union {op} => u \notin viewers)
      BY <1>5, <1>9, <1>14, <2>1, <2>6 DEF Balanced, Clean
    <3>2. CASE u \notin viewers
      <4>1. /\ Touching(u)' = Touching(u) /\ intended'[u] = intended[u] /\ durable' = durable
            /\ rows[u] = cache[u]
        BY <1>5, <1>6, <1>7, <1>16, <3>2
      <4> QED BY <2>4, <3>1, <4>1 DEF Exact
    <3>3. CASE u \in viewers
      <4>1. Touching(u)' = Touching(u) \union {op}
        BY <1>9, <1>14, <3>1, <3>3 DEF Touching
      <4>2. cache'[u] # NoRow => cache'[u] = intended'[u]
        BY <1>6, <1>7, <2>4, <3>1, <3>3, PointsAssumption DEF Exact
      <4>3. intended'[u] # NoRow => intended[u] # NoRow /\ intended'[u] = 0
        BY <1>7, <3>3
      <4>4. intended'[u] = NoRow => intended[u] = NoRow
        BY <1>7, <3>3, PointsAssumption
      <4>5. ASSUME NEW other \in Touching(u)', \A third \in Touching(u)' : third.seq <= other.seq
            PROVE  other.points = 0
        <5>1. op.seq <= other.seq
          BY <4>1, <4>5
        <5>2. other \notin Waiting
          BY <1>4, <1>9, <2>3, <5>1
        <5>3. other = op
          BY <4>1, <5>2 DEF Touching
        <5> QED BY <1>9, <5>3
      <4>6. op.kind # "save"
        BY <1>3, <1>9
      <4> QED BY <1>5, <3>1, <4>1, <4>2, <4>3, <4>4, <4>5, <4>6 DEF Exact
    <3> QED BY <3>2, <3>3
  <2>7. ASSUME NEW d \in Callers  PROVE UpToDate(call[d])'
    <3>1. CASE d = c
      <4>1. call'[c] = NoCall
        BY <1>11 DEF Turns
      <4> QED BY <3>1, <4>1 DEF UpToDate, NoCall
    <3>2. CASE d # c
      <4>1. \A u \in Viewers \ Touched(viewers) : Undisturbed(u)
        <5> TAKE u \in Viewers \ Touched(viewers)
        <5>1. u \notin viewers /\ (cache[u] # NoRow => cache'[u] # NoRow)
          BY DEF Touched, Cached
        <5> QED BY <1>5, <1>16, <5>1 DEF Undisturbed
      <4>2. UpToDate(call[d]) /\ resolved' = resolved /\ resolved' \in Nat /\ resolved <= resolved'
        BY <1>4, <1>5, <2>1 DEF Balanced
      <4> QED BY <1>1, <1>2, <1>4, <1>11, <3>2, <4>1, <4>2, OthersStay
    <3> QED BY <3>1, <3>2
  <2> QED BY <2>5, <2>6, <2>7 DEF Balanced
<1> QED BY <1>17, <1>18

-----------------------------------------------------------------------------
(* The balances agree.                                                     *)

\* The cache is warmed from the disk.
LEMMA BalanceInit == PointsInit => BalanceInv
<1> SUFFICES ASSUME PointsInit  PROVE BalanceInv
  OBVIOUS
<1>1. PointsInv
  BY InitInv
<1>2. Line = <<>> /\ Waiting = {}
  <2>1. Line = <<>>
    BY DEF PointsInit, NoBatch, Batch, Line
  <2>2. Holding = {}
    BY DEF PointsInit, NoCall, Holding
  <2>3. Range(<<>>) = {}
    BY DEF Range
  <2> QED BY <2>1, <2>2, <2>3 DEF Waiting
<1>3. durable \in Rows /\ durable = [v \in Viewers |-> IF v \in Registered THEN 1 ELSE NoRow] /\ intended = durable
  BY DEF PointsInit, Rows
<1>4. PICK warm \in SUBSET Cached(durable) : cache = [v \in Viewers |-> IF v \in warm THEN durable[v] ELSE NoRow]
  BY DEF PointsInit
<1>5. cache \in Rows /\ \A v \in Viewers : cache[v] # NoRow => cache[v] = durable[v]
  BY <1>3, <1>4 DEF Rows
<1>6. call = [c \in Callers |-> NoCall] /\ Sound(NoCall) /\ UpToDate(NoCall) /\ NoCall \in CallRecords /\ NoCall.at = "idle"
  BY IdleIsSound DEF PointsInit, Sound, NoCall
<1>7. BalanceTypes
  <2>1. \A c \in Callers : call[c].at = "capacity" <=> lock = c
    BY <1>6, PointsAssumption DEF PointsInit
  <2>2. call \in [Callers -> CallRecords] /\ \A c \in Callers : Sound(call[c])
    BY <1>6
  <2> QED BY <1>2, <1>3, <1>5, <2>1, <2>2 DEF BalanceTypes, PointsInit
<1>8. Balanced
  <2>1. Marked
    BY <1>2 DEF Marked
  <2>2. \A c \in Callers : UpToDate(call[c])
    BY <1>6
  <2>3. ASSUME NEW v \in Viewers  PROVE Exact(v)
    BY <1>2, <1>3, <1>5 DEF Exact, Touching
  <2> QED BY <2>1, <2>2, <2>3 DEF Balanced
<1> QED BY <1>1, <1>7, <1>8 DEF BalanceInv

\* Every step keeps the balances.
LEMMA BalanceNext == BalanceInv /\ [Next]_vars => BalanceInv'
<1> SUFFICES ASSUME BalanceInv, [Next]_vars  PROVE BalanceTypes' /\ (ordered => Balanced)'
  <2>1. BalanceInv => PointsInv
    BY DEF BalanceInv
  <2>2. BalanceInv /\ [Next]_vars => PointsInv'
    BY <2>1, NextKeeps
  <2> QED BY <2>2 DEF BalanceInv
<1>1. PointsInv /\ BalanceTypes
  BY DEF BalanceInv
<1>2. ASSUME NEW c \in Callers, NEW r, Looks(c, r)
      PROVE  BalanceTypes' /\ (ordered => Balanced)'
  BY <1>2, LooksKeeps
<1>3. ASSUME NEW c \in Callers, CallerBegins(c)  PROVE BalanceTypes' /\ (ordered => Balanced)'
  <2>1. \/ \E op \in {"view", "award", "adjust"}, v \in Viewers : Begin(c, op, v)
        \/ \E kind \in {"reset", "clear"}, vs \in SUBSET Viewers :
             (kind = "clear" => vs = Viewers) /\ BeginReset(c, kind, vs)
    <3>1. CASE \E v \in Viewers : Begin(c, "award", v)
      BY <3>1
    <3>2. CASE \E v \in Viewers, op \in {"view", "adjust"} : Begin(c, op, v)
      BY <3>2
    <3>3. CASE \E v \in Viewers : BeginReset(c, "reset", {v})
      <4>1. PICK v \in Viewers : BeginReset(c, "reset", {v})
        BY <3>3
      <4>2. {v} \in SUBSET Viewers
        OBVIOUS
      <4> QED BY <4>1, <4>2
    <3>4. CASE BeginReset(c, "clear", Viewers)
      BY <3>4
    <3> QED BY <1>3, <3>1, <3>2, <3>3, <3>4 DEF CallerBegins
  <2>2. \E r : Looks(c, r)
    BY <1>1, <2>1, BeginLooks, BeginResetLooks
  <2> QED BY <1>2, <2>2
<1>4. ASSUME NEW c \in Callers, CallerProceeds(c)  PROVE BalanceTypes' /\ (ordered => Balanced)'
  <2>1. CASE ReadPending(c) \/ Load(c) \/ AdjustUnknown(c) \/ AwaitSlot(c) \/ Reject(c)
    <3>1. \E r : Looks(c, r)
      BY <1>1, <2>1, ReadPendingLooks, LoadLooks, MutateLooks
    <3> QED BY <1>2, <3>1
  <2>2. CASE Promote(c)
    BY <2>2, PromoteKeeps
  <2>3. CASE Mutate(c)
    BY <2>3, MutateKeeps
  <2>4. CASE Submit(c)
    BY <2>4, SubmitKeeps
  <2>5. CASE Reset(c)
    BY <2>5, ResetKeeps
  <2> QED BY <1>4, <2>1, <2>2, <2>3, <2>4, <2>5 DEF CallerProceeds
<1>5. ASSUME WriterStep \/ Close \/ Join  PROVE BalanceTypes' /\ (ordered => Balanced)'
  <2>1. Drains
    <3>1. CASE PopBatch \/ Moves
      BY <1>1, <3>1, MovesDrain
    <3>2. CASE ApplyBatch \/ ReportBatch \/ ApplyOne
      BY <1>1, <3>2, WriterFinishes, FinishesDrains
    <3> QED BY <1>5, <3>1, <3>2 DEF WriterStep, Moves
  <2> QED BY <2>1, DrainsKeeps
<1>6. ASSUME UNCHANGED vars  PROVE BalanceTypes' /\ (ordered => Balanced)'
  <2>1. /\ UNCHANGED <<durable, cache, pending, reset_pending, call, lock, intended, failed, lost, doubtful, ordered, resolved>>
        /\ UNCHANGED <<writer, queue>>
    BY <1>6 DEF vars, disk, memory, admission, marks, history
  <2>2. Waiting' = Waiting
    BY <2>1 DEF Waiting, Line, Batch, Ticket, Holding
  <2>3. \A v \in Viewers : Exact(v)' <=> Exact(v)
    BY <2>1, <2>2 DEF Exact, Touching
  <2>4. resolved \in Nat /\ durable \in Rows
    BY <1>1 DEF PointsInv, Shape, BalanceTypes
  <2>5. Drains
    BY <2>1, <2>2, <2>3, <2>4 DEF Drains
  <2> QED BY <2>5, DrainsKeeps
<1> QED BY <1>3, <1>4, <1>5, <1>6 DEF Next

\* With every write finished, and while the queue holds the order of the
\* sequences, the balance on disk and the one in the cache are the sum of what
\* was asked, whatever calls, evictions, reloads, resets, retries and fallbacks
\* came between (points.rs, award_points, adjust, reset and run_points_writer).
THEOREM BalancesAgree == Spec => []BalancesAreExact
<1>1. BalanceInv => BalancesAreExact
  <2> SUFFICES ASSUME BalanceInv, ordered, Quiet, NEW v \in Viewers,
                      v \notin doubtful \union UNION {op.viewers : op \in failed \union lost}
               PROVE  durable[v] = intended[v] /\ cache[v] \in {NoRow, durable[v]}
    BY DEF BalancesAreExact
  <2>1. Exact(v)
    BY DEF BalanceInv, Balanced, Clean
  <2>2. Touching(v) = {}
    <3>1. Holding = {} /\ queue = <<>> /\ Batch = <<>>
      BY DEF Quiet, Unsubmitted, Holding, Batch
    <3>2. Range(<<>>) = {}
      BY DEF Range
    <3>3. Range(Line) = {}
      BY <3>1, <3>2, WaitingSeqs DEF BalanceInv
    <3> QED BY <3>1, <3>3 DEF Touching, Waiting
  <2> QED BY <2>1, <2>2 DEF Exact
<1> QED BY <1>1, BalanceInit, BalanceNext, PTL DEF Spec

\* A row leaves the cache only with its marker at or below the watermark.
LEMMA OnlyCleanRowsLeave ==
  ASSUME BalanceInv, ordered, [Next]_vars, NEW v \in Viewers, cache[v] # NoRow, cache'[v] = NoRow
  PROVE  pending[v] <= resolved
<1>1. PointsInv /\ BalanceTypes /\ Balanced
  BY DEF BalanceInv
<1>2. /\ cache \in Rows /\ next_op \in Nat /\ resolved \in Nat /\ resolved < next_op
      /\ pending \in [Viewers -> Nat] /\ reset_pending \in Nat
  BY <1>1, WaitingSeqs DEF BalanceTypes, PointsInv, Shape
<1>3. ASSUME NEW rows \in Rows, NEW marked \in [Viewers -> Nat], NEW marker \in Nat, NEW seen \in Nat,
             EvictCold(rows, marked, marker, seen), seen <= resolved,
             rows[v] # NoRow, marked[v] \in {pending[v], next_op}
      PROVE  pending[v] <= resolved
  <2>1. marked[v] <= seen
    BY <1>3, EvictColdTrims DEF Trims
  <2> QED BY <1>2, <1>3, <2>1
<1>4. ASSUME NEW c \in Callers, Promote(c)  PROVE pending[v] <= resolved
  <2> DEFINE w == TheViewer(c)
             rows == [cache EXCEPT ![w] = IF cache[w] = NoRow THEN call[c].row ELSE @]
  <2>1. call[c].at = "promote" /\ call[c] \in CallRecords /\ Sound(call[c])
    BY <1>1, <1>4 DEF Promote, BalanceTypes
  <2>2. w \in Viewers /\ call[c].row \in Nat
    BY <1>1, <2>1, TheViewerIs DEF Single, Sound, CallRecords
  <2>3. rows \in Rows /\ rows[v] # NoRow
    BY <1>2, <2>2 DEF Rows
  <2>4. EvictCold(rows, pending, reset_pending, resolved) \/ cache' = rows
    BY <1>4 DEF Promote
  <2> HIDE DEF rows
  <2> QED BY <1>2, <1>3, <2>3, <2>4
<1>5. ASSUME NEW c \in Callers, Mutate(c)  PROVE pending[v] <= resolved
  <2>1. call[c].at \in Single
    BY <1>5 DEF Mutate, InSection, Single
  <2>2. PICK w \in Viewers : w = TheViewer(c)
    BY <1>1, <2>1, TheViewerIs
  <2>3. \E total \in Nat :
          \/ cache' = [cache EXCEPT ![w] = total]
          \/ EvictCold([cache EXCEPT ![w] = total], [pending EXCEPT ![w] = next_op], reset_pending, resolved)
    <3> DEFINE total == IF call[c].op = "award" THEN Balance(cache, w) + 1
                     ELSE IF Balance(cache, w) > 0 THEN Balance(cache, w) - 1 ELSE 0
    <3>1. total \in Nat
      BY <1>2 DEF Balance, Rows
    <3>2. \/ EvictCold([cache EXCEPT ![w] = total], [pending EXCEPT ![w] = next_op], reset_pending, resolved)
          \/ cache' = [cache EXCEPT ![w] = total]
      BY <1>5, <2>2 DEF Mutate
    <3> HIDE DEF total
    <3> QED BY <3>1, <3>2
  <2>4. PICK total \in Nat :
          \/ cache' = [cache EXCEPT ![w] = total]
          \/ EvictCold([cache EXCEPT ![w] = total], [pending EXCEPT ![w] = next_op], reset_pending, resolved)
    BY <2>3
  <2> DEFINE rows == [cache EXCEPT ![w] = total]
             marked == [pending EXCEPT ![w] = next_op]
  <2>5. rows \in Rows /\ rows[v] # NoRow /\ marked \in [Viewers -> Nat] /\ marked[v] \in {pending[v], next_op}
    BY <1>2, <2>4, PointsAssumption DEF Rows
  <2>6. EvictCold(rows, marked, reset_pending, resolved) \/ cache' = rows
    BY <2>4
  <2> HIDE DEF rows, marked
  <2> QED BY <1>2, <1>3, <2>5, <2>6
<1>6. ASSUME NEW c \in Callers, Reset(c)  PROVE pending[v] <= resolved
  <2> DEFINE viewers == call[c].viewers
             rows == [u \in Viewers |-> IF u \in viewers /\ cache[u] # NoRow THEN 0 ELSE cache[u]]
             marked == [u \in Viewers |-> IF ~(call[c].op = "clear") /\ u \in viewers /\ cache[u] # NoRow THEN next_op ELSE pending[u]]
             marker == IF call[c].op = "clear" THEN next_op ELSE reset_pending
  <2>1. EvictCold(rows, marked, marker, call[c].n)
    BY <1>6 DEF Reset
  <2>2. /\ rows \in Rows /\ rows[v] # NoRow /\ marked \in [Viewers -> Nat] /\ marked[v] \in {pending[v], next_op}
        /\ marker \in Nat
    BY <1>2, PointsAssumption DEF Rows
  <2>3. call[c].n \in Nat /\ call[c].n <= resolved
    <3>1. call[c].at = "reset" /\ UpToDate(call[c]) /\ call[c] \in CallRecords
      BY <1>1, <1>6 DEF Reset, Balanced, BalanceTypes
    <3> QED BY <3>1 DEF UpToDate, CallRecords
  <2> HIDE DEF rows, marked, marker
  <2> QED BY <1>3, <2>1, <2>2, <2>3
<1>7. ASSUME cache' = cache  PROVE pending[v] <= resolved
  BY <1>7
<1>8. ASSUME NEW c \in Callers, CallerBegins(c)  PROVE cache' = cache
  BY <1>8 DEF CallerBegins, Begin, BeginReset, memory
<1>9. ASSUME NEW c \in Callers, CallerProceeds(c)  PROVE cache' = cache \/ Promote(c) \/ Mutate(c) \/ Reset(c)
  BY <1>9 DEF CallerProceeds, ReadPending, Load, AdjustUnknown, AwaitSlot, Reject, Submit, memory
<1>10. WriterStep \/ Close \/ Join \/ UNCHANGED vars => cache' = cache
  BY DEF WriterStep, PopBatch, ApplyBatch, ReportBatch, FallBack, ApplyOne, StoreCommitted, StoreResolved,
         WriterStops, Close, Join, vars, memory
<1> QED BY <1>4, <1>5, <1>6, <1>7, <1>8, <1>9, <1>10 DEF Next

\* A row whose own write is not finished stays in the cache: a mutation and a
\* reset leave their marker before the eviction of their own critical section
\* can look at it, and a reload waits for the marker (points.rs, evict_cold).
THEOREM DirtyRowsAreKept == Spec => DirtyRowsStay
<1> DEFINE Stays == ordered => \A v \in Viewers \ doubtful :
                      (cache[v] # NoRow /\ cache'[v] = NoRow) => ~Outstanding(v)
<1>1. BalanceInv /\ [Next]_vars => Stays
  <2> SUFFICES ASSUME BalanceInv, [Next]_vars, ordered, NEW v \in Viewers \ doubtful,
                      cache[v] # NoRow, cache'[v] = NoRow, Outstanding(v)
               PROVE  FALSE
    OBVIOUS
  <2>1. pending[v] <= resolved
    BY OnlyCleanRowsLeave
  <2>2. PICK op \in Waiting : v \in op.viewers /\ op.kind # "clear"
    <3>1. CASE \E c \in Unsubmitted : v \in call[c].viewers
      <4>1. PICK c \in Holding : v \in call[c].viewers
        BY <3>1 DEF Unsubmitted, Holding
      <4>2. Ticket(c) \in Waiting
        BY DEF Waiting
      <4>3. v \in Ticket(c).viewers /\ Ticket(c).kind # "clear"
        BY <4>1 DEF Ticket
      <4> QED BY <4>2, <4>3
    <3>2. CASE \E op \in Range(queue) \union Range(writer.batch) : op.kind # "clear" /\ v \in op.viewers
      <4>1. Range(queue) \union Range(writer.batch) \subseteq Waiting
        BY WaitingSeqs DEF BalanceInv, Batch
      <4> QED BY <3>2, <4>1
    <3> QED BY <3>1, <3>2 DEF Outstanding
  <2>3. op.seq <= pending[v]
    BY <2>2 DEF BalanceInv, Balanced, Marked, BalanceTypes, SoundOp, Operations
  <2>4. op.seq > resolved /\ op.seq \in Nat /\ resolved \in Nat /\ pending[v] \in Nat
    BY WaitingSeqs DEF BalanceInv, BalanceTypes, PointsInv, Shape, SoundOp, Operations
  <2> QED BY <2>1, <2>3, <2>4
<1>2. BalanceInv /\ [Next]_vars => [Stays]_vars
  BY <1>1
<1>3. DirtyRowsStay <=> [][Stays]_vars
  BY DEF DirtyRowsStay
<1> HIDE DEF Stays
<1> QED BY <1>2, <1>3, BalanceInit, BalanceNext, PTL DEF Spec

-----------------------------------------------------------------------------
(* The transaction rows.                                                   *)

\* Sequences are left for the calls that will allocate one.
Allocating == {c \in Callers : call[c].op # "view" /\ call[c].at # "submit"}

\* With MaxOps the allocation never runs out.
Affords == next_op + Cardinality(Allocating) <= MaxOps + 1

\* One transaction row for each sequence that is applied, none for the others.
Recorded ==
  /\ ledger \in [Seqs -> Nat]
  /\ \A s \in Seqs : (\A op \in applied : op.seq # s) => ledger[s] = 0
  /\ \A op \in applied :
       /\ ledger[op.seq] <= 1
       /\ op.kind = "save" /\ (\A other \in applied : other.kind # "clear") => ledger[op.seq] = 1
  /\ \A op \in applied, other \in failed : op.seq # other.seq

\* The invariant of the transaction rows.
LedgerInv == BalanceInv /\ Affords /\ Recorded

\* The threads are finite in number.
LEMMA AllocatingIsFinite ==
  /\ IsFiniteSet(Allocating) /\ Cardinality(Allocating) \in Nat
  /\ \A c \in Allocating : /\ IsFiniteSet(Allocating \ {c})
                           /\ Cardinality(Allocating \ {c}) = Cardinality(Allocating) - 1
  /\ \A c : /\ IsFiniteSet(Allocating \union {c})
            /\ Cardinality(Allocating \union {c}) <= Cardinality(Allocating) + 1
<1>1. Allocating \subseteq Callers /\ IsFiniteSet(Callers)
  BY PointsAssumption DEF Allocating
<1>2. IsFiniteSet(Allocating) /\ Cardinality(Allocating) \in Nat
  BY <1>1, FS_Subset, FS_CardinalityType
<1>3. ASSUME NEW c
      PROVE  /\ IsFiniteSet(Allocating \union {c})
             /\ Cardinality(Allocating \union {c}) <= Cardinality(Allocating) + 1
  BY <1>2, FS_AddElement
<1>4. ASSUME NEW c \in Allocating
      PROVE  /\ IsFiniteSet(Allocating \ {c})
             /\ Cardinality(Allocating \ {c}) = Cardinality(Allocating) - 1
  BY <1>2, <1>4, FS_RemoveElement
<1> QED BY <1>2, <1>3, <1>4

\* A step that allocates no sequence and begins no call that will.
LEMMA KeepsAffording ==
  ASSUME BalanceInv, Affords, next_op' = next_op, Allocating' \subseteq Allocating
  PROVE  Affords'
<1>1. Cardinality(Allocating') \in Nat /\ Cardinality(Allocating') <= Cardinality(Allocating)
  BY AllocatingIsFinite, FS_Subset, FS_CardinalityType
<1>2. next_op \in Nat /\ MaxOps \in Nat /\ Cardinality(Allocating) \in Nat
  BY AllocatingIsFinite, PointsAssumption DEF BalanceInv, PointsInv, Shape
<1> QED BY <1>1, <1>2 DEF Affords

\* A step that allocates one for a call that was to.
LEMMA SpendsOne ==
  ASSUME BalanceInv, Affords, next_op' = next_op + 1,
         NEW c \in Allocating, Allocating' \subseteq Allocating \ {c}
  PROVE  Affords'
<1>1. /\ Cardinality(Allocating') \in Nat
      /\ Cardinality(Allocating') <= Cardinality(Allocating) - 1
  <2>1. IsFiniteSet(Allocating \ {c}) /\ Cardinality(Allocating \ {c}) = Cardinality(Allocating) - 1
    BY AllocatingIsFinite
  <2> QED BY <2>1, FS_Subset, FS_CardinalityType
<1>2. next_op \in Nat /\ MaxOps \in Nat /\ Cardinality(Allocating) \in Nat
  BY AllocatingIsFinite, PointsAssumption DEF BalanceInv, PointsInv, Shape
<1> QED BY <1>1, <1>2 DEF Affords

\* A call that begins finds a sequence left for it.
LEMMA BeginsAffordably ==
  ASSUME BalanceInv, Affords, Affordable, next_op' = next_op, NEW c,
         Allocating' \subseteq Allocating \union {c}
  PROVE  Affords'
<1>1. /\ Cardinality(Allocating') \in Nat
      /\ Cardinality(Allocating') <= Cardinality(Allocating) + 1
  <2>1. /\ IsFiniteSet(Allocating \union {c})
        /\ Cardinality(Allocating \union {c}) <= Cardinality(Allocating) + 1
    BY AllocatingIsFinite
  <2>2. Cardinality(Allocating \union {c}) \in Nat
    BY <2>1, FS_CardinalityType
  <2>3. /\ IsFiniteSet(Allocating')
        /\ Cardinality(Allocating') <= Cardinality(Allocating \union {c})
    BY <2>1, FS_Subset
  <2>4. Cardinality(Allocating') \in Nat
    BY <2>3, FS_CardinalityType
  <2> QED BY <2>1, <2>2, <2>3, <2>4, AllocatingIsFinite
<1> DEFINE busy == {d \in Callers : call[d].op # "view"}
<1>2. Allocating \subseteq busy /\ IsFiniteSet(busy)
  BY FS_Subset, PointsAssumption DEF Allocating
<1>3. Cardinality(Allocating) <= Cardinality(busy) /\ Cardinality(busy) \in Nat
  BY <1>2, FS_Subset, FS_CardinalityType
<1>4. next_op \in Nat /\ MaxOps \in Nat /\ Cardinality(Allocating) \in Nat
  BY AllocatingIsFinite, PointsAssumption DEF BalanceInv, PointsInv, Shape
<1>5. next_op + Cardinality(busy) <= MaxOps
  BY DEF Affordable
<1> HIDE DEF busy
<1> QED BY <1>1, <1>3, <1>4, <1>5 DEF Affords

\* Every step leaves the sequences the calls in flight will need.
LEMMA AffordsNext ==
  ASSUME BalanceInv, Affords, [Next]_vars
  PROVE  Affords'
<1>1. /\ call \in [Callers -> CallRecords] /\ \A c \in Callers : Sound(call[c])
      /\ DOMAIN call = Callers /\ \A c \in Callers : DOMAIN call[c] = Fields
  BY DEF BalanceInv, BalanceTypes, PointsInv, Shape
<1>2. ASSUME NEW c \in Callers, NEW op, NEW v, Begin(c, op, v)  PROVE Affords'
  <2>1. next_op' = next_op /\ Allocating' \subseteq Allocating \union {c}
    BY <1>1, <1>2 DEF Begin, Allocating, memory
  <2>2. CASE op = "view"
    <3>1. Allocating' \subseteq Allocating
      BY <1>1, <1>2, <2>2 DEF Begin, Allocating, NoCall
    <3> QED BY <2>1, <3>1, KeepsAffording
  <2>3. CASE op # "view"
    <3>1. Affordable
      BY <1>2, <2>3 DEF Begin
    <3> QED BY <2>1, <3>1, BeginsAffordably
  <2> QED BY <2>2, <2>3
<1>3. ASSUME NEW c \in Callers, NEW kind, NEW vs, BeginReset(c, kind, vs)  PROVE Affords'
  <2>1. next_op' = next_op /\ Allocating' \subseteq Allocating \union {c} /\ Affordable
    BY <1>1, <1>3 DEF BeginReset, Allocating, memory
  <2> QED BY <2>1, BeginsAffordably
<1>4. ASSUME NEW c \in Callers,
             ReadPending(c) \/ Load(c) \/ AdjustUnknown(c) \/ AwaitSlot(c) \/ Reject(c) \/ Submit(c)
      PROVE  Affords'
  <2>1. next_op' = next_op
    BY <1>4 DEF ReadPending, Load, AdjustUnknown, AwaitSlot, Reject, Submit, memory
  <2>2. \A d \in Callers \ {c} : call'[d] = call[d]
    BY <1>1, <1>4 DEF ReadPending, Load, AdjustUnknown, AwaitSlot, Reject, Submit, Idle, Goes
  <2>3. call'[c].op = "view" \/ (call'[c].op = call[c].op /\ call[c].at # "submit")
    <3>1. ASSUME Idle(c)  PROVE call'[c].op = "view"
      BY <1>1, <3>1 DEF Idle, NoCall
    <3>2. CASE ReadPending(c)
      <4>1. \E n : call'[c] = [call[c] EXCEPT !.at = "wait", !.n = n]
        BY <1>1, <3>2 DEF ReadPending, Goes
      <4>2. PICK n : call'[c] = [call[c] EXCEPT !.at = "wait", !.n = n]
        BY <4>1
      <4>3. call'[c].op = call[c].op
        BY <1>1, <4>2 DEF Fields
      <4>4. call[c].at = "miss"
        BY <3>2 DEF ReadPending
      <4> QED BY <4>3, <4>4
    <3>3. CASE Load(c)
      <4> DEFINE v == TheViewer(c)
                 raced(row) == \/ call[c].raced \/ resolved < call[c].n
                               \/ \E op \in Range(queue) \union Range(writer.batch) :
                                    op.kind = "reset" /\ v \in op.viewers
                               \/ row # durable[v]
      <4>1. \/ Idle(c)
            \/ \E row : call' = [call EXCEPT ![c] =
                          [call[c] EXCEPT !.at = IF row = NoRow THEN "mutate" ELSE "promote", !.row = row,
                                          !.n = 0, !.raced = raced(row)]]
        BY <3>3, Zenon DEF Load
      <4>2. Idle(c) \/ call'[c].op = call[c].op
        <5> HIDE DEF raced
        <5> QED BY <1>1, <4>1 DEF Fields
      <4> QED BY <3>1, <3>3, <4>2 DEF Load
    <3>4. CASE AwaitSlot(c)
      BY <1>1, <3>4 DEF AwaitSlot, Goes, Fields
    <3>5. CASE AdjustUnknown(c) \/ Reject(c) \/ Submit(c)
      BY <3>1, <3>5 DEF AdjustUnknown, Reject, Submit
    <3> QED BY <1>4, <3>2, <3>3, <3>4, <3>5
  <2>4. Allocating' \subseteq Allocating
    BY <2>2, <2>3 DEF Allocating
  <2> QED BY <2>1, <2>4, KeepsAffording
<1>5. ASSUME NEW c \in Callers, NEW touched, NEW r,
             call' = Races(c, touched, [call EXCEPT ![c] = r])
      PROVE  /\ \A d \in Callers \ {c} : call'[d].op = call[d].op /\ call'[d].at = call[d].at
             /\ call'[c] = r
  <2> DEFINE calls == [call EXCEPT ![c] = r]
  <2>1. /\ calls[c] = r /\ \A d \in Callers \ {c} : calls[d] = call[d]
    BY <1>1
  <2> HIDE DEF calls
  <2>2. call'[c] = r
    BY <1>5, <2>1 DEF Races, calls
  <2>3. ASSUME NEW d \in Callers \ {c}  PROVE call'[d].op = call[d].op /\ call'[d].at = call[d].at
    <3>1. call'[d] = call[d] \/ call'[d] = [call[d] EXCEPT !.raced = TRUE]
      BY <1>5, <2>1 DEF Races, calls
    <3> QED BY <1>1, <3>1 DEF Fields
  <2> QED BY <2>2, <2>3
<1>6. ASSUME NEW c \in Callers, Promote(c)  PROVE Affords'
  <2>1. next_op' = next_op
    BY <1>6 DEF Promote
  <2>2. CASE call[c].op = "view"
    <3>1. PICK touched : call' = Races(c, touched, [call EXCEPT ![c] = NoCall])
      BY <1>6, <2>2 DEF Promote
    <3>2. /\ \A d \in Callers \ {c} : call'[d].op = call[d].op /\ call'[d].at = call[d].at
          /\ call'[c] = NoCall
      BY <1>5, <3>1
    <3>3. Allocating' \subseteq Allocating
      BY <3>2 DEF Allocating, NoCall
    <3> QED BY <2>1, <3>3, KeepsAffording
  <2>3. CASE call[c].op # "view"
    <3>1. \A d \in Callers \ {c} : call'[d] = call[d]
      BY <1>1, <1>6, <2>3 DEF Promote, Goes
    <3>2. c \in Allocating
      BY <1>6, <2>3 DEF Promote, Allocating
    <3>3. Allocating' \subseteq Allocating
      BY <3>1, <3>2 DEF Allocating
    <3> QED BY <2>1, <3>3, KeepsAffording
  <2> QED BY <2>2, <2>3
<1>7. ASSUME NEW c \in Callers, Mutate(c) \/ Reset(c)  PROVE Affords'
  <2>1. next_op' = next_op + 1
    BY <1>7 DEF Mutate, Reset
  <2>2. c \in Allocating
    <3>1. call[c].at \in {"mutate", "capacity", "reset"}
      BY <1>7 DEF Mutate, InSection, Reset
    <3>2. Sound(call[c])
      BY <1>1
    <3> QED BY <3>1, <3>2 DEF Sound, Allocating
  <2>3. \E touched, r : /\ call' = Races(c, touched, [call EXCEPT ![c] = r])
                        /\ r = NoCall \/ r.at = "submit"
    <3>1. CASE Reset(c)
      BY <3>1 DEF Reset
    <3>2. CASE Mutate(c)
      <4>1. PICK touched, total :
              call' = Races(c, touched, [Goes(c, "submit") EXCEPT ![c].n = next_op, ![c].row = total,
                                                                   ![c].raced = FALSE])
        BY <3>2 DEF Mutate
      <4> DEFINE r == [call[c] EXCEPT !.at = "submit", !.n = next_op, !.row = total, !.raced = FALSE]
      <4>2. [Goes(c, "submit") EXCEPT ![c].n = next_op, ![c].row = total, ![c].raced = FALSE]
              = [call EXCEPT ![c] = r]
        BY <1>1 DEF Goes, Fields
      <4>3. r.at = "submit"
        BY <1>1 DEF Fields
      <4> HIDE DEF r
      <4> QED BY <4>1, <4>2, <4>3
    <3> QED BY <1>7, <3>1, <3>2
  <2>4. PICK touched, r : /\ call' = Races(c, touched, [call EXCEPT ![c] = r])
                          /\ r = NoCall \/ r.at = "submit"
    BY <2>3
  <2>5. /\ \A d \in Callers \ {c} : call'[d].op = call[d].op /\ call'[d].at = call[d].at
        /\ call'[c] = r
    BY <1>5, <2>4
  <2>6. Allocating' \subseteq Allocating \ {c}
    <3>1. c \notin Allocating'
      BY <2>4, <2>5 DEF Allocating, NoCall
    <3>2. \A d \in Allocating' : d # c => d \in Allocating
      BY <2>5 DEF Allocating
    <3> QED BY <3>1, <3>2
  <2> QED BY <2>1, <2>2, <2>6, SpendsOne
<1>8. ASSUME WriterStep \/ Close \/ Join \/ UNCHANGED vars  PROVE Affords'
  <2>1. next_op' = next_op /\ call' = call
    BY <1>8 DEF WriterStep, PopBatch, ApplyBatch, ReportBatch, FallBack, ApplyOne, StoreCommitted,
                StoreResolved, WriterStops, Close, Join, vars, memory
  <2> QED BY <2>1 DEF Affords, Allocating
<1> QED BY <1>2, <1>3, <1>4, <1>6, <1>7, <1>8 DEF Next, CallerBegins, CallerProceeds

\* A committed transaction records what it applies (points.rs, apply_points_batch).
LEMMA CommitRecords ==
  ASSUME LedgerInv, NEW n, NEW ops, Finishes(n, ops), Commit(ops), applied' = applied \union First(n),
         failed' = failed
  PROVE  Recorded'
<1>1. /\ n \in 1 .. Len(Line) /\ DOMAIN ops = 1 .. n /\ \A i \in 1 .. n : ops[i] = Line[i]
      /\ DOMAIN Line = 1 .. Len(Line) /\ Len(Line) \in Nat
  BY LineShape, LenProperties DEF Finishes, LedgerInv, BalanceInv, PointsInv
<1>2. /\ n \in Nat /\ \A i \in 1 .. n : i \in DOMAIN Line
  BY <1>1
<1>3. 1 .. next_op - 1 \subseteq Seqs
  BY AllocatingIsFinite, PointsAssumption DEF LedgerInv, Affords, Seqs, BalanceInv, PointsInv, Shape
<1>4. \A i \in 1 .. n : ops[i] \in Operations
  BY <1>1, <1>2, WaitingSeqs DEF LedgerInv, BalanceInv, BalanceTypes, SoundOp
<1>5. /\ \A i \in 1 .. n : /\ ops[i].seq \in Seqs /\ \A j \in 1 .. n : ops[i].seq = ops[j].seq => i = j
                           /\ \A op \in Done : op.seq # ops[i].seq
      /\ \A op \in Done : op.seq \in Seqs
  BY <1>1, <1>2, <1>3 DEF LedgerInv, BalanceInv, PointsInv, OneTicket
<1>6. NewTickets(ops, n)
  BY <1>4, <1>5 DEF NewTickets, LedgerInv, Recorded, Done
<1>7. LedgerAfter([rows |-> durable', ledger |-> ledger'], ops, n)
  BY <1>1, <1>2, <1>6, CommitLedger DEF LedgerInv, Recorded
<1>8. /\ ledger' \in [Seqs -> Nat]
      /\ \A s \in Seqs : (\A i \in 1 .. n : ops[i].seq # s) =>
           /\ ledger'[s] <= ledger[s]
           /\ (\A i \in 1 .. n : ops[i].kind # "clear") => ledger'[s] = ledger[s]
      /\ \A i \in 1 .. n :
           /\ ledger'[ops[i].seq] <= 1
           /\ ops[i].kind = "save" /\ (\A j \in 1 .. n : ops[j].kind # "clear") => ledger'[ops[i].seq] = 1
  BY <1>7 DEF LedgerAfter
<1>9. First(n) = {ops[i] : i \in 1 .. n}
  BY <1>1 DEF First
<1>10. /\ ledger \in [Seqs -> Nat]
       /\ \A s \in Seqs : (\A op \in applied : op.seq # s) => ledger[s] = 0
       /\ \A op \in applied :
            /\ ledger[op.seq] <= 1
            /\ op.kind = "save" /\ (\A other \in applied : other.kind # "clear") => ledger[op.seq] = 1
       /\ \A op \in applied, other \in failed : op.seq # other.seq
  BY DEF LedgerInv, Recorded
<1>11. applied' = applied \union {ops[i] : i \in 1 .. n} /\ applied \subseteq Done /\ failed \subseteq Done
  BY <1>9 DEF Done
<1>12. ASSUME NEW s \in Seqs, \A op \in applied' : op.seq # s  PROVE ledger'[s] = 0
  <2>1. (\A op \in applied : op.seq # s) /\ \A i \in 1 .. n : ops[i].seq # s
    BY <1>11, <1>12
  <2>2. ledger[s] = 0 /\ ledger'[s] <= ledger[s] /\ ledger'[s] \in Nat
    BY <1>8, <1>10, <2>1
  <2> QED BY <2>2
<1>13. ASSUME NEW op \in applied
       PROVE  /\ ledger'[op.seq] <= 1
              /\ op.kind = "save" /\ (\A other \in applied' : other.kind # "clear") => ledger'[op.seq] = 1
  <2>1. op.seq \in Seqs /\ \A i \in 1 .. n : ops[i].seq # op.seq
    BY <1>5, <1>11
  <2>2. /\ ledger'[op.seq] <= ledger[op.seq] /\ ledger[op.seq] \in Nat /\ ledger'[op.seq] \in Nat
        /\ (\A i \in 1 .. n : ops[i].kind # "clear") => ledger'[op.seq] = ledger[op.seq]
    BY <1>8, <1>10, <2>1
  <2>3. (\A other \in applied' : other.kind # "clear") =>
          (\A i \in 1 .. n : ops[i].kind # "clear") /\ \A other \in applied : other.kind # "clear"
    BY <1>11
  <2> QED BY <1>10, <2>2, <2>3
<1>14. ASSUME NEW i \in 1 .. n
       PROVE  /\ ledger'[ops[i].seq] <= 1
              /\ ops[i].kind = "save" /\ (\A other \in applied' : other.kind # "clear")
                   => ledger'[ops[i].seq] = 1
  <2>1. (\A other \in applied' : other.kind # "clear") => \A j \in 1 .. n : ops[j].kind # "clear"
    BY <1>11
  <2> QED BY <1>8, <2>1
<1>15. \A op \in applied', other \in failed' : op.seq # other.seq
  BY <1>5, <1>10, <1>11
<1> QED BY <1>8, <1>11, <1>12, <1>13, <1>14, <1>15 DEF Recorded

\* Every step keeps the transaction rows.
LEMMA RecordedNext ==
  ASSUME LedgerInv, [Next]_vars
  PROVE  Recorded'
<1>1. ASSUME UNCHANGED <<ledger, applied, failed>>  PROVE Recorded'
  BY <1>1 DEF LedgerInv, Recorded
<1>2. CASE ApplyBatch \/ ReportBatch \/ ApplyOne
  <2>1. PICK n, ops : Finishes(n, ops)
    BY <1>2, WriterFinishes DEF LedgerInv, BalanceInv
  <2>2. CASE Commit(ops) /\ applied' = applied \union First(n) /\ failed' = failed
    BY <2>1, <2>2, CommitRecords
  <2>3. CASE failed' = failed \union First(n) /\ UNCHANGED <<durable, ledger, applied>>
    <3>1. n \in 1 .. Len(Line) /\ DOMAIN Line = 1 .. Len(Line) /\ Len(Line) \in Nat
      BY <2>1, LineShape, LenProperties DEF Finishes, LedgerInv, BalanceInv, PointsInv
    <3>2. \A other \in First(n), op \in applied : op.seq # other.seq
      BY <3>1 DEF First, LedgerInv, BalanceInv, PointsInv, OneTicket, Done
    <3> QED BY <2>3, <3>2 DEF LedgerInv, Recorded
  <2> QED BY <2>1, <2>2, <2>3 DEF Finishes
<1>3. ASSUME NEW c \in Callers, CallerBegins(c) \/ CallerProceeds(c)
      PROVE  UNCHANGED <<ledger, applied, failed>>
  BY <1>3 DEF CallerBegins, Begin, BeginReset, CallerProceeds, ReadPending, Load, Promote, AdjustUnknown,
              AwaitSlot, Reject, Mutate, Submit, Reset, disk, history
<1>4. ASSUME PopBatch \/ Moves \/ UNCHANGED vars
      PROVE  UNCHANGED <<ledger, applied, failed>>
  BY <1>4 DEF PopBatch, Moves, FallBack, StoreCommitted, StoreResolved, WriterStops, Close, Join, vars,
              disk, history
<1> QED BY <1>1, <1>2, <1>3, <1>4 DEF Next, WriterStep, Moves

\* No transaction row at the start.
LEMMA LedgerInit == PointsInit => LedgerInv
<1> SUFFICES ASSUME PointsInit  PROVE LedgerInv
  OBVIOUS
<1>1. Allocating = {} /\ Cardinality({}) = 0
  BY FS_EmptySet DEF PointsInit, NoCall, Allocating
<1>2. Affords
  BY <1>1, PointsAssumption DEF PointsInit, Affords
<1>3. Recorded
  BY DEF PointsInit, Recorded
<1> QED BY <1>2, <1>3, BalanceInit DEF LedgerInv

\* A transaction row is written once: however often a transaction is tried
\* again, whole or one operation at a time, an award has one row when it is
\* applied and none when it was reported as failed (points.rs,
\* run_points_writer and apply_points_batch).
THEOREM AwardsAreRecorded == Spec => []RecordedOnce
<1>1. LedgerInv /\ [Next]_vars => LedgerInv'
  BY BalanceNext, AffordsNext, RecordedNext DEF LedgerInv
<1>2. LedgerInv => RecordedOnce
  <2> SUFFICES ASSUME LedgerInv  PROVE RecordedOnce
    OBVIOUS
  <2>1. \A op \in failed : op.seq \in Seqs
    <3>1. \A op \in failed : op.seq \in 1 .. next_op - 1
      BY DEF LedgerInv, BalanceInv, PointsInv, OneTicket, Done
    <3>2. 1 .. next_op - 1 \subseteq Seqs
      BY AllocatingIsFinite, PointsAssumption DEF LedgerInv, Affords, Seqs, BalanceInv, PointsInv, Shape
    <3> QED BY <3>1, <3>2
  <2>2. \A op \in failed : ledger[op.seq] = 0
    BY <2>1 DEF LedgerInv, Recorded
  <2> QED BY <2>2 DEF RecordedOnce, LedgerInv, Recorded
<1> QED BY <1>1, <1>2, LedgerInit, PTL DEF Spec
=============================================================================
