----------------------------- MODULE PointsWriter -----------------------------
(***************************************************************************)
(* PointsService: a bounded cache of balances in front of SQLite, the      *)
(* threads that award, adjust, reset and look up, and the one writer       *)
(* thread that applies their durable operations in queue order.            *)
(***************************************************************************)
EXTENDS Integers, FiniteSets, SequencesExt

CONSTANTS
  Callers,    \* threads: the LIVE points worker, control clients, automations
  LiveWorker, \* the callers that only award
  Viewers,
  Registered, \* viewers with a row at the start
  NoRow,      \* a viewer without a row, on disk or in the cache
  NoCaller,
  Capacity,   \* rows the cache is meant to hold
  Slack,      \* EVICT_BATCH_SLACK
  QueueSize,  \* WRITER_QUEUE_CAPACITY
  BatchSize,  \* WRITER_BATCH_SIZE
  Faults,     \* what may go wrong, see PointsAssumption
  MaxOps      \* bound: durable operations of one run

\* "open": the writer has no connection; "read", "write": a SQLite read or a
\* transaction fails; "reload", "saturated": a wait of five seconds is over.
ASSUME PointsAssumption ==
  /\ Capacity \in Nat \ {0} /\ Slack \in Nat
  /\ QueueSize \in Nat \ {0} /\ BatchSize \in Nat \ {0} /\ MaxOps \in Nat
  /\ IsFiniteSet(Callers) /\ LiveWorker \subseteq Callers /\ Registered \subseteq Viewers
  /\ NoRow \notin Nat /\ NoCaller \notin Callers
  /\ Faults \subseteq {"open", "read", "write", "reload", "saturated"}

VARIABLES
  durable,        \* SQLite: points by viewer
  ledger,         \* SQLite: points_transactions rows by sequence
  connected,      \* the writer could open its connection
  cache, pending, reset_pending, \* PointsInner
  lock,           \* who keeps the viewer lock while it waits for the queue
  next_op,        \* the next sequence to allocate
  queue, closed, admitted,       \* PointsWriterShared: admission
  committed, resolved,           \* PointsWriterShared: watermarks
  writer,         \* the writer thread: where it is, its batch, its first failure
  joined,         \* shutdown has returned
  call,           \* what each caller is in
  intended, applied, failed, lost, doubtful, ordered \* history

disk == <<durable, ledger, connected>>
memory == <<cache, pending, reset_pending, next_op>>
admission == <<queue, closed, admitted>>
marks == <<committed, resolved, joined>>
history == <<intended, applied, failed, lost, doubtful, ordered>>
vars == <<disk, memory, lock, admission, marks, writer, call, history>>

-----------------------------------------------------------------------------
(* PointsInner and the durable operations.                                 *)

Seqs == 1 .. MaxOps

NoCall == [at |-> "idle", op |-> "view", viewers |-> {}, n |-> 0, row |-> NoRow,
           raced |-> FALSE]
Idle(c) == call' = [call EXCEPT ![c] = NoCall]
Goes(c, at) == [call EXCEPT ![c].at = at]

Cached(rows) == {v \in Viewers : rows[v] # NoRow}
Balance(rows, v) == IF rows[v] = NoRow THEN 0 ELSE rows[v]

\* The markers evict_cold keeps.
Retired(marked, seen) == [v \in Viewers |-> IF marked[v] > seen THEN marked[v] ELSE 0]

\* Mutant: eviction does not look at the outstanding writes.
EvictedAny(rows, marked, seen) ==
  IF Cardinality(Cached(rows)) <= Capacity
  THEN {rows}
  ELSE {[v \in Viewers |-> IF v \in kept THEN rows[v] ELSE NoRow] :
          kept \in {k \in SUBSET Cached(rows) : Cardinality(k) = Capacity}}

\* What evict_cold can leave of rows: the oldest clean row goes first, and any
\* clean row can be the oldest, the order being that of wall clocks.
Evicted(rows, marked, seen) ==
  LET dirty == {v \in Cached(rows) : marked[v] > seen}
      room == IF Cardinality(dirty) > Capacity THEN Cardinality(dirty) ELSE Capacity
  IN  IF Cardinality(Cached(rows)) <= Capacity
      THEN {rows}
      ELSE {[v \in Viewers |-> IF v \in kept THEN rows[v] ELSE NoRow] :
              kept \in {k \in SUBSET Cached(rows) : dirty \subseteq k /\ Cardinality(k) = room}}

\* evict_cold on the given rows and markers.
EvictCold(rows, marked, marker, seen) ==
  /\ cache' \in Evicted(rows, marked, seen)
  /\ pending' = Retired(marked, seen)
  /\ reset_pending' = IF marker <= seen THEN 0 ELSE marker

\* One operation on the rows and the transactions: only a save creates a row,
\* an adjustment leaves no transaction and a full reset deletes them all.
Applied(store, op) ==
  [rows |-> [v \in Viewers |->
               IF v \in op.viewers /\ (op.kind = "save" \/ store.rows[v] # NoRow)
               THEN op.points ELSE store.rows[v]],
   ledger |-> CASE op.kind = "clear" -> [s \in Seqs |-> 0]
                [] op.kind = "adjust" -> store.ledger
                [] OTHER -> [store.ledger EXCEPT ![op.seq] = @ + 1]]

Store == [rows |-> durable, ledger |-> ledger]
Commit(ops) ==
  LET after == FoldLeft(Applied, Store, ops)
  IN  /\ durable' = after.rows
      /\ ledger' = after.ledger
      /\ applied' = applied \union Range(ops)

\* What another call in flight for these viewers has read may be old now.
Races(c, touched, calls) ==
  [d \in Callers |->
     IF d # c /\ calls[d].at \in {"wait", "promote", "mutate"} /\ calls[d].viewers \cap touched # {}
     THEN [calls[d] EXCEPT !.raced = TRUE] ELSE calls[d]]

\* Rows that leave the cache, with the viewers an operation has changed.
Touched(viewers) == viewers \union (Cached(cache) \ Cached(cache'))

-----------------------------------------------------------------------------
NoBatch == [at |-> "idle", batch |-> <<>>, last |-> 0, failed |-> 0]

\* The cache is warmed with the head of the leaderboard, or stays empty.
PointsInit ==
  /\ durable = [v \in Viewers |-> IF v \in Registered THEN 1 ELSE NoRow] /\ ledger = [s \in Seqs |-> 0]
  /\ connected \in IF "open" \in Faults THEN BOOLEAN ELSE {TRUE}
  /\ \E warm \in SUBSET Cached(durable) :
       /\ Cardinality(warm) <= Capacity
       /\ cache = [v \in Viewers |-> IF v \in warm THEN durable[v] ELSE NoRow]
  /\ pending = [v \in Viewers |-> 0] /\ reset_pending = 0 /\ next_op = 1
  /\ lock = NoCaller /\ queue = <<>> /\ closed = FALSE /\ admitted = 0
  /\ committed = 0 /\ resolved = 0 /\ joined = FALSE /\ writer = NoBatch
  /\ call = [c \in Callers |-> NoCall]
  /\ intended = durable /\ applied = {} /\ failed = {} /\ lost = {}
  /\ doubtful = {} /\ ordered = TRUE

-----------------------------------------------------------------------------
(* viewer, and the way award_points and adjust find their row.             *)

Unlocked == lock = NoCaller
TheViewer(c) == CHOOSE v \in Viewers : call[c].viewers = {v}

\* Bound: sequences are left for the calls in flight.
Affordable == next_op + Cardinality({c \in Callers : call[c].op # "view"}) <= MaxOps

\* A row in the cache needs no reload; viewer returns it at once.
Begin(c, op, v) ==
  /\ call[c].at = "idle" /\ Unlocked
  /\ IF op = "view" THEN cache[v] = NoRow ELSE Affordable
  /\ call' = [call EXCEPT ![c] = [NoCall EXCEPT !.op = op, !.viewers = {v},
                                  !.at = IF cache[v] = NoRow THEN "miss" ELSE "mutate"]]
  /\ UNCHANGED <<disk, memory, lock, admission, marks, writer, history>>

\* Mutant: a reload does not wait for a full reset.
ReadOwnPending(c) ==
  /\ call[c].at = "miss" /\ Unlocked
  /\ call' = [Goes(c, "wait") EXCEPT ![c].n = pending[TheViewer(c)]]
  /\ UNCHANGED <<disk, memory, lock, admission, marks, writer, history>>

\* reload_wait_seq: the viewer's own outstanding write or a full reset.
ReadPending(c) ==
  /\ call[c].at = "miss" /\ Unlocked
  /\ LET own == pending[TheViewer(c)]
     IN  call' = [Goes(c, "wait") EXCEPT ![c].n = IF own > reset_pending THEN own ELSE reset_pending]
  /\ UNCHANGED <<disk, memory, lock, admission, marks, writer, history>>

\* The wait is over, or given up; a failed read looks like a viewer without a row.
Load(c) ==
  LET v == TheViewer(c)
      late == resolved < call[c].n
      unreset == \E op \in Range(queue) \union Range(writer.batch) : op.kind = "reset" /\ v \in op.viewers
  IN  /\ call[c].at = "wait" /\ (late => "reload" \in Faults)
      /\ \E row \in {durable[v]} \union IF "read" \in Faults THEN {NoRow} ELSE {} :
           IF row = NoRow /\ call[c].op = "view"
           THEN Idle(c)
           ELSE call' = [call EXCEPT ![c] =
                           [call[c] EXCEPT !.at = IF row = NoRow THEN "mutate" ELSE "promote", !.row = row,
                                     !.n = 0, !.raced = @ \/ late \/ unreset \/ row # durable[v]]]
      /\ UNCHANGED <<disk, memory, lock, admission, marks, writer, history>>

\* entry().or_insert: a resident row is kept.  Only a lookup evicts here.
Promote(c) ==
  LET v == TheViewer(c)
      insert == cache[v] = NoRow
      rows == [cache EXCEPT ![v] = IF insert THEN call[c].row ELSE @]
  IN  /\ call[c].at = "promote" /\ Unlocked
      /\ IF call[c].op = "view"
         THEN /\ EvictCold(rows, pending, reset_pending, resolved)
              /\ call' = Races(c, Touched({}), [call EXCEPT ![c] = NoCall])
         ELSE /\ cache' = rows
              /\ call' = [Goes(c, "mutate") EXCEPT ![c].row = NoRow]
              /\ UNCHANGED <<pending, reset_pending>>
      /\ doubtful' = doubtful \union IF insert /\ call[c].raced THEN {v} ELSE {}
      /\ UNCHANGED <<disk, next_op, lock, admission, marks, writer, intended, applied, failed, lost, ordered>>

-----------------------------------------------------------------------------
(* award_points, adjust and reset.                                         *)

Full == Len(queue) >= QueueSize
Known(c) == call[c].op = "adjust" => cache[TheViewer(c)] # NoRow
InSection(c) == (call[c].at = "mutate" /\ Unlocked) \/ call[c].at = "capacity"

\* adjust of a viewer nobody knows returns None.
AdjustUnknown(c) ==
  /\ call[c].at = "mutate" /\ Unlocked /\ ~Known(c)
  /\ Idle(c)
  /\ UNCHANGED <<disk, memory, lock, admission, marks, writer, history>>

\* wait_write_capacity on a full queue keeps the viewer lock.
AwaitSlot(c) ==
  /\ call[c].at = "mutate" /\ Unlocked /\ Known(c)
  /\ Full /\ ~closed
  /\ lock' = c
  /\ call' = Goes(c, "capacity")
  /\ UNCHANGED <<disk, memory, admission, marks, writer, history>>

\* Closed, or full for the whole admission timeout: nothing was changed.
Reject(c) ==
  /\ InSection(c) /\ Known(c)
  /\ closed \/ (Full /\ call[c].at = "capacity" /\ "saturated" \in Faults)
  /\ lock' = NoCaller
  /\ Idle(c)
  /\ UNCHANGED <<disk, memory, admission, marks, writer, history>>

\* The new balance and its sequence, then the lock is released: the operation
\* is not in the queue yet.
Mutate(c) ==
  LET v == TheViewer(c)
      total(rows) == IF call[c].op = "award" THEN Balance(rows, v) + 1
                     ELSE IF Balance(rows, v) > 0 THEN Balance(rows, v) - 1 ELSE 0
      rows == [cache EXCEPT ![v] = total(cache)]
      marked == [pending EXCEPT ![v] = next_op]
  IN  /\ InSection(c) /\ Known(c) /\ ~closed /\ ~Full
      /\ next_op' = next_op + 1
      /\ IF Cardinality(Cached(rows)) > Capacity + Slack
         THEN EvictCold(rows, marked, reset_pending, resolved)
         ELSE cache' = rows /\ pending' = marked /\ UNCHANGED reset_pending
      /\ lock' = NoCaller
      /\ call' = Races(c, Touched({v}),
                       [Goes(c, "submit") EXCEPT ![c].n = next_op, ![c].row = rows[v], ![c].raced = FALSE])
      /\ intended' = [intended EXCEPT ![v] = total(intended)]
      /\ doubtful' = doubtful \union IF cache[v] = NoRow /\ call[c].raced THEN {v} ELSE {}
      /\ UNCHANGED <<disk, admission, marks, writer, applied, failed, lost, ordered>>

\* submit_points_op.  History: does the queue take an operation while an
\* earlier sequence is still on its way?
Push(c, op) ==
  IF closed
  THEN lost' = lost \union {op} /\ UNCHANGED <<admission, ordered>>
  ELSE /\ queue' = Append(queue, op)
       /\ admitted' = admitted + 1
       /\ ordered' = (ordered /\ \A d \in Callers \ {c} : call[d].at = "submit" => call[d].n > op.seq)
       /\ UNCHANGED <<closed, lost>>

Submit(c) ==
  /\ call[c].at = "submit"
  /\ Push(c, [seq |-> call[c].n, kind |-> IF call[c].op = "award" THEN "save" ELSE "adjust",
              viewers |-> call[c].viewers, points |-> call[c].row])
  /\ Idle(c)
  /\ UNCHANGED <<disk, memory, lock, marks, writer, intended, applied, failed, doubtful>>

\* reset asks for room and reads the watermark before it takes the lock; a
\* closed or saturated queue ends it here.
BeginReset(c, kind, viewers) ==
  /\ call[c].at = "idle" /\ ~closed /\ ~Full /\ Affordable
  /\ call' = [call EXCEPT ![c] = [NoCall EXCEPT !.at = "reset", !.op = kind, !.viewers = viewers,
                                  !.n = resolved]]
  /\ UNCHANGED <<disk, memory, lock, admission, marks, writer, history>>

\* Memory, marker and push in one critical section; a cold viewer gets no marker.
Reset(c) ==
  LET viewers == call[c].viewers
      zero(rows) == [v \in Viewers |-> IF v \in viewers /\ rows[v] # NoRow THEN 0 ELSE rows[v]]
      full == call[c].op = "clear"
      marked == [v \in Viewers |-> IF ~full /\ v \in viewers /\ cache[v] # NoRow THEN next_op ELSE pending[v]]
  IN  /\ call[c].at = "reset" /\ Unlocked
      /\ next_op' = next_op + 1
      /\ EvictCold(zero(cache), marked, IF full THEN next_op ELSE reset_pending, call[c].n)
      /\ Push(c, [seq |-> next_op, kind |-> call[c].op, viewers |-> viewers, points |-> 0])
      /\ call' = Races(c, Touched(viewers), [call EXCEPT ![c] = NoCall])
      /\ intended' = zero(intended)
      /\ UNCHANGED <<disk, lock, marks, writer, applied, failed, doubtful>>

-----------------------------------------------------------------------------
(* run_points_writer and shutdown.                                         *)

\* Mutant: the watermark is stored when the batch is taken.
PopResolves ==
  LET size == IF Len(queue) < BatchSize THEN Len(queue) ELSE BatchSize
  IN  /\ writer.at = "idle" /\ queue # <<>>
      /\ writer' = [at |-> "batch", batch |-> SubSeq(queue, 1, size), last |-> queue[size].seq, failed |-> 0]
      /\ queue' = SubSeq(queue, size + 1, Len(queue))
      /\ resolved' = queue[size].seq
      /\ UNCHANGED <<disk, memory, lock, closed, admitted, committed, joined, call, history>>

\* Mutant: the writer takes the viewer lock to read the queue.
PopUnderViewerLock ==
  LET size == IF Len(queue) < BatchSize THEN Len(queue) ELSE BatchSize
  IN  /\ writer.at = "idle" /\ queue # <<>> /\ Unlocked
      /\ writer' = [at |-> "batch", batch |-> SubSeq(queue, 1, size), last |-> queue[size].seq, failed |-> 0]
      /\ queue' = SubSeq(queue, size + 1, Len(queue))
      /\ UNCHANGED <<disk, memory, lock, closed, admitted, marks, call, history>>

PopBatch ==
  LET size == IF Len(queue) < BatchSize THEN Len(queue) ELSE BatchSize
  IN  /\ writer.at = "idle" /\ queue # <<>>
      /\ writer' = [at |-> "batch", batch |-> SubSeq(queue, 1, size), last |-> queue[size].seq, failed |-> 0]
      /\ queue' = SubSeq(queue, size + 1, Len(queue))
      /\ UNCHANGED <<disk, memory, lock, closed, admitted, marks, call, history>>

\* The outcome of the batch is known; no watermark has moved yet.
Ends(first_failed) ==
  /\ writer' = [at |-> "commit", batch |-> <<>>, last |-> writer.last, failed |-> first_failed]
  /\ UNCHANGED marks

\* One transaction for the batch, at the first try or at a retry.
ApplyBatch ==
  /\ writer.at = "batch" /\ connected
  /\ Commit(writer.batch)
  /\ Ends(0)
  /\ UNCHANGED <<connected, memory, lock, admission, call, intended, failed, lost, doubtful, ordered>>

\* Without a connection every operation is reported as failed.
ReportBatch ==
  /\ writer.at = "batch" /\ ~connected
  /\ failed' = failed \union Range(writer.batch)
  /\ Ends(writer.batch[1].seq)
  /\ UNCHANGED <<disk, memory, lock, admission, call, intended, applied, lost, doubtful, ordered>>

\* Mutant: the failed transaction is not rolled back before the fallback.
FallBackAfterCommit ==
  /\ writer.at = "batch" /\ connected /\ "write" \in Faults
  /\ Commit(writer.batch)
  /\ writer' = [writer EXCEPT !.at = "single"]
  /\ UNCHANGED <<connected, memory, lock, admission, marks, call, intended, failed, lost, doubtful, ordered>>

\* Every retry has failed and was rolled back: one transaction per operation.
FallBack ==
  /\ writer.at = "batch" /\ connected /\ "write" \in Faults
  /\ writer' = [writer EXCEPT !.at = "single"]
  /\ UNCHANGED <<disk, memory, lock, admission, marks, call, history>>

ApplyOne ==
  LET op == Head(writer.batch)
      end(first_failed) == IF Tail(writer.batch) = <<>> THEN Ends(first_failed)
                           ELSE /\ writer' = [writer EXCEPT !.batch = Tail(@), !.failed = first_failed]
                                /\ UNCHANGED marks
  IN  /\ writer.at = "single"
      /\ \/ Commit(<<op>>) /\ end(writer.failed) /\ UNCHANGED failed
         \/ /\ failed' = failed \union {op}
            /\ end(IF writer.failed = 0 THEN op.seq ELSE writer.failed)
            /\ UNCHANGED <<durable, ledger, applied>>
      /\ UNCHANGED <<connected, memory, lock, admission, call, intended, lost, doubtful, ordered>>

\* Two atomic stores with readers in between, whatever the watermarks were: a
\* batch without a failure moves the durable one past an earlier failure.
StoreCommitted ==
  /\ writer.at = "commit"
  /\ committed' = IF writer.failed = 0 THEN writer.last ELSE writer.failed - 1
  /\ writer' = [writer EXCEPT !.at = "resolve"]
  /\ UNCHANGED <<disk, memory, lock, admission, resolved, joined, call, history>>

StoreResolved ==
  /\ writer.at = "resolve"
  /\ resolved' = writer.last
  /\ writer' = NoBatch
  /\ UNCHANGED <<disk, memory, lock, admission, committed, joined, call, history>>

\* Mutant: a closed queue ends the writer whatever is left in it.
StopsAtOnce ==
  /\ writer.at = "idle" /\ closed
  /\ writer' = [writer EXCEPT !.at = "stopped"]
  /\ UNCHANGED <<disk, memory, lock, admission, marks, call, history>>

WriterStops ==
  /\ writer.at = "idle" /\ queue = <<>> /\ closed
  /\ writer' = [writer EXCEPT !.at = "stopped"]
  /\ UNCHANGED <<disk, memory, lock, admission, marks, call, history>>

Close ==
  /\ ~closed
  /\ closed' = TRUE
  /\ UNCHANGED <<disk, memory, lock, queue, admitted, marks, writer, call, history>>

\* join, then fetch_max with the number of admitted operations.
Join ==
  /\ writer.at = "stopped" /\ ~joined
  /\ joined' = TRUE
  /\ resolved' = IF admitted > resolved THEN admitted ELSE resolved
  /\ UNCHANGED <<disk, memory, lock, admission, committed, writer, call, history>>

-----------------------------------------------------------------------------
CallerProceeds(c) ==
  \/ ReadPending(c) \/ Load(c) \/ Promote(c)
  \/ AdjustUnknown(c) \/ AwaitSlot(c) \/ Reject(c) \/ Mutate(c) \/ Submit(c) \/ Reset(c)

CallerBegins(c) ==
  \/ \E v \in Viewers : Begin(c, "award", v)
  \/ /\ c \notin LiveWorker
     /\ \/ \E v \in Viewers, op \in {"view", "adjust"} : Begin(c, op, v)
        \/ \E v \in Viewers : BeginReset(c, "reset", {v})
        \/ BeginReset(c, "clear", Viewers)

WriterStep ==
  \/ PopBatch \/ ApplyBatch \/ ReportBatch \/ FallBack \/ ApplyOne
  \/ StoreCommitted \/ StoreResolved \/ WriterStops

Next ==
  \/ \E c \in Callers : CallerBegins(c) \/ CallerProceeds(c)
  \/ WriterStep
  \/ Close \/ Join

Spec == PointsInit /\ [][Next]_vars

\* The threads run; the waits have deadlines, the retries an end.
LiveSpec ==
  /\ Spec
  /\ \A c \in Callers : WF_vars(CallerProceeds(c))
  /\ WF_vars(WriterStep) /\ WF_vars(Join)

-----------------------------------------------------------------------------
(* What the cache and the writer promise.                                  *)

\* Operations allocated and not finished.
Unsubmitted == {c \in Callers : call[c].at = "submit"}
Outstanding(v) ==
  \/ \E c \in Unsubmitted : v \in call[c].viewers
  \/ \E op \in Range(queue) \union Range(writer.batch) : op.kind # "clear" /\ v \in op.viewers

\* Every write the queue has taken is waiting, in the batch being applied, on
\* disk or reported as failed, in exactly one of them; shutdown returns with
\* nothing waiting (points.rs, run_points_writer and shutdown).
EveryWriteAccounted ==
  /\ admitted = Len(queue) + Len(writer.batch) + Cardinality(applied) + Cardinality(failed)
  /\ joined => queue = <<>> /\ writer.batch = <<>>

\* However often a transaction was tried again, whole or one operation at a
\* time, an award has one transaction row once it is applied and none when it
\* was reported as failed, unless a full reset has deleted it.
RecordedOnce ==
  /\ \A op \in applied :
       /\ op.kind = "save" => ledger[op.seq] <= 1
       /\ op.kind = "save" /\ (\A other \in applied : other.kind # "clear") => ledger[op.seq] = 1
  /\ \A op \in failed : ledger[op.seq] = 0

\* As long as the queue holds the order of the sequences: a row whose own write
\* is not finished stays in the cache (points.rs, PointsInner::pending).
DirtyRowsStay ==
  [][ordered => \A v \in Viewers \ doubtful :
       (cache[v] # NoRow /\ cache'[v] = NoRow) => ~Outstanding(v)]_vars

\* As long as the queue holds the order of the sequences: whatever is at or
\* below either watermark is applied or was reported as failed, also between
\* the two stores, when the durable one is ahead (points.rs, run_points_writer).
WatermarksHonest ==
  ordered => \A s \in (1 .. resolved) \union (1 .. committed) :
               \E op \in applied \union failed : op.seq = s

Quiet == Unsubmitted = {} /\ queue = <<>> /\ writer.batch = <<>>

\* As long as the queue holds the order of the sequences: with all writes
\* finished, the balance on disk and the one in the cache are the sum of what
\* was asked.  Excused are a viewer whose write failed or came after the queue
\* was closed, and a row created or reloaded from a read that was old.
BalancesAreExact ==
  ordered /\ Quiet =>
    \A v \in Viewers \ (doubtful \union UNION {op.viewers : op \in failed \union lost}) :
      durable[v] = intended[v] /\ cache[v] \in {NoRow, durable[v]}

\* Every call returns and shutdown joins the writer, whatever fails.
EverythingReturns ==
  /\ \A c \in Callers : call[c].at # "idle" ~> call[c].at = "idle"
  /\ closed ~> joined

\* "Concurrent awards from many threads must be durable in whatever order they
\* were admitted, with nothing lost between memory and SQLite" (points.rs:2085).
ConcurrentAwardsAreDurable ==
  Quiet /\ failed = {} /\ lost = {} =>
    \A v \in Viewers \ doubtful : cache[v] # NoRow => cache[v] = durable[v]
=============================================================================
