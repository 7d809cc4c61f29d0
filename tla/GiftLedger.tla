----------------------------- MODULE GiftLedger -----------------------------
(***************************************************************************)
(* What one sender's gifts are worth.  A streak of the same gift (a combo) *)
(* arrives as messages that each carry the running total, under identities *)
(* of their own, perhaps repeated, out of order, late, without a price, or *)
(* not at all.  Three accounts are made of them:                           *)
(*                                                                         *)
(*  - a ranking of gift.count and a ranking of gift.diamonds, fed by the   *)
(*    increments of LiveTotals, which forgets; and                         *)
(*  - a competition scored in diamonds, fed by a durable high-water mark   *)
(*    per combo and a receipt per message.                                 *)
(*                                                                         *)
(* The ordered ingress worker admits one message (deduplication, totals,   *)
(* ordinary rankings) and then routes it (the competition).  Between the   *)
(* two a control operation, the deadline or the end of the process may     *)
(* come.  One creator, room, sender and host; ownership is the subject of  *)
(* module Competition.                                                     *)
(***************************************************************************)
EXTENDS Integers, FiniteSetsExt, SequencesExt

CONSTANTS
  Combos,         \* group identities
  MaxTotal,       \* bound on the running total of a combo
  Serials,        \* tells apart the messages that carry the same total
  Prices,         \* diamonds per gift a message may come with; 0 is unknown
  Mapped,         \* the gift is mapped to an option of the competition
  MaxCombos,      \* CAPACITY of the combo table of LiveTotals
  DedupCapacity,  \* DEDUP_CAPACITY
  MaxSent,        \* bound on the messages admitted
  NoEffect, NoTotal, NoReceipt

ASSUME GiftAssumption ==
  /\ IsFiniteSet(Combos) /\ IsFiniteSet(Serials)
  /\ MaxTotal \in Nat \ {0} /\ MaxCombos \in Nat \ {0}
  /\ DedupCapacity \in Nat \ {0} /\ MaxSent \in Nat
  /\ Prices \subseteq Nat /\ 0 \in Prices /\ Prices # {0} /\ Mapped \in BOOLEAN
  /\ NoTotal \notin [units : Nat, diamonds : Nat]
  /\ NoReceipt \notin [price : Prices, score : Nat]

Totals   == 1 .. MaxTotal
Messages == [combo : Combos, total : Totals, serial : Serials]

\* How a message comes: in the stream; re-sent as history; without a message
\* identity; or without the group identity of its combo.
Kinds == {"live", "history", "anonymous", "ungrouped"}
Deliveries == [message : Messages, price : Prices, kind : Kinds]

VARIABLES
  \* The competition: SQLite, and the ranking projected from it.
  lifecycle,    \* "due" is active with its deadline passed, "over" finished or cancelled
  chosen,       \* the sender has chosen an option by a command
  high,         \* competition_gift_combos and competition_gift_combo_prices
  receipt,      \* competition_gift_receipts with the score of each
  engine,       \* score of the option in memory
  degraded,     \* integrity of that ranking
  \* The LIVE session in memory.
  seen,         \* LiveDedup: identities, oldest first
  totals,       \* LiveTotals: high-water marks of the combos it remembers
  held,         \* the effect between admission and routing
  \* The ordinary rankings.
  count, countGap,
  diamonds, diamondsGap,
  \* History the program does not keep.
  sent,         \* messages admitted so far, for MaxSent
  shown,        \* highest total admitted for each combo
  forgotten,    \* combos that LiveTotals has forgotten
  recounted,    \* gifts of those that were counted once more
  worth,        \* what the gifts were worth when first shown, or shown again
  early,        \* highest total of a combo routed before the start
  arrived,      \* gifts routed to the competition while it was running
  owed          \* those that came in time and had an option

competition == <<lifecycle, chosen, high, receipt, engine, degraded>>
session     == <<seen, totals, held>>
rankings    == <<count, countGap, diamonds, diamondsGap>>
tallies     == <<sent, shown, forgotten, recounted, worth>>
claims      == <<early, arrived, owed>>
vars == <<competition, session, rankings, tallies, claims>>

Gifts == Combos \X Totals

TypeOK ==
  /\ lifecycle \in {"draft", "active", "due", "paused", "finalizing", "over"}
  /\ chosen \in BOOLEAN
  /\ high \in [Combos -> [units : Nat, diamonds : Nat, price : Prices]]
  /\ receipt \in [Messages -> [price : Prices, score : Nat] \union {NoReceipt}]
  /\ degraded \in BOOLEAN
  /\ seen \in Seq(Messages) /\ Len(seen) <= DedupCapacity
  /\ totals \in [Combos -> [units : Nat, diamonds : Nat] \union {NoTotal}]
  /\ held = NoEffect \/ held \in [message : Messages, price : Prices, late : BOOLEAN]
  /\ count \in Nat /\ countGap \in BOOLEAN
  /\ diamonds \in Nat /\ diamondsGap \in BOOLEAN
  /\ sent \in 0 .. MaxSent
  /\ shown \in [Combos -> 0 .. MaxTotal] /\ forgotten \subseteq Combos
  /\ recounted \in Nat /\ worth \in Nat
  /\ early \in [Combos -> 0 .. MaxTotal]
  /\ owed \subseteq arrived /\ arrived \subseteq Gifts

NoHigh == [units |-> 0, diamonds |-> 0, price |-> 0]

Init ==
  /\ lifecycle = "draft" /\ chosen = FALSE
  /\ high = [c \in Combos |-> NoHigh]
  /\ receipt = [m \in Messages |-> NoReceipt]
  /\ engine = 0 /\ degraded = FALSE
  /\ seen = <<>> /\ held = NoEffect
  /\ totals = [c \in Combos |-> NoTotal]
  /\ count = 0 /\ countGap = FALSE /\ diamonds = 0 /\ diamondsGap = FALSE
  /\ sent = 0 /\ shown = [c \in Combos |-> 0]
  /\ forgotten = {} /\ recounted = 0 /\ worth = 0
  /\ early = [c \in Combos |-> 0] /\ arrived = {} /\ owed = {}

\* saturating_sub
Minus(a, b)  == IF a > b THEN a - b ELSE 0
Higher(a, b) == IF a > b THEN a ELSE b

-----------------------------------------------------------------------------
(* Admission: prepare_live_event.                                          *)

\* check_duplicate: a message without an identity is never a duplicate.
Duplicate(d) == d.kind # "anonymous" /\ d.message \in ToSet(seen)

\* A full window drops its oldest identity.
Remembered(d) ==
  IF d.kind = "anonymous" THEN seen
  ELSE Append(IF Len(seen) >= DedupCapacity THEN Tail(seen) ELSE seen, d.message)

\* observe(): the increments over the high-water mark of the combo.  A combo
\* that does not fit is not guessed at; a gift without its group has no combo.
Grouped(d)   == d.kind # "ungrouped"
Tracked      == {c \in Combos : totals[c] # NoTotal}
Untracked(d) ==
  Grouped(d) /\ totals[d.message.combo] = NoTotal /\ Cardinality(Tracked) >= MaxCombos

Previous(d) ==
  IF totals[d.message.combo] = NoTotal THEN [units |-> 0, diamonds |-> 0]
                                       ELSE totals[d.message.combo]
PerMessage(d) == IF d.message.total > Previous(d).units THEN 1 ELSE 0     \* mutant
Increment(d) == Minus(d.message.total, Previous(d).units)
HighUnits(d) == Higher(Previous(d).units, d.message.total)
Target(d)    == HighUnits(d) * d.price
Diamonds(d)  == Minus(Target(d), Previous(d).diamonds)

Counts(d) == Grouped(d) /\ ~Untracked(d)
Observed(d) ==
  IF ~Counts(d) THEN totals
  ELSE [totals EXCEPT ![d.message.combo] =
          [units |-> HighUnits(d), diamonds |-> Higher(Previous(d).diamonds, Target(d))]]

\* An increment is credited when nothing about it is in doubt; diamonds only
\* up to what the new gifts alone are worth.
Accounted(d) == d.kind = "live" /\ Counts(d)
Revalued(d)   == d.price > 0 /\ Increment(d) > 0                         \* mutant
Creditable(d) ==
  d.price > 0 /\ Increment(d) > 0 /\ Diamonds(d) <= Increment(d) * d.price

CountRanking(d) ==
  IF Accounted(d) THEN count' = count + Increment(d) /\ UNCHANGED countGap
                  ELSE countGap' = TRUE /\ UNCHANGED count

DiamondsRanking(d) ==
  IF Accounted(d) /\ Creditable(d)
  THEN diamonds' = diamonds + Diamonds(d) /\ UNCHANGED diamondsGap
  ELSE /\ diamondsGap' = (diamondsGap \/ ~Accounted(d)
                            \/ Increment(d) > 0 \/ Diamonds(d) > 0)
       /\ UNCHANGED diamonds

\* What an observer who forgets nothing would say of the message: gifts shown
\* for the first time, and gifts shown again that LiveTotals has forgotten.
New(d)   == Minus(d.message.total, shown[d.message.combo])
Again(d) ==
  IF d.message.combo \in forgotten
  THEN Minus(d.message.total - New(d), Previous(d).units) ELSE 0

Tally(d) ==
  /\ sent' = sent + 1
  /\ IF Counts(d)
     THEN /\ shown' = [shown EXCEPT ![d.message.combo] = @ + New(d)]
          /\ recounted' = recounted + Again(d)
          /\ worth' = worth + d.price * (New(d) + Again(d))
     ELSE UNCHANGED <<shown, recounted, worth>>
  /\ UNCHANGED forgotten

\* What the competition may use of the message: only a live one with every
\* identity has a price for it.
Usable(d) == IF d.kind = "live" THEN d.price ELSE 0

\* A duplicate is skipped everywhere.  The reception time is read at the end.
Admit(d) ==
  /\ held = NoEffect /\ sent < MaxSent
  /\ d.kind = "ungrouped" => d.message.total > 1
  /\ ~Duplicate(d)
  /\ seen' = Remembered(d)
  /\ totals' = Observed(d)
  /\ held' = [message |-> d.message, price |-> Usable(d), late |-> lifecycle = "due"]
  /\ CountRanking(d) /\ DiamondsRanking(d)
  /\ Tally(d)
  /\ UNCHANGED <<competition, claims>>

\* Five minutes: the oldest identity expires, or a combo that was silent for
\* that long, and with it the identities of its messages.
IdentityExpires ==
  /\ seen # <<>>
  /\ seen' = Tail(seen)
  /\ UNCHANGED <<competition, totals, held, rankings, tallies, claims>>

ComboExpires(c) ==
  /\ c \in Tracked /\ \A m \in ToSet(seen) : m.combo # c
  /\ totals' = [totals EXCEPT ![c] = NoTotal]
  /\ forgotten' = forgotten \union {c}
  /\ UNCHANGED <<competition, seen, held, rankings, sent, shown, recounted, worth, claims>>

-----------------------------------------------------------------------------
(* Routing: route_live_competition_gift and route_competition_gift.        *)

Message == held.message
Price   == held.price
Combo   == Message.combo

Running   == lifecycle \in {"active", "due", "paused"}
InUse     == Running \/ lifecycle = "finalizing"
Assigned  == Mapped \/ chosen

\* A usable message counts until it was received after the deadline, another
\* one until it is routed after the deadline.
Open ==
  IF Price > 0 THEN lifecycle \in {"active", "due"} /\ ~held.late
               ELSE lifecycle = "active"

\* The gifts of the message that were not there before the start nor since, and
\* whether they are owed a score: this is what the scores are compared with.  A
\* total of one is where a combo begins, as far as a competition can tell.
Early    == IF Message.total = 1 THEN 0 ELSE early[Combo]
Arriving == {<<Combo, u>> : u \in Early + 1 .. Message.total} \ arrived
Claim ==
  IF Running
  THEN /\ early' = [early EXCEPT ![Combo] = Early]
       /\ arrived' = arrived \union Arriving
       /\ owed' = IF Open /\ Assigned THEN owed \union Arriving ELSE owed
  ELSE /\ early' = [early EXCEPT ![Combo] = Higher(@, Message.total)]
       /\ UNCHANGED <<arrived, owed>>

Routed ==
  /\ held # NoEffect
  /\ held' = NoEffect
  /\ Claim
  /\ UNCHANGED <<lifecycle, chosen, seen, totals, rankings, tallies>>

\* mark_invalid_competition_routes: no known price or no safe identity.  A
\* competition that is not running, or is due by now, loses nothing.
RouteInvalid ==
  /\ held # NoEffect /\ Price = 0
  /\ Routed
  /\ degraded' = (degraded \/ (Running /\ lifecycle # "due"))
  /\ UNCHANGED <<high, receipt, engine>>

\* Before the start and after the end nothing is recorded.
RouteClosed ==
  /\ held # NoEffect /\ Price > 0 /\ ~Running
  /\ Routed
  /\ UNCHANGED <<high, receipt, engine, degraded>>

Known == receipt[Message] # NoReceipt

RouteDuplicate ==
  /\ held # NoEffect /\ Price > 0 /\ Running
  /\ Known /\ receipt[Message].price = Price
  /\ Routed
  /\ UNCHANGED <<high, receipt, engine, degraded>>

\* A combo is accounted from its first gift on, at one price.
FromAnywhere == high[Combo].price \in {0, Price}                        \* mutant
Continues ==
  IF high[Combo].price = 0 THEN Message.total = 1 ELSE high[Combo].price = Price

RouteRefused ==
  /\ held # NoEffect /\ Price > 0 /\ Running
  /\ IF Known THEN receipt[Message].price # Price ELSE ~Continues
  /\ Routed
  /\ degraded' = TRUE
  /\ UNCHANGED <<high, receipt, engine>>

\* A storage error, a full table, a stopped host: nothing is committed.
RouteFailed ==
  /\ held # NoEffect /\ Price > 0
  /\ Routed
  /\ degraded' = TRUE
  /\ UNCHANGED <<high, receipt, engine>>

\* advance_combo: the mark moves whatever the competition makes of it, and
\* the score is what the mark moved by.
Advanced ==
  LET units == Higher(high[Combo].units, Message.total)
  IN [units    |-> units,
      diamonds |-> Higher(high[Combo].diamonds, units * Price),
      price    |-> Price]
Delta ==
  IF Message.total <= high[Combo].units THEN 0
  ELSE Minus(Advanced.diamonds, high[Combo].diamonds)

Score == IF Open /\ Assigned THEN Delta ELSE 0

\* Mark, receipt and score commit together; then the score is projected.  If
\* the ranking rejects it the ledger is ahead, and the ranking says so.
RouteCounted ==
  /\ held # NoEffect /\ Price > 0 /\ Running /\ ~Known /\ Continues
  /\ Routed
  /\ high' = [high EXCEPT ![Combo] = Advanced]
  /\ receipt' = [receipt EXCEPT ![Message] = [price |-> Price, score |-> Score]]
  /\ \/ engine' = engine + Score /\ UNCHANGED degraded
     \/ Score > 0 /\ degraded' = TRUE /\ UNCHANGED engine

Route ==
  \/ RouteInvalid \/ RouteClosed \/ RouteDuplicate
  \/ RouteRefused \/ RouteFailed \/ RouteCounted

-----------------------------------------------------------------------------
(* Control operations, the deadline, and a vote of the sender.             *)

Becomes(next) ==
  /\ lifecycle' = next
  /\ UNCHANGED <<chosen, high, receipt, engine, degraded, session, rankings, tallies, claims>>

Start    == lifecycle = "draft" /\ Becomes("active")
Pause    == lifecycle = "active" /\ Becomes("paused")
Resume   == lifecycle = "paused" /\ Becomes("active")
Deadline == lifecycle = "active" /\ Becomes("due")
Finish   == Running /\ Becomes("finalizing")
Cancel   == (Running \/ lifecycle = "draft") /\ Becomes("over")
Decide   == lifecycle = "finalizing" /\ Becomes("over")

\* The vote comes through the same ordered worker.
Choose ==
  /\ held = NoEffect /\ lifecycle = "active" /\ ~chosen
  /\ chosen' = TRUE
  /\ UNCHANGED <<lifecycle, high, receipt, engine, degraded, session, rankings, tallies, claims>>

-----------------------------------------------------------------------------
(* The end of the process and the next boot: the session is gone, the      *)
(* competition is rebuilt from its ledger, the rankings from a checkpoint. *)

Scored(messages) ==
  MapThenSumSet(LAMBDA m : IF receipt[m] = NoReceipt THEN 0 ELSE receipt[m].score, messages)

Boots ==
  /\ seen' = <<>> /\ totals' = [c \in Combos |-> NoTotal] /\ held' = NoEffect
  /\ engine' = Scored(Messages)
  /\ forgotten' = forgotten \union Tracked
  /\ UNCHANGED <<lifecycle, chosen, high, receipt, sent, shown, recounted, worth, claims>>

\* Drained, with a last checkpoint.  A competition that is in use comes back
\* clean only if it was; another one needs no checkpoint for that.
Restart ==
  /\ held = NoEffect
  /\ Boots
  /\ degraded' = (degraded /\ InUse)
  /\ UNCHANGED rankings

\* A crash: what is held is gone, the newest checkpoint is some earlier one,
\* and everything in use says that it may be incomplete.
Crash ==
  /\ Boots
  /\ degraded' = InUse
  /\ count' \in 0 .. count /\ diamonds' \in 0 .. diamonds
  /\ countGap' = TRUE /\ diamondsGap' = TRUE

Next ==
  \/ \E d \in Deliveries : Admit(d)
  \/ IdentityExpires \/ \E c \in Combos : ComboExpires(c)
  \/ Route
  \/ Start \/ Pause \/ Resume \/ Deadline \/ Finish \/ Cancel \/ Decide \/ Choose
  \/ Restart \/ Crash

Spec == Init /\ [][Next]_vars

-----------------------------------------------------------------------------
(* What the program promises.                                              *)

Of(c) == {m \in Messages : m.combo = c}
Owed(c) == Cardinality({g \in owed : g[1] = c})

\* A competition in use that is not degraded has scored every gift that reached it
\* while it was running and the sender had an option, once, at the price of
\* its combo, and no other gift: whatever was repeated under a new identity,
\* re-sent after a restart, skipped, reordered, paused or late.  The ranking
\* it will be decided from says the same.
GiftsScoredOnce ==
  (InUse /\ ~degraded) =>
    /\ \A c \in Combos : Scored(Of(c)) = Owed(c) * high[c].price
    /\ engine = Scored(Messages)

\* A gift.count ranking that is not degraded has counted every gift that was
\* shown, once, except for those of a combo LiveTotals has forgotten (a
\* restart or five silent minutes): these it counts again when the combo goes
\* on.  A gift.diamonds ranking without a gap has credited the same gifts, at
\* some price.
ShownGiftsCounted ==
  LET gifts == SumFunction(shown) + recounted
  IN /\ ~countGap => count = gifts
     /\ ~diamondsGap => diamonds >= gifts * Min(Prices \ {0})

\* Diamonds are credited for the gifts a message shows and never for the past
\* of the combo, with a gap or without: a price that becomes known late does
\* not revalue what was counted before.
DiamondsNeverRetroactive == diamonds <= worth

=============================================================================
