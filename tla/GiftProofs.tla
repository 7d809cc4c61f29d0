----------------------------- MODULE GiftProofs -----------------------------
(***************************************************************************)
(* Proofs about GiftLedger for any combos, totals, prices and capacities:  *)
(* the types; that diamonds are never credited for the past of a combo;    *)
(* that a ranking without a gap has counted the gifts that were shown; and *)
(* that a competition that is not degraded has scored every gift once.     *)
(***************************************************************************)
EXTENDS GiftLedger, SequenceTheorems, FiniteSetTheorems, TLAPS

-----------------------------------------------------------------------------
(* What a message adds.                                                    *)

LEMMA Products ==
  ASSUME NEW a \in Nat, NEW b \in Nat
  PROVE  a * b \in Nat
BY SMT

\* A delivery has a combo, a total of at least one and a price.
LEMMA DeliveryTypes ==
  ASSUME NEW d \in Deliveries, GiftAssumption
  PROVE  /\ d.message \in Messages /\ d.message.combo \in Combos
         /\ d.message.total \in Nat \ {0} /\ d.message.total \in 1 .. MaxTotal
         /\ d.price \in Prices /\ d.price \in Nat
<1>1. d.message \in Messages /\ d.price \in Prices
  BY DEF Deliveries
<1>2. d.message.combo \in Combos /\ d.message.total \in 1 .. MaxTotal
  BY <1>1 DEF Messages, Totals
<1>3. d.price \in Nat /\ d.message.total \in Nat \ {0}
  <2>1. MaxTotal \in Nat /\ Prices \subseteq Nat
    BY DEF GiftAssumption
  <2>2. d.message.total \in Nat \ {0}
    BY <1>2, <2>1
  <2> QED
    BY <1>1, <2>1, <2>2
<1> QED
  BY <1>1, <1>2, <1>3

\* The increments are natural numbers, and the high-water mark is one.
LEMMA IncrementTypes ==
  ASSUME NEW d \in Deliveries, TypeOK, GiftAssumption
  PROVE  /\ Previous(d) \in [units : Nat, diamonds : Nat]
         /\ HighUnits(d) \in Nat /\ Target(d) \in Nat
         /\ Increment(d) \in Nat /\ Diamonds(d) \in Nat
         /\ New(d) \in Nat /\ Again(d) \in Nat
         /\ Observed(d) \in [Combos -> [units : Nat, diamonds : Nat] \union {NoTotal}]
<1>1. /\ d.message.combo \in Combos /\ d.message.total \in Nat
      /\ d.price \in Nat /\ MaxTotal \in Nat
  BY DeliveryTypes DEF GiftAssumption
<1>2. Previous(d) \in [units : Nat, diamonds : Nat]
  <2>1. totals[d.message.combo] \in [units : Nat, diamonds : Nat] \union {NoTotal}
    BY <1>1 DEF TypeOK
  <2> QED
    BY <2>1 DEF Previous
<1>3. Previous(d).units \in Nat /\ Previous(d).diamonds \in Nat
  BY <1>2
<1>4. HighUnits(d) \in Nat
  BY <1>1, <1>3 DEF HighUnits, Higher
<1>5. Target(d) \in Nat
  BY <1>1, <1>4, Products DEF Target
<1>6. Increment(d) \in Nat /\ Diamonds(d) \in Nat
  BY <1>1, <1>3, <1>5 DEF Increment, Diamonds, Minus
<1>7. New(d) \in Nat /\ New(d) <= d.message.total
  <2>1. shown[d.message.combo] \in Nat
    BY <1>1 DEF TypeOK
  <2> QED
    BY <1>1, <2>1 DEF New, Minus
<1>8. Again(d) \in Nat
  BY <1>1, <1>3, <1>7 DEF Again, Minus
<1>9. Observed(d) \in [Combos -> [units : Nat, diamonds : Nat] \union {NoTotal}]
  <2>1. [units |-> HighUnits(d), diamonds |-> Higher(Previous(d).diamonds, Target(d))]
          \in [units : Nat, diamonds : Nat]
    BY <1>3, <1>4, <1>5 DEF Higher
  <2> QED
    BY <2>1, <1>1 DEF Observed, TypeOK
<1> QED
  BY <1>2, <1>4, <1>5, <1>6, <1>7, <1>8, <1>9

\* The ordinary rankings stay numbers and flags.
LEMMA RankingTypes ==
  ASSUME NEW d \in Deliveries, TypeOK, GiftAssumption, CountRanking(d), DiamondsRanking(d)
  PROVE  /\ count' \in Nat /\ countGap' \in BOOLEAN
         /\ diamonds' \in Nat /\ diamondsGap' \in BOOLEAN
<1>1. /\ count \in Nat /\ countGap \in BOOLEAN
      /\ diamonds \in Nat /\ diamondsGap \in BOOLEAN
      /\ Increment(d) \in Nat /\ Diamonds(d) \in Nat
  BY IncrementTypes DEF TypeOK
<1>2. count' \in Nat /\ countGap' \in BOOLEAN
  <2>1. CASE Accounted(d)
    BY <1>1, <2>1 DEF CountRanking
  <2>2. CASE ~Accounted(d)
    BY <1>1, <2>2 DEF CountRanking
  <2> QED
    BY <2>1, <2>2
<1>3. diamonds' \in Nat
  BY <1>1 DEF DiamondsRanking
<1>4. diamondsGap' \in BOOLEAN
  <2>1. CASE Accounted(d) /\ Creditable(d)
    BY <1>1, <2>1 DEF DiamondsRanking
  <2>2. CASE ~(Accounted(d) /\ Creditable(d))
    <3>1. diamondsGap' = (diamondsGap \/ ~Accounted(d) \/ Increment(d) > 0 \/ Diamonds(d) > 0)
      BY <2>2 DEF DiamondsRanking
    <3> QED
      BY <3>1
  <2> QED
    BY <2>1, <2>2
<1> QED
  BY <1>2, <1>3, <1>4

\* So do the tallies.
LEMMA TallyTypes ==
  ASSUME NEW d \in Deliveries, TypeOK, GiftAssumption, sent < MaxSent, Tally(d)
  PROVE  /\ sent' \in 0 .. MaxSent /\ shown' \in [Combos -> 0 .. MaxTotal]
         /\ forgotten' \subseteq Combos /\ recounted' \in Nat /\ worth' \in Nat
<1>1. /\ d.message.combo \in Combos /\ d.message.total \in 1 .. MaxTotal /\ d.price \in Nat
      /\ New(d) \in Nat /\ Again(d) \in Nat /\ MaxTotal \in Nat /\ MaxSent \in Nat
  BY DeliveryTypes, IncrementTypes DEF GiftAssumption
<1>2. shown[d.message.combo] \in 0 .. MaxTotal
  BY <1>1 DEF TypeOK
<1>3. shown[d.message.combo] + New(d) \in 0 .. MaxTotal
  BY <1>1, <1>2 DEF New, Minus
<1>4. shown' \in [Combos -> 0 .. MaxTotal]
  BY <1>3 DEF Tally, TypeOK
<1>5. d.price * (New(d) + Again(d)) \in Nat
  <2>1. New(d) + Again(d) \in Nat
    BY <1>1
  <2> QED
    BY <1>1, <2>1, Products
<1>6. worth' \in Nat /\ recounted' \in Nat
  <2>1. worth \in Nat /\ recounted \in Nat
    BY DEF TypeOK
  <2>2. CASE Counts(d)
    <3>1. worth' = worth + d.price * (New(d) + Again(d)) /\ recounted' = recounted + Again(d)
      BY <2>2 DEF Tally
    <3> QED
      BY <1>1, <1>5, <2>1, <3>1
  <2>3. CASE ~Counts(d)
    BY <2>1, <2>3 DEF Tally
  <2> QED
    BY <2>2, <2>3
<1>7. sent' \in 0 .. MaxSent /\ forgotten' \subseteq Combos
  <2>1. sent \in 0 .. MaxSent /\ forgotten \subseteq Combos
    BY DEF TypeOK
  <2>2. sent' = sent + 1 /\ forgotten' = forgotten
    BY DEF Tally
  <2> QED
    BY <1>1, <2>1, <2>2
<1> QED
  BY <1>4, <1>6, <1>7

\* The window holds messages, and not more than it has room for.
LEMMA WindowTypes ==
  ASSUME NEW d \in Deliveries, TypeOK, GiftAssumption
  PROVE  Remembered(d) \in Seq(Messages) /\ Len(Remembered(d)) <= DedupCapacity
<1>1. /\ d.message \in Messages /\ seen \in Seq(Messages) /\ Len(seen) <= DedupCapacity
      /\ DedupCapacity \in Nat \ {0}
  BY DeliveryTypes DEF TypeOK, GiftAssumption
<1>2. CASE d.kind = "anonymous"
  BY <1>1, <1>2 DEF Remembered
<1>3. CASE d.kind # "anonymous"
  <2> DEFINE kept == IF Len(seen) >= DedupCapacity THEN Tail(seen) ELSE seen
  <2>1. kept \in Seq(Messages) /\ Len(kept) < DedupCapacity
    <3>1. CASE Len(seen) >= DedupCapacity
      <4>1. Len(seen) \in Nat /\ Len(seen) > 0 /\ seen # <<>>
        BY <1>1, <3>1, LenProperties, EmptySeq
      <4>2. Tail(seen) \in Seq(Messages) /\ Len(Tail(seen)) = Len(seen) - 1
        BY <1>1, <4>1, HeadTailProperties
      <4> QED
        BY <1>1, <3>1, <4>1, <4>2
    <3>2. CASE ~(Len(seen) >= DedupCapacity)
      BY <1>1, <3>2, LenProperties
    <3> QED
      BY <3>1, <3>2
  <2>2. Append(kept, d.message) \in Seq(Messages) /\ Len(Append(kept, d.message)) = Len(kept) + 1
    BY <1>1, <2>1, AppendProperties
  <2>3. Remembered(d) = Append(kept, d.message)
    BY <1>3 DEF Remembered
  <2> QED
    BY <1>1, <2>1, <2>2, <2>3, LenProperties
<1> QED
  BY <1>2, <1>3

-----------------------------------------------------------------------------
(* Type correctness, one lemma per part of Next.                           *)

LEMMA AdmitTyped ==
  ASSUME NEW d \in Deliveries, TypeOK, GiftAssumption, Admit(d)
  PROVE  TypeOK'
<1>1. held' \in [message : Messages, price : Prices, late : BOOLEAN]
  <2>1. Usable(d) \in Prices /\ d.message \in Messages
    BY DeliveryTypes DEF Usable, GiftAssumption
  <2> QED
    BY <2>1 DEF Admit
<1>2. seen' \in Seq(Messages) /\ Len(seen') <= DedupCapacity
  BY WindowTypes DEF Admit
<1>3. totals' \in [Combos -> [units : Nat, diamonds : Nat] \union {NoTotal}]
  BY IncrementTypes DEF Admit
<1>4. /\ count' \in Nat /\ countGap' \in BOOLEAN
      /\ diamonds' \in Nat /\ diamondsGap' \in BOOLEAN
  BY RankingTypes DEF Admit
<1>5. /\ sent' \in 0 .. MaxSent /\ shown' \in [Combos -> 0 .. MaxTotal]
      /\ forgotten' \subseteq Combos /\ recounted' \in Nat /\ worth' \in Nat
  BY TallyTypes DEF Admit
<1>6. UNCHANGED <<lifecycle, chosen, high, receipt, degraded, early, arrived, owed>>
  BY DEF Admit, competition, claims
<1> QED
  BY <1>1, <1>2, <1>3, <1>4, <1>5, <1>6 DEF TypeOK

LEMMA ForgetTyped ==
  ASSUME TypeOK, GiftAssumption, IdentityExpires \/ \E c \in Combos : ComboExpires(c)
  PROVE  TypeOK'
<1>1. CASE IdentityExpires
  <2>1. seen' \in Seq(Messages) /\ Len(seen') <= DedupCapacity
    <3>1. seen \in Seq(Messages) /\ seen # <<>> /\ seen' = Tail(seen) /\ Len(seen) <= DedupCapacity
      BY <1>1 DEF IdentityExpires, TypeOK
    <3>2. Tail(seen) \in Seq(Messages) /\ Len(Tail(seen)) = Len(seen) - 1
      BY <3>1, HeadTailProperties
    <3>3. Len(seen) \in Nat /\ DedupCapacity \in Nat
      BY <3>1, LenProperties DEF GiftAssumption
    <3> QED
      BY <3>1, <3>2, <3>3
  <2> QED
    BY <1>1, <2>1 DEF IdentityExpires, TypeOK, competition, rankings, tallies, claims
<1>2. ASSUME NEW c \in Combos, ComboExpires(c)
      PROVE  TypeOK'
  <2>1. totals' \in [Combos -> [units : Nat, diamonds : Nat] \union {NoTotal}]
    BY <1>2 DEF ComboExpires, TypeOK
  <2>2. forgotten' \subseteq Combos
    BY <1>2 DEF ComboExpires, TypeOK
  <2> QED
    BY <1>2, <2>1, <2>2 DEF ComboExpires, TypeOK, competition, rankings, claims
<1> QED
  BY <1>1, <1>2

\* What is routed has a message of some combo.
LEMMA HeldTypes ==
  ASSUME TypeOK, held # NoEffect, GiftAssumption
  PROVE  /\ Message \in Messages /\ Combo \in Combos /\ Price \in Prices /\ Price \in Nat
         /\ Message.total \in 1 .. MaxTotal /\ MaxTotal \in Nat
<1>1. Message \in Messages /\ Price \in Prices
  BY DEF TypeOK, Message, Price
<1>2. Message.combo \in Combos /\ Message.total \in 1 .. MaxTotal
  BY <1>1 DEF Messages, Totals
<1>3. Prices \subseteq Nat /\ MaxTotal \in Nat
  BY DEF GiftAssumption
<1> QED
  BY <1>1, <1>2, <1>3 DEF Combo

LEMMA ClaimTyped ==
  ASSUME TypeOK, held # NoEffect, GiftAssumption, Claim
  PROVE  /\ early' \in [Combos -> 0 .. MaxTotal]
         /\ owed' \subseteq arrived' /\ arrived' \subseteq Gifts
<1>1. /\ early \in [Combos -> 0 .. MaxTotal] /\ Combo \in Combos
      /\ Message.total \in 1 .. MaxTotal /\ MaxTotal \in Nat
      /\ owed \subseteq arrived /\ arrived \subseteq Gifts
  BY HeldTypes DEF TypeOK
<1>2. Early \in 0 .. MaxTotal
  BY <1>1 DEF Early
<1>3. Arriving \subseteq Gifts
  <2>1. \A u \in Early + 1 .. Message.total : <<Combo, u>> \in Combos \X (1 .. MaxTotal)
    BY <1>1, <1>2
  <2> QED
    BY <2>1 DEF Arriving, Gifts, Totals
<1>4. CASE Running
  <2>1. early' = [early EXCEPT ![Combo] = Early] /\ arrived' = arrived \union Arriving
    BY <1>4 DEF Claim
  <2>2. owed' = owed \union Arriving \/ owed' = owed
    BY <1>4 DEF Claim
  <2> QED
    BY <1>1, <1>2, <1>3, <2>1, <2>2
<1>5. CASE ~Running
  <2>1. early' = [early EXCEPT ![Combo] = Higher(@, Message.total)] /\ UNCHANGED <<arrived, owed>>
    BY <1>5 DEF Claim
  <2>2. Higher(early[Combo], Message.total) \in 0 .. MaxTotal
    BY <1>1 DEF Higher
  <2> QED
    BY <1>1, <2>1, <2>2
<1> QED
  BY <1>4, <1>5

LEMMA RouteTyped ==
  ASSUME TypeOK, GiftAssumption, Route
  PROVE  TypeOK'
<1>1. held # NoEffect /\ Routed
  BY DEF Route, RouteInvalid, RouteClosed, RouteDuplicate, RouteRefused, RouteFailed, RouteCounted
<1>2. /\ early' \in [Combos -> 0 .. MaxTotal]
      /\ owed' \subseteq arrived' /\ arrived' \subseteq Gifts
  BY <1>1, ClaimTyped DEF Routed
<1>3. /\ held' = NoEffect
      /\ UNCHANGED <<lifecycle, chosen, seen, totals, count, countGap, diamonds, diamondsGap,
                     sent, shown, forgotten, recounted, worth>>
  BY <1>1 DEF Routed, rankings, tallies
<1>4. degraded' \in BOOLEAN
  BY DEF Route, RouteInvalid, RouteClosed, RouteDuplicate, RouteRefused, RouteFailed,
         RouteCounted, TypeOK
<1>5. /\ high' \in [Combos -> [units : Nat, diamonds : Nat, price : Prices]]
      /\ receipt' \in [Messages -> [price : Prices, score : Nat] \union {NoReceipt}]
  <2>1. CASE RouteCounted
    <3>1. /\ Message \in Messages /\ Combo \in Combos /\ Price \in Prices /\ Price \in Nat
          /\ Message.total \in Nat
          /\ high[Combo] \in [units : Nat, diamonds : Nat, price : Prices]
      BY <1>1, HeldTypes DEF TypeOK
    <3>2. high[Combo].units \in Nat /\ high[Combo].diamonds \in Nat
      BY <3>1
    <3>3. Advanced \in [units : Nat, diamonds : Nat, price : Prices]
      <4> DEFINE units == Higher(high[Combo].units, Message.total)
      <4>1. units \in Nat
        BY <3>1, <3>2 DEF Higher
      <4>2. units * Price \in Nat
        BY <4>1, <3>1, Products
      <4>3. Higher(high[Combo].diamonds, units * Price) \in Nat
        BY <4>2, <3>2 DEF Higher
      <4>4. Advanced = [units |-> units, diamonds |-> Higher(high[Combo].diamonds, units * Price),
                        price |-> Price]
        BY DEF Advanced
      <4> HIDE DEF units
      <4> QED
        BY <3>1, <4>1, <4>3, <4>4
    <3>4. Score \in Nat
      <4>1. Advanced.diamonds \in Nat
        BY <3>3
      <4>2. Delta \in Nat
        BY <3>2, <4>1 DEF Delta, Minus
      <4> QED
        BY <4>2 DEF Score
    <3> QED
      BY <2>1, <3>1, <3>3, <3>4 DEF RouteCounted, TypeOK
  <2>2. CASE ~RouteCounted
    <3>1. UNCHANGED <<high, receipt>>
      BY <2>2 DEF Route, RouteInvalid, RouteClosed, RouteDuplicate, RouteRefused, RouteFailed
    <3> QED
      BY <3>1 DEF TypeOK
  <2> QED
    BY <2>1, <2>2
<1> QED
  BY <1>2, <1>3, <1>4, <1>5 DEF TypeOK

Control == Start \/ Pause \/ Resume \/ Deadline \/ Finish \/ Cancel \/ Decide \/ Choose

LEMMA ControlTyped ==
  ASSUME TypeOK, Control
  PROVE  TypeOK'
BY DEF Control, Start, Pause, Resume, Deadline, Finish, Cancel, Decide, Choose, Becomes, TypeOK,
       session, rankings, tallies, claims

LEMMA BootTyped ==
  ASSUME TypeOK, GiftAssumption, Restart \/ Crash
  PROVE  TypeOK'
<1>1. Boots
  BY DEF Restart, Crash
<1>2. /\ seen' \in Seq(Messages) /\ Len(seen') <= DedupCapacity /\ held' = NoEffect
      /\ totals' \in [Combos -> [units : Nat, diamonds : Nat] \union {NoTotal}]
      /\ forgotten' \subseteq Combos
  <2>1. <<>> \in Seq(Messages) /\ Len(<<>>) = 0 /\ DedupCapacity \in Nat
    BY EmptySeq DEF GiftAssumption
  <2> QED
    BY <1>1, <2>1 DEF Boots, Tracked, TypeOK
<1>3. UNCHANGED <<lifecycle, chosen, high, receipt, sent, shown, recounted, worth,
                  early, arrived, owed>>
  BY <1>1 DEF Boots, claims
<1>4. /\ count' \in Nat /\ countGap' \in BOOLEAN
      /\ diamonds' \in Nat /\ diamondsGap' \in BOOLEAN /\ degraded' \in BOOLEAN
  <2>1. count \in Nat /\ diamonds \in Nat /\ countGap \in BOOLEAN /\ diamondsGap \in BOOLEAN
    BY DEF TypeOK
  <2>2. CASE Restart
    BY <2>1, <2>2 DEF Restart, rankings, InUse, Running
  <2>3. CASE Crash
    BY <2>1, <2>3 DEF Crash, InUse, Running
  <2> QED
    BY <2>2, <2>3
<1> QED
  BY <1>2, <1>3, <1>4 DEF TypeOK

LEMMA TypeStep ==
  ASSUME TypeOK, GiftAssumption, [Next]_vars
  PROVE  TypeOK'
<1>1. ASSUME NEW d \in Deliveries, Admit(d)
      PROVE  TypeOK'
  BY <1>1, AdmitTyped
<1>2. CASE IdentityExpires \/ \E c \in Combos : ComboExpires(c)
  BY <1>2, ForgetTyped
<1>3. CASE Route
  BY <1>3, RouteTyped
<1>4. CASE Control
  BY <1>4, ControlTyped
<1>5. CASE Restart \/ Crash
  BY <1>5, BootTyped
<1>6. CASE UNCHANGED vars
  BY <1>6 DEF vars, competition, session, rankings, tallies, claims, TypeOK
<1> QED
  BY <1>1, <1>2, <1>3, <1>4, <1>5, <1>6 DEF Next, Control

LEMMA GiftTypesInitially == Init => TypeOK
<1> SUFFICES ASSUME Init
             PROVE  TypeOK
  OBVIOUS
<1>1. seen \in Seq(Messages) /\ Len(seen) <= DedupCapacity
  BY EmptySeq, GiftAssumption DEF Init, GiftAssumption
<1>2. /\ high \in [Combos -> [units : Nat, diamonds : Nat, price : Prices]]
      /\ sent \in 0 .. MaxSent
      /\ shown \in [Combos -> 0 .. MaxTotal] /\ early \in [Combos -> 0 .. MaxTotal]
  BY GiftAssumption DEF Init, NoHigh, GiftAssumption
<1> QED
  BY <1>1, <1>2 DEF Init, TypeOK

\* Every variable has its type.
THEOREM GiftTypeCorrect == Spec => []TypeOK
<1>1. Init => TypeOK
  BY GiftTypesInitially
<1>2. TypeOK /\ [Next]_vars => TypeOK'
  BY TypeStep, GiftAssumption
<1> QED
  BY <1>1, <1>2, PTL DEF Spec

-----------------------------------------------------------------------------
(* Diamonds are never credited for the past.  LiveTotals knows what was     *)
(* shown of a combo unless it has forgotten the combo, and never more; so   *)
(* its increment is made of the new gifts and of the ones it forgot.        *)

Recalled(c) == IF totals[c] = NoTotal THEN 0 ELSE totals[c].units

Remembers ==
  \A c \in Combos : /\ Recalled(c) <= shown[c]
                    /\ c \notin forgotten => Recalled(c) = shown[c]

WorthInv == TypeOK /\ Remembers /\ DiamondsNeverRetroactive

\* The increment is the gifts shown first and those shown again.
LEMMA IncrementSplits ==
  ASSUME NEW d \in Deliveries, TypeOK, GiftAssumption, Remembers
  PROVE  Increment(d) = New(d) + Again(d)
<1> DEFINE c == d.message.combo
<1>1. c \in Combos /\ d.message.total \in Nat
  BY DeliveryTypes
<1>2. Previous(d).units \in Nat /\ shown[c] \in Nat
  <2>1. shown[c] \in 0 .. MaxTotal /\ MaxTotal \in Nat
    BY <1>1 DEF TypeOK, GiftAssumption
  <2>2. Previous(d) \in [units : Nat, diamonds : Nat]
    BY IncrementTypes
  <2> QED
    BY <2>1, <2>2
<1>3. Previous(d).units = Recalled(c)
  BY DEF Previous, Recalled
<1>4. Previous(d).units <= shown[c] /\ (c \notin forgotten => Previous(d).units = shown[c])
  BY <1>1, <1>3 DEF Remembers
<1>5. CASE c \in forgotten
  <2>1. Again(d) = Minus(d.message.total - New(d), Previous(d).units)
    BY <1>5 DEF Again
  <2> QED
    BY <1>1, <1>2, <1>4, <2>1 DEF Increment, New, Minus
<1>6. CASE c \notin forgotten
  <2>1. Again(d) = 0
    BY <1>6 DEF Again
  <2> QED
    BY <1>1, <1>2, <1>4, <1>6, <2>1 DEF Increment, New, Minus
<1> QED
  BY <1>5, <1>6

\* A message leaves LiveTotals knowing what has been shown.
LEMMA AdmitRemembers ==
  ASSUME NEW d \in Deliveries, TypeOK, GiftAssumption, Remembers, Admit(d)
  PROVE  Remembers'
<1> DEFINE combo == d.message.combo
<1>1. /\ combo \in Combos /\ d.message.total \in Nat
      /\ Previous(d) \in [units : Nat, diamonds : Nat] /\ HighUnits(d) \in Nat
      /\ New(d) \in Nat /\ shown \in [Combos -> Nat]
      /\ totals \in [Combos -> [units : Nat, diamonds : Nat] \union {NoTotal}]
  <2>1. shown \in [Combos -> 0 .. MaxTotal] /\ MaxTotal \in Nat
    BY DEF TypeOK, GiftAssumption
  <2>2. shown \in [Combos -> Nat]
    BY <2>1
  <2>3. totals \in [Combos -> [units : Nat, diamonds : Nat] \union {NoTotal}]
    BY DEF TypeOK
  <2> QED
    BY <2>2, <2>3, DeliveryTypes, IncrementTypes
<1>2. totals' = Observed(d) /\ forgotten' = forgotten /\ Tally(d)
  BY DEF Admit, Tally
<1>3. CASE ~Counts(d)
  <2>1. UNCHANGED <<totals, shown, forgotten>>
    BY <1>2, <1>3 DEF Observed, Tally
  <2> QED
    BY <2>1 DEF Remembers, Recalled
<1>4. CASE Counts(d)
  <2> DEFINE entry == [units |-> HighUnits(d), diamonds |-> Higher(Previous(d).diamonds, Target(d))]
  <2>1. /\ totals' = [totals EXCEPT ![combo] = entry]
        /\ shown' = [shown EXCEPT ![combo] = @ + New(d)]
    BY <1>2, <1>4 DEF Observed, Tally
  <2>2. SUFFICES ASSUME NEW c \in Combos
                 PROVE  Recalled(c)' <= shown'[c] /\ (c \notin forgotten => Recalled(c)' = shown'[c])
    BY <1>2 DEF Remembers
  <2>3. CASE c # combo
    <3>1. totals'[c] = totals[c] /\ shown'[c] = shown[c]
      BY <1>1, <2>1, <2>3
    <3> QED
      BY <3>1 DEF Remembers, Recalled
  <2>4. CASE c = combo
    <3>1. totals'[combo] = entry /\ shown'[combo] = shown[combo] + New(d)
      BY <1>1, <2>1
    <3>2. entry # NoTotal
      <4>1. Target(d) \in Nat
        BY IncrementTypes
      <4>2. entry \in [units : Nat, diamonds : Nat]
        BY <1>1, <4>1 DEF Higher
      <4> QED
        BY <4>2 DEF GiftAssumption
    <3>3. Recalled(combo)' = HighUnits(d)
      BY <3>1, <3>2 DEF Recalled
    <3>4. /\ Previous(d).units \in Nat /\ shown[combo] \in Nat
          /\ Previous(d).units <= shown[combo]
          /\ combo \notin forgotten => Previous(d).units = shown[combo]
      BY <1>1 DEF Remembers, Recalled, Previous
    <3> QED
      BY <1>1, <2>4, <3>1, <3>3, <3>4 DEF HighUnits, Higher, New, Minus
  <2> QED
    BY <2>3, <2>4
<1> QED
  BY <1>3, <1>4

\* Only new gifts and those shown again are credited.
LEMMA AdmitWorth ==
  ASSUME NEW d \in Deliveries, WorthInv, GiftAssumption, Admit(d)
  PROVE  DiamondsNeverRetroactive'
<1> DEFINE gain == d.price * (New(d) + Again(d))
<1>1. /\ d.price \in Nat /\ New(d) \in Nat /\ Again(d) \in Nat /\ Diamonds(d) \in Nat
      /\ diamonds \in Nat /\ worth \in Nat /\ diamonds <= worth
  BY DeliveryTypes, IncrementTypes DEF WorthInv, TypeOK, DiamondsNeverRetroactive
<1>2. gain \in Nat
  <2>1. New(d) + Again(d) \in Nat
    BY <1>1
  <2> QED
    BY <1>1, <2>1, Products
<1>3. DiamondsRanking(d) /\ Tally(d)
  BY DEF Admit
<1>4. CASE Accounted(d) /\ Creditable(d)
  <2>1. diamonds' = diamonds + Diamonds(d) /\ worth' = worth + gain
    BY <1>3, <1>4 DEF DiamondsRanking, Tally, Accounted
  <2>2. Diamonds(d) <= Increment(d) * d.price
    BY <1>4 DEF Creditable
  <2>3. Increment(d) * d.price = gain
    <3>1. Increment(d) = New(d) + Again(d)
      BY IncrementSplits DEF WorthInv
    <3> QED
      BY <1>1, <3>1
  <2> HIDE DEF gain
  <2> QED
    BY <1>1, <1>2, <2>1, <2>2, <2>3 DEF DiamondsNeverRetroactive
<1>5. CASE ~(Accounted(d) /\ Creditable(d))
  <2>1. diamonds' = diamonds
    BY <1>3, <1>5 DEF DiamondsRanking
  <2>2. worth' = worth + gain \/ worth' = worth
    BY <1>3 DEF Tally
  <2> HIDE DEF gain
  <2> QED
    BY <1>1, <1>2, <2>1, <2>2 DEF DiamondsNeverRetroactive
<1> QED
  BY <1>4, <1>5

LEMMA WorthStep ==
  ASSUME WorthInv, GiftAssumption, [Next]_vars
  PROVE  WorthInv'
<1>1. TypeOK' /\ shown \in [Combos -> 0 .. MaxTotal] /\ MaxTotal \in Nat
  BY TypeStep DEF WorthInv, TypeOK, GiftAssumption
<1>2. ASSUME NEW d \in Deliveries, Admit(d)
      PROVE  Remembers' /\ DiamondsNeverRetroactive'
  BY <1>2, AdmitRemembers, AdmitWorth DEF WorthInv
<1>3. ASSUME NEW c \in Combos, ComboExpires(c)
      PROVE  Remembers' /\ DiamondsNeverRetroactive'
  <2>1. /\ totals' = [totals EXCEPT ![c] = NoTotal] /\ forgotten' = forgotten \union {c}
        /\ UNCHANGED <<shown, worth, diamonds>>
    BY <1>3 DEF ComboExpires, rankings
  <2>2. ASSUME NEW b \in Combos
        PROVE  Recalled(b)' <= shown'[b] /\ (b \notin forgotten' => Recalled(b)' = shown'[b])
    <3>1. CASE b = c
      <4>1. totals'[b] = NoTotal /\ b \in forgotten'
        BY <1>1, <2>1, <3>1 DEF WorthInv, TypeOK
      <4> QED
        BY <1>1, <2>1, <4>1 DEF Recalled
    <3>2. CASE b # c
      <4>1. totals'[b] = totals[b]
        BY <2>1, <3>2 DEF WorthInv, TypeOK
      <4> QED
        BY <2>1, <3>2, <4>1 DEF WorthInv, Remembers, Recalled
    <3> QED
      BY <3>1, <3>2
  <2> QED
    BY <2>1, <2>2 DEF WorthInv, Remembers, DiamondsNeverRetroactive
<1>4. CASE IdentityExpires \/ Route \/ Control \/ UNCHANGED vars
  <2>1. UNCHANGED <<totals, shown, forgotten, worth, diamonds>>
    <3>1. CASE Route
      BY <3>1 DEF Route, RouteInvalid, RouteClosed, RouteDuplicate, RouteRefused, RouteFailed,
                  RouteCounted, Routed, rankings, tallies
    <3>2. CASE Control
      BY <3>2 DEF Control, Start, Pause, Resume, Deadline, Finish, Cancel, Decide, Choose, Becomes,
                  session, rankings, tallies
    <3> QED
      BY <1>4, <3>1, <3>2 DEF IdentityExpires, vars, session, rankings, tallies
  <2> QED
    BY <1>1, <2>1 DEF WorthInv, Remembers, Recalled, DiamondsNeverRetroactive
<1>5. CASE Restart \/ Crash
  <2>1. /\ totals' = [c \in Combos |-> NoTotal] /\ forgotten' = forgotten \union Tracked
        /\ UNCHANGED <<shown, worth>>
    BY <1>5 DEF Restart, Crash, Boots
  <2>2. diamonds' = diamonds \/ diamonds' \in 0 .. diamonds
    BY <1>5 DEF Restart, Crash, rankings
  <2>3. DiamondsNeverRetroactive'
    BY <2>1, <2>2 DEF WorthInv, TypeOK, DiamondsNeverRetroactive
  <2>4. ASSUME NEW c \in Combos
        PROVE  Recalled(c)' <= shown'[c] /\ (c \notin forgotten' => Recalled(c)' = shown'[c])
    <3>1. Recalled(c)' = 0 /\ shown'[c] = shown[c] /\ shown[c] \in Nat
      BY <1>1, <2>1 DEF Recalled
    <3>2. c \notin forgotten' => shown[c] = 0
      BY <2>1 DEF WorthInv, Remembers, Recalled, Tracked
    <3> QED
      BY <3>1, <3>2
  <2> QED
    BY <1>1, <2>3, <2>4 DEF Remembers, WorthInv
<1> QED
  BY <1>1, <1>2, <1>3, <1>4, <1>5 DEF Next, Control, WorthInv

\* A price that becomes known late never revalues what was counted before.
THEOREM CreditsOnlyNewGifts == Spec => []DiamondsNeverRetroactive
<1>1. Init => WorthInv
  <2>1. Init => TypeOK
    BY GiftTypesInitially
  <2>2. Init => Remembers /\ DiamondsNeverRetroactive
    BY DEF Init, Remembers, Recalled, DiamondsNeverRetroactive
  <2> QED
    BY <2>1, <2>2 DEF WorthInv
<1>2. WorthInv /\ [Next]_vars => WorthInv'
  BY WorthStep, GiftAssumption
<1>3. WorthInv => DiamondsNeverRetroactive
  BY DEF WorthInv
<1> QED
  BY <1>1, <1>2, <1>3, PTL DEF Spec

-----------------------------------------------------------------------------
(* Sums over finite sets.  The sum of f over S is the number of the cells  *)
(* below f, of which there are f[x] for every x in S.                      *)

Cells(f, S) == {p \in S \X Nat : p[2] < f[p[1]]}
Total(f, S) == Cardinality(Cells(f, S))

\* Induction over the naturals, said of a set instead of an operator.
LEMMA NatSetInduction ==
  ASSUME NEW S, 0 \in S, \A n \in Nat : n \in S => n + 1 \in S
  PROVE  Nat \subseteq S
<1> SUFFICES ASSUME Nat \ S # {}  PROVE FALSE
  OBVIOUS
<1>1. PICK x \in Nat \ S : \A y \in Nat \ S : ~ (<<y, x>> \in OpToRel(<, Nat))
  <2>1. IsWellFoundedOn(OpToRel(<, Nat), Nat)
    BY NatLessThanWellFounded
  <2> QED
    BY <2>1, WFMin
<1>2. x # 0
  BY <1>1
<1>3. x - 1 \in Nat \ S /\ x - 1 < x
  BY <1>2
<1> QED
  BY <1>1, <1>3 DEF OpToRel

\* Induction over the subsets of a finite set, by their size.
LEMMA SizeInduction ==
  ASSUME NEW S, IsFiniteSet(S), NEW G,
         ASSUME NEW T \in SUBSET S,
                \A U \in SUBSET S : Cardinality(U) < Cardinality(T) => U \in G
         PROVE  T \in G
  PROVE  SUBSET S \subseteq G
<1>1. \A T \in SUBSET S : Cardinality(T) \in Nat
  BY FS_Subset, FS_CardinalityType
<1> DEFINE Sizes == {n \in Nat : \A T \in SUBSET S : Cardinality(T) < n => T \in G}
<1>2. 0 \in Sizes
  BY <1>1
<1>3. ASSUME NEW n \in Nat, n \in Sizes  PROVE n + 1 \in Sizes
  <2> SUFFICES ASSUME NEW T \in SUBSET S, Cardinality(T) < n + 1  PROVE T \in G
    OBVIOUS
  <2>1. \A U \in SUBSET S : Cardinality(U) < Cardinality(T) => Cardinality(U) < n
    BY <1>1
  <2>2. \A U \in SUBSET S : Cardinality(U) < Cardinality(T) => U \in G
    BY <1>3, <2>1
  <2> QED
    BY <2>2
<1>4. Nat \subseteq Sizes
  <2> HIDE DEF Sizes
  <2> QED
    BY <1>2, <1>3, NatSetInduction
<1> SUFFICES ASSUME NEW T \in SUBSET S  PROVE T \in G
  OBVIOUS
<1>5. Cardinality(T) + 1 \in Sizes /\ Cardinality(T) < Cardinality(T) + 1
  BY <1>1, <1>4
<1> QED
  BY <1>5

\* The cells of x.
LEMMA ColumnSize ==
  ASSUME NEW f, NEW x, f[x] \in Nat
  PROVE  IsFiniteSet(Cells(f, {x})) /\ Total(f, {x}) = f[x]
<1> DEFINE g == [i \in 1 .. f[x] |-> <<x, i - 1>>]
<1>1. g \in Bijection(1 .. f[x], Cells(f, {x}))
  <2>1. \A i \in 1 .. f[x] : g[i] \in Cells(f, {x})
    BY DEF Cells
  <2>2. \A i, j \in 1 .. f[x] : g[i] = g[j] => i = j
    OBVIOUS
  <2>3. ASSUME NEW p \in Cells(f, {x})  PROVE \E i \in 1 .. f[x] : g[i] = p
    <3>1. p = <<x, p[2]>> /\ p[2] \in Nat /\ p[2] < f[x]
      BY DEF Cells
    <3>2. p[2] + 1 \in 1 .. f[x] /\ g[p[2] + 1] = p
      BY <3>1
    <3> QED
      BY <3>2
  <2>4. g \in [1 .. f[x] -> Cells(f, {x})]
    BY <2>1
  <2> HIDE DEF g
  <2> QED
    BY <2>2, <2>3, <2>4 DEF Bijection, Injection, Surjection, IsInjective
<1>2. IsFiniteSet(1 .. f[x]) /\ Cardinality(1 .. f[x]) = f[x]
  BY FS_Interval
<1> HIDE DEF g
<1>3. ExistsBijection(1 .. f[x], Cells(f, {x}))
  BY <1>1 DEF ExistsBijection
<1> QED
  BY <1>2, <1>3, FS_Bijection DEF Total

\* The cells of x and the others.
LEMMA CellsSplit ==
  ASSUME NEW f, NEW S, NEW x \in S
  PROVE  /\ Cells(f, S) = Cells(f, S \ {x}) \union Cells(f, {x})
         /\ Cells(f, S \ {x}) \cap Cells(f, {x}) = {}
<1>1. ASSUME NEW p  PROVE p \in Cells(f, S) <=> p \in Cells(f, S \ {x}) \union Cells(f, {x})
  BY DEF Cells
<1>2. ASSUME NEW p \in Cells(f, S \ {x})  PROVE p \notin Cells(f, {x})
  BY DEF Cells
<1> QED
  BY <1>1, <1>2

\* Taking x out of S takes f[x] out of the sum.
LEMMA TotalSplits ==
  ASSUME NEW S, IsFiniteSet(S), NEW f, \A x \in S : f[x] \in Nat
  PROVE  /\ IsFiniteSet(Cells(f, S)) /\ Total(f, S) \in Nat
         /\ \A x \in S : Total(f, S) = f[x] + Total(f, S \ {x}) /\ Total(f, S \ {x}) \in Nat
<1> DEFINE G == {T \in SUBSET S : IsFiniteSet(Cells(f, T))}
<1>1. ASSUME NEW T \in SUBSET S, \A U \in SUBSET S : Cardinality(U) < Cardinality(T) => U \in G
      PROVE  T \in G
  <2>1. CASE T = {}
    <3>1. Cells(f, T) = {}
      BY <2>1 DEF Cells
    <3> QED
      BY <3>1, FS_EmptySet
  <2>2. CASE T # {}
    <3>1. PICK x \in T : TRUE
      BY <2>2
    <3>2. IsFiniteSet(T) /\ Cardinality(T \ {x}) = Cardinality(T) - 1 /\ Cardinality(T) \in Nat
      <4>1. IsFiniteSet(T)
        BY FS_Subset
      <4> QED
        BY <4>1, FS_RemoveElement, FS_CardinalityType
    <3>3. T \ {x} \in G
      BY <1>1, <3>2
    <3>4. IsFiniteSet(Cells(f, {x})) /\ IsFiniteSet(Cells(f, T \ {x}))
      BY <3>3, ColumnSize
    <3>5. Cells(f, T) = Cells(f, T \ {x}) \union Cells(f, {x})
      BY CellsSplit
    <3> QED
      BY <3>4, <3>5, FS_Union
  <2> QED
    BY <2>1, <2>2
<1>2. SUBSET S \subseteq G
  <2> HIDE DEF G
  <2> QED
    BY <1>1, SizeInduction
<1>3. \A T \in SUBSET S : IsFiniteSet(Cells(f, T)) /\ Total(f, T) \in Nat
  BY <1>2, FS_CardinalityType DEF Total
<1>4. ASSUME NEW x \in S  PROVE Total(f, S) = f[x] + Total(f, S \ {x})
  <2>1. /\ Cells(f, S) = Cells(f, S \ {x}) \union Cells(f, {x})
        /\ Cells(f, S \ {x}) \cap Cells(f, {x}) = {}
    BY CellsSplit
  <2>2. /\ IsFiniteSet(Cells(f, {x})) /\ IsFiniteSet(Cells(f, S \ {x}))
        /\ Total(f, {x}) = f[x] /\ f[x] \in Nat
    BY <1>3, ColumnSize
  <2>3. Cardinality(Cells(f, S))
          = Cardinality(Cells(f, S \ {x})) + Cardinality(Cells(f, {x})) - Cardinality({})
    BY <2>1, <2>2, FS_Union
  <2> QED
    BY <1>3, <2>2, <2>3, FS_EmptySet DEF Total
<1> QED
  BY <1>3, <1>4

\* A sum changes by what the value of one element changes.
LEMMA TotalChanges ==
  ASSUME NEW S, IsFiniteSet(S), NEW f, NEW g, \A x \in S : f[x] \in Nat /\ g[x] \in Nat,
         NEW y \in S, \A x \in S \ {y} : g[x] = f[x]
  PROVE  Total(g, S) = Total(f, S) - f[y] + g[y]
<1>1. Cells(g, S \ {y}) = Cells(f, S \ {y})
  BY DEF Cells
<1>2. /\ Total(f, S) = f[y] + Total(f, S \ {y}) /\ Total(g, S) = g[y] + Total(g, S \ {y})
      /\ Total(f, S \ {y}) \in Nat
  BY TotalSplits
<1> QED
  BY <1>1, <1>2 DEF Total

\* A sum of zeros.
LEMMA TotalOfZero ==
  ASSUME NEW S, NEW f, \A x \in S : f[x] = 0
  PROVE  Total(f, S) = 0
<1>1. Cells(f, S) = {}
  BY DEF Cells
<1> QED
  BY <1>1, FS_EmptySet DEF Total

\* Equal functions have equal sums.
LEMMA TotalAgrees ==
  ASSUME NEW S, NEW f, NEW g, \A x \in S : f[x] = g[x]
  PROVE  Total(f, S) = Total(g, S)
BY DEF Total, Cells

\* What a fold over the subsets of S has to satisfy to sum f.
Sums(f, S, iter) ==
  iter = [s \in SUBSET S |-> IF s = {} THEN 0
                             ELSE f[CHOOSE x \in s : TRUE] + iter[s \ {CHOOSE x \in s : TRUE}]]

\* The sums over the subsets satisfy it.
LEMMA SumsExist ==
  ASSUME NEW S, IsFiniteSet(S), NEW f, \A x \in S : f[x] \in Nat
  PROVE  Sums(f, S, [s \in SUBSET S |-> Total(f, s)])
<1> DEFINE pick(s) == CHOOSE x \in s : TRUE
           sums == [s \in SUBSET S |-> Total(f, s)]
<1>1. ASSUME NEW s \in SUBSET S
      PROVE  Total(f, s) = IF s = {} THEN 0 ELSE f[pick(s)] + sums[s \ {pick(s)}]
  <2>1. CASE s = {}
    BY <2>1, TotalOfZero
  <2>2. CASE s # {}
    <3>1. pick(s) \in s /\ s \ {pick(s)} \in SUBSET S /\ IsFiniteSet(s)
      BY <2>2, FS_Subset
    <3>2. Total(f, s) = f[pick(s)] + Total(f, s \ {pick(s)})
      BY <3>1, TotalSplits
    <3> HIDE DEF pick
    <3> QED
      BY <2>2, <3>1, <3>2
  <2> QED
    BY <2>1, <2>2
<1> QED
  BY <1>1 DEF Sums

\* And whatever satisfies it gives the sum for S.
LEMMA SumsAreTotals ==
  ASSUME NEW S, IsFiniteSet(S), NEW f, \A x \in S : f[x] \in Nat, NEW iter, Sums(f, S, iter)
  PROVE  iter[S] = Total(f, S)
<1> DEFINE pick(s) == CHOOSE x \in s : TRUE
           G == {s \in SUBSET S : iter[s] = Total(f, s)}
<1>1. ASSUME NEW s \in SUBSET S, \A u \in SUBSET S : Cardinality(u) < Cardinality(s) => u \in G
      PROVE  s \in G
  <2>1. iter[s] = IF s = {} THEN 0 ELSE f[pick(s)] + iter[s \ {pick(s)}]
    <3> DEFINE rhs == [t \in SUBSET S |-> IF t = {} THEN 0 ELSE f[pick(t)] + iter[t \ {pick(t)}]]
    <3>1. iter = rhs
      BY DEF Sums
    <3>2. rhs[s] = IF s = {} THEN 0 ELSE f[pick(s)] + iter[s \ {pick(s)}]
      OBVIOUS
    <3> HIDE DEF rhs, pick
    <3> QED
      BY <3>1, <3>2
  <2>2. CASE s = {}
    <3>1. Total(f, s) = 0
      BY <2>2, TotalOfZero
    <3> QED
      BY <2>1, <2>2, <3>1
  <2>3. CASE s # {}
    <3>1. pick(s) \in s /\ s \ {pick(s)} \in SUBSET S /\ IsFiniteSet(s)
      BY <2>3, FS_Subset
    <3> HIDE DEF pick
    <3>2. Total(f, s) = f[pick(s)] + Total(f, s \ {pick(s)})
      BY <3>1, TotalSplits
    <3>3. Cardinality(s \ {pick(s)}) < Cardinality(s)
      <4>1. Cardinality(s) \in Nat /\ Cardinality(s \ {pick(s)}) = Cardinality(s) - 1
        BY <3>1, FS_RemoveElement, FS_CardinalityType
      <4> QED
        BY <4>1
    <3>4. iter[s \ {pick(s)}] = Total(f, s \ {pick(s)})
      BY <1>1, <3>1, <3>3
    <3> QED
      BY <2>1, <2>3, <3>2, <3>4
  <2> QED
    BY <2>2, <2>3
<1>2. S \in G
  <2> HIDE DEF G
  <2> QED
    BY <1>1, SizeInduction
<1> QED
  BY <1>2

\* What the folds of the community modules compute is that sum.
LEMMA SumIsTotal ==
  ASSUME NEW S, IsFiniteSet(S), NEW f \in [S -> Nat]
  PROVE  SumFunction(f) = Total(f, S)
<1> DEFINE pick(s) == CHOOSE x \in s : TRUE
           iter[s \in SUBSET S] == IF s = {} THEN 0 ELSE LET x == pick(s) IN f[x] + iter[s \ {x}]
<1>1. SumFunction(f) = iter[S]
  BY DEF SumFunction, SumFunctionOnSet, FoldFunctionOnSet, MapThenFoldSet
<1>2. Sums(f, S, iter)
  <2>1. \E h : Sums(f, S, h)
    BY SumsExist
  <2> QED
    BY <2>1 DEF iter, Sums
<1> HIDE DEF iter
<1> QED
  BY <1>1, <1>2, SumsAreTotals

ScoreOf(m) == IF receipt[m] = NoReceipt THEN 0 ELSE receipt[m].score
Scores == [m \in Messages |-> ScoreOf(m)]

\* There are finitely many messages, as there are combos, totals and serials.
LEMMA MessagesAreFinite ==
  ASSUME GiftAssumption
  PROVE  IsFiniteSet(Messages)
<1>1. IsFiniteSet(Combos \X (Totals \X Serials))
  <2>1. IsFiniteSet(Totals)
    BY FS_Interval DEF GiftAssumption, Totals
  <2>2. IsFiniteSet(Totals \X Serials)
    BY <2>1, FS_Product DEF GiftAssumption
  <2> QED
    BY <2>2, FS_Product DEF GiftAssumption
<1> DEFINE pack == [p \in Combos \X (Totals \X Serials) |->
                      [combo |-> p[1], total |-> p[2][1], serial |-> p[2][2]]]
<1>2. pack \in Surjection(Combos \X (Totals \X Serials), Messages)
  <2>1. pack \in [Combos \X (Totals \X Serials) -> Messages]
    BY DEF Messages
  <2>2. ASSUME NEW m \in Messages  PROVE \E p \in Combos \X (Totals \X Serials) : pack[p] = m
    <3>1. /\ <<m.combo, <<m.total, m.serial>>>> \in Combos \X (Totals \X Serials)
          /\ m = [combo |-> m.combo, total |-> m.total, serial |-> m.serial]
      BY DEF Messages
    <3> QED
      BY <3>1
  <2> HIDE DEF pack
  <2> QED
    BY <2>1, <2>2 DEF Surjection
<1> QED
  BY <1>1, <1>2, FS_Surjection

\* A score is a natural number.
LEMMA ScoreTypes ==
  ASSUME TypeOK
  PROVE  Scores \in [Messages -> Nat]
BY DEF TypeOK, Scores, ScoreOf

\* The score of a set of messages is the sum of the scores in their receipts.
LEMMA ScoredIsTotal ==
  ASSUME TypeOK, GiftAssumption, NEW S \in SUBSET Messages
  PROVE  Scored(S) = Total(Scores, S)
<1> DEFINE pick(s) == CHOOSE x \in s : TRUE
           iter[s \in SUBSET S] == IF s = {} THEN 0 ELSE LET x == pick(s) IN ScoreOf(x) + iter[s \ {x}]
<1>1. Scored(S) = iter[S]
  BY DEF Scored, MapThenSumSet, MapThenFoldSet, ScoreOf
<1>2. IsFiniteSet(S) /\ \A x \in S : Scores[x] \in Nat /\ Scores[x] = ScoreOf(x)
  BY MessagesAreFinite, FS_Subset, ScoreTypes DEF Scores
<1>3. ASSUME NEW h
      PROVE  Sums(Scores, S, h) <=>
               h = [s \in SUBSET S |-> IF s = {} THEN 0 ELSE ScoreOf(pick(s)) + h[s \ {pick(s)}]]
  <2>1. ASSUME NEW s \in SUBSET S
        PROVE  (IF s = {} THEN 0 ELSE Scores[pick(s)] + h[s \ {pick(s)}])
                 = (IF s = {} THEN 0 ELSE ScoreOf(pick(s)) + h[s \ {pick(s)}])
    BY <1>2
  <2> QED
    BY <2>1 DEF Sums
<1>4. Sums(Scores, S, iter)
  <2>1. \E h : Sums(Scores, S, h)
    BY <1>2, SumsExist
  <2>2. \E h : h = [s \in SUBSET S |-> IF s = {} THEN 0 ELSE ScoreOf(pick(s)) + h[s \ {pick(s)}]]
    <3> HIDE DEF pick
    <3> QED
      BY <1>3, <2>1
  <2>3. iter = [s \in SUBSET S |-> IF s = {} THEN 0 ELSE ScoreOf(pick(s)) + iter[s \ {pick(s)}]]
    BY <2>2 DEF iter
  <2> HIDE DEF iter, pick
  <2> QED
    BY <1>3, <2>3
<1> HIDE DEF iter
<1> QED
  BY <1>1, <1>2, <1>4, SumsAreTotals

-----------------------------------------------------------------------------
(* Shown gifts are counted.  The diamonds credited cover every gift at the *)
(* cheapest price and, beyond that, all that LiveTotals has in its high-    *)
(* water marks above that price: a message that adds diamonds adds them to  *)
(* both, and forgetting a combo only gives some up.                        *)

Cheapest  == Min(Prices \ {0})
Showings  == Total(shown, Combos) + recounted
Excess(c) == IF totals[c] = NoTotal THEN 0 ELSE totals[c].diamonds - totals[c].units * Cheapest
Ahead     == [c \in Combos |-> Excess(c)]

DiamondsCover ==
  /\ \A c \in Combos : Excess(c) >= 0
  /\ diamonds >= Showings * Cheapest + Total(Ahead, Combos)

CountInv ==
  /\ WorthInv
  /\ ~countGap => count = Showings
  /\ ~diamondsGap => DiamondsCover

\* There is a least price but zero.
LEMMA CheapestIsLeast ==
  ASSUME GiftAssumption
  PROVE  Cheapest \in Nat \ {0} /\ \A p \in Prices \ {0} : Cheapest <= p
<1>1. Prices \ {0} # {} /\ Prices \ {0} \subseteq Nat \ {0}
  BY DEF GiftAssumption
<1>2. PICK x \in Prices \ {0} : \A y \in Prices \ {0} : ~ (<<y, x>> \in OpToRel(<, Nat))
  <2>1. IsWellFoundedOn(OpToRel(<, Nat), Nat)
    BY NatLessThanWellFounded
  <2> QED
    BY <1>1, <2>1, WFMin
<1>3. \A y \in Prices \ {0} : x <= y
  <2> SUFFICES ASSUME NEW y \in Prices \ {0}, ~(x <= y)  PROVE FALSE
    OBVIOUS
  <2>1. y \in Nat /\ x \in Nat /\ y < x
    BY <1>1
  <2> QED
    BY <1>2, <2>1 DEF OpToRel
<1>4. Cheapest \in Prices \ {0} /\ \A y \in Prices \ {0} : Cheapest <= y
  BY <1>3 DEF Cheapest, Min
<1> QED
  BY <1>1, <1>4

LEMMA ProductsKeepOrder ==
  ASSUME NEW a \in Nat, NEW b \in Nat, NEW c \in Nat, b <= c
  PROVE  a * b <= a * c
BY SMT

LEMMA SumsDistribute ==
  ASSUME NEW a \in Int, NEW b \in Int, NEW c \in Int
  PROVE  (a + b) * c = a * c + b * c /\ a * c \in Int
BY SMT

\* The types of the sums.
LEMMA SumTypes ==
  ASSUME TypeOK, GiftAssumption
  PROVE  /\ shown \in [Combos -> Nat] /\ Total(shown, Combos) \in Nat /\ Showings \in Nat
         /\ \A c \in Combos : Excess(c) \in Int
         /\ (\A c \in Combos : Excess(c) >= 0) =>
              Ahead \in [Combos -> Nat] /\ Total(Ahead, Combos) \in Nat
<1>1. shown \in [Combos -> Nat] /\ IsFiniteSet(Combos) /\ recounted \in Nat
  BY DEF TypeOK, GiftAssumption
<1>2. Total(shown, Combos) \in Nat
  BY <1>1, TotalSplits
<1>3. ASSUME NEW c \in Combos  PROVE Excess(c) \in Int
  <2>1. totals[c] \in [units : Nat, diamonds : Nat] \union {NoTotal}
    BY DEF TypeOK
  <2>2. totals[c] # NoTotal => totals[c].units \in Nat /\ totals[c].diamonds \in Nat
    BY <2>1
  <2>3. totals[c] # NoTotal => totals[c].units * Cheapest \in Nat
    BY <2>2, CheapestIsLeast, Products
  <2> QED
    BY <2>2, <2>3 DEF Excess
<1>4. ASSUME \A c \in Combos : Excess(c) >= 0
      PROVE  Ahead \in [Combos -> Nat] /\ Total(Ahead, Combos) \in Nat
  <2>1. Ahead \in [Combos -> Nat]
    BY <1>3, <1>4 DEF Ahead
  <2> QED
    BY <1>1, <2>1, TotalSplits
<1> QED
  BY <1>1, <1>2, <1>3, <1>4 DEF Showings

\* A message whose combo is tracked shows its increment.
LEMMA AdmitShows ==
  ASSUME NEW d \in Deliveries, WorthInv, GiftAssumption, Admit(d), Counts(d)
  PROVE  Showings' = Showings + Increment(d)
<1> DEFINE c == d.message.combo
<1>1. /\ c \in Combos /\ New(d) \in Nat /\ Again(d) \in Nat /\ Increment(d) = New(d) + Again(d)
      /\ shown \in [Combos -> Nat] /\ recounted \in Nat /\ IsFiniteSet(Combos)
  BY DeliveryTypes, IncrementTypes, IncrementSplits, SumTypes DEF WorthInv, TypeOK, GiftAssumption
<1>2. /\ shown' = [shown EXCEPT ![c] = @ + New(d)] /\ recounted' = recounted + Again(d)
  BY DEF Admit, Tally
<1>3. /\ \A x \in Combos : shown[x] \in Nat /\ shown'[x] \in Nat
      /\ \A x \in Combos \ {c} : shown'[x] = shown[x]
      /\ shown'[c] = shown[c] + New(d)
  BY <1>1, <1>2
<1>4. Total(shown', Combos) = Total(shown, Combos) - shown[c] + shown'[c]
  BY <1>1, <1>3, TotalChanges
<1>5. Total(shown, Combos) \in Nat
  BY SumTypes DEF WorthInv
<1> HIDE DEF c
<1> QED
  BY <1>1, <1>2, <1>3, <1>4, <1>5 DEF Showings

\* Above the cheapest price it adds its diamonds, less the increment at that price.
LEMMA AdmitExceeds ==
  ASSUME NEW d \in Deliveries, WorthInv, GiftAssumption, Admit(d), Counts(d),
         \A c \in Combos : Excess(c) >= 0,
         d.price > 0 \/ (Increment(d) = 0 /\ Diamonds(d) = 0)
  PROVE  /\ \A c \in Combos : Excess(c)' >= 0
         /\ Total(Ahead, Combos)' = Total(Ahead, Combos) + Diamonds(d) - Increment(d) * Cheapest
<1> DEFINE combo == d.message.combo
           entry == [units |-> HighUnits(d), diamonds |-> Higher(Previous(d).diamonds, Target(d))]
<1>1. /\ combo \in Combos /\ d.message.total \in Nat /\ d.price \in Nat /\ d.price \in Prices
      /\ Previous(d).units \in Nat /\ Previous(d).diamonds \in Nat
      /\ HighUnits(d) \in Nat /\ Target(d) \in Nat /\ Increment(d) \in Nat /\ Diamonds(d) \in Nat
      /\ Cheapest \in Nat /\ (d.price > 0 => Cheapest <= d.price)
  <2>1. Previous(d) \in [units : Nat, diamonds : Nat]
    BY IncrementTypes DEF WorthInv
  <2>2. Previous(d).units \in Nat /\ Previous(d).diamonds \in Nat
    BY <2>1
  <2> QED
    BY <2>2, DeliveryTypes, IncrementTypes, CheapestIsLeast DEF WorthInv
<1>2. /\ totals' = [totals EXCEPT ![combo] = entry]
      /\ totals \in [Combos -> [units : Nat, diamonds : Nat] \union {NoTotal}]
  BY DEF Admit, Observed, WorthInv, TypeOK
<1>3. entry # NoTotal
  <2>1. entry \in [units : Nat, diamonds : Nat]
    BY <1>1 DEF Higher
  <2> QED
    BY <2>1 DEF GiftAssumption
<1>4. /\ HighUnits(d) = Previous(d).units + Increment(d)
      /\ Higher(Previous(d).diamonds, Target(d)) = Previous(d).diamonds + Diamonds(d)
  BY <1>1 DEF HighUnits, Higher, Increment, Minus, Diamonds
<1>5. Excess(combo) = Previous(d).diamonds - Previous(d).units * Cheapest
  <2>1. 0 * Cheapest = 0
    BY <1>1
  <2> QED
    BY <2>1 DEF Excess, Previous
<1>6. Excess(combo)'
        = Previous(d).diamonds + Diamonds(d) - (Previous(d).units + Increment(d)) * Cheapest
  <2>1. totals'[combo] = entry
    BY <1>1, <1>2
  <2>2. Cheapest' = Cheapest
    BY DEF Cheapest
  <2>3. entry = [units |-> Previous(d).units + Increment(d),
                 diamonds |-> Previous(d).diamonds + Diamonds(d)]
    BY <1>4
  <2> HIDE DEF entry, combo
  <2>4. /\ totals'[combo].diamonds = Previous(d).diamonds + Diamonds(d)
        /\ totals'[combo].units = Previous(d).units + Increment(d)
        /\ totals'[combo] # NoTotal
    BY <1>3, <2>1, <2>3
  <2>5. Excess(combo)' = totals'[combo].diamonds - totals'[combo].units * Cheapest
    BY <2>2, <2>4 DEF Excess
  <2>6. (Previous(d).units + Increment(d)) * Cheapest \in Int
    BY <1>1, SumsDistribute
  <2> QED
    BY <1>1, <2>4, <2>5, <2>6
<1>7. Excess(combo)' = Excess(combo) + Diamonds(d) - Increment(d) * Cheapest
  <2> DEFINE before == Previous(d).units * Cheapest
             more == Increment(d) * Cheapest
  <2>1. (Previous(d).units + Increment(d)) * Cheapest = before + more /\ before \in Int /\ more \in Int
    BY <1>1, SumsDistribute
  <2>2. /\ Excess(combo) = Previous(d).diamonds - before
        /\ Excess(combo)' = Previous(d).diamonds + Diamonds(d) - (before + more)
    BY <1>5, <1>6, <2>1
  <2> HIDE DEF before, more
  <2>3. Excess(combo)' = Excess(combo) + Diamonds(d) - more
    BY <1>1, <2>1, <2>2
  <2> QED
    BY <2>3 DEF more
<1>8. \A c \in Combos \ {combo} : Excess(c)' = Excess(c)
  BY <1>1, <1>2 DEF Excess
<1>9. Excess(combo)' >= 0
  <2>1. CASE d.price > 0
    <3>1. HighUnits(d) * Cheapest <= Target(d)
      BY <1>1, <2>1, ProductsKeepOrder DEF Target
    <3>2. Target(d) <= Higher(Previous(d).diamonds, Target(d))
      BY <1>1 DEF Higher
    <3>3. HighUnits(d) * Cheapest \in Nat
      BY <1>1, Products
    <3> QED
      BY <1>1, <1>4, <1>6, <3>1, <3>2, <3>3
  <2>2. CASE Increment(d) = 0 /\ Diamonds(d) = 0
    <3>1. 0 * Cheapest = 0
      BY <1>1
    <3> QED
      BY <1>1, <1>7, <2>2, <3>1, SumTypes DEF WorthInv
  <2> QED
    BY <2>1, <2>2
<1> HIDE DEF combo, entry
<1>10. \A c \in Combos : Excess(c)' >= 0
  BY <1>8, <1>9
<1>11. \A c \in Combos : Ahead[c] = Excess(c) /\ Ahead'[c] = Excess(c)'
  BY DEF Ahead
<1>12. \A c \in Combos : Excess(c) \in Nat /\ Excess(c)' \in Nat
  <2>1. \A c \in Combos : Excess(c) \in Nat
    BY SumTypes DEF WorthInv
  <2>2. Excess(combo)' \in Int
    <3>1. Increment(d) * Cheapest \in Int
      BY <1>1, SumsDistribute
    <3> QED
      BY <1>1, <1>7, <2>1, <3>1
  <2> QED
    BY <1>8, <1>9, <2>1, <2>2
<1>13. Total(Ahead', Combos) = Total(Ahead, Combos) - Ahead[combo] + Ahead'[combo]
  <2>1. /\ \A c \in Combos : Ahead[c] \in Nat /\ Ahead'[c] \in Nat
        /\ \A c \in Combos \ {combo} : Ahead'[c] = Ahead[c]
    BY <1>8, <1>11, <1>12
  <2> QED
    BY <1>1, <2>1, TotalChanges DEF GiftAssumption
<1>14. Total(Ahead, Combos) \in Nat /\ Increment(d) * Cheapest \in Int
  BY <1>1, SumTypes, SumsDistribute DEF WorthInv
<1>15. Total(Ahead', Combos) = Total(Ahead, Combos) + Diamonds(d) - Increment(d) * Cheapest
  BY <1>1, <1>7, <1>11, <1>12, <1>13, <1>14
<1> QED
  BY <1>10, <1>15

\* An admitted message keeps both accounts.
LEMMA AdmitCounts ==
  ASSUME NEW d \in Deliveries, CountInv, GiftAssumption, Admit(d)
  PROVE  (~countGap => count = Showings)' /\ (~diamondsGap => DiamondsCover)'
<1>1. CountRanking(d) /\ DiamondsRanking(d) /\ WorthInv
  BY DEF Admit, CountInv
<1>2. CASE ~Accounted(d)
  <2>1. countGap' /\ diamondsGap'
    BY <1>1, <1>2 DEF CountRanking, DiamondsRanking
  <2> QED
    BY <2>1
<1>3. CASE Accounted(d)
  <2>1. Counts(d) /\ Showings' = Showings + Increment(d)
    BY <1>1, <1>3, AdmitShows DEF Accounted
  <2>2. (~countGap => count = Showings)'
    BY <1>1, <1>3, <2>1 DEF CountRanking, CountInv
  <2>3. ASSUME ~diamondsGap'  PROVE DiamondsCover'
    <3>1. /\ ~diamondsGap
          /\ \/ Creditable(d) /\ diamonds' = diamonds + Diamonds(d)
             \/ Increment(d) = 0 /\ Diamonds(d) = 0 /\ diamonds' = diamonds
      <4>1. Increment(d) \in Nat /\ Diamonds(d) \in Nat
        BY IncrementTypes DEF CountInv, WorthInv
      <4>2. CASE Creditable(d)
        BY <1>1, <1>3, <2>3, <4>2 DEF DiamondsRanking
      <4>3. CASE ~Creditable(d)
        <5>1. /\ diamondsGap' = (diamondsGap \/ ~Accounted(d) \/ Increment(d) > 0 \/ Diamonds(d) > 0)
              /\ diamonds' = diamonds
          BY <1>1, <4>3 DEF DiamondsRanking
        <5>2. ~diamondsGap /\ ~(Increment(d) > 0) /\ ~(Diamonds(d) > 0)
          BY <2>3, <5>1
        <5> QED
          BY <4>1, <5>1, <5>2
      <4> QED
        BY <4>2, <4>3
    <3>2. diamonds' = diamonds + Diamonds(d) /\ (d.price > 0 \/ (Increment(d) = 0 /\ Diamonds(d) = 0))
      BY <3>1 DEF Creditable, CountInv, WorthInv, TypeOK
    <3>3. /\ \A c \in Combos : Excess(c)' >= 0
          /\ Total(Ahead, Combos)' = Total(Ahead, Combos) + Diamonds(d) - Increment(d) * Cheapest
      BY <1>1, <2>1, <3>1, <3>2, AdmitExceeds DEF CountInv, DiamondsCover
    <3>4. /\ Showings \in Nat /\ Increment(d) \in Nat /\ Diamonds(d) \in Nat /\ Cheapest \in Nat
          /\ diamonds \in Nat /\ Total(Ahead, Combos) \in Nat
      BY <1>1, <3>1, SumTypes, IncrementTypes, CheapestIsLeast DEF WorthInv, CountInv, DiamondsCover, TypeOK
    <3>5. /\ (Showings + Increment(d)) * Cheapest = Showings * Cheapest + Increment(d) * Cheapest
          /\ Showings * Cheapest \in Int /\ Increment(d) * Cheapest \in Int
      BY <3>4, SumsDistribute
    <3>6. diamonds >= Showings * Cheapest + Total(Ahead, Combos)
      BY <3>1 DEF CountInv, DiamondsCover
    <3>7. (Showings * Cheapest)' = (Showings + Increment(d)) * Cheapest
      BY <2>1 DEF Cheapest
    <3>8. diamonds' >= (Showings * Cheapest)' + Total(Ahead, Combos)'
      BY <3>2, <3>3, <3>4, <3>5, <3>6, <3>7
    <3> QED
      BY <3>3, <3>8 DEF DiamondsCover
  <2> QED
    BY <2>2, <2>3
<1> QED
  BY <1>2, <1>3

\* Forgetting combos gives up what their marks had above the cheapest price.
LEMMA ForgettingKeepsCover ==
  ASSUME CountInv, GiftAssumption, TypeOK', NEW lost \in SUBSET Combos,
         \A c \in Combos : totals'[c] = IF c \in lost THEN NoTotal ELSE totals[c],
         UNCHANGED <<shown, recounted, diamonds, diamondsGap>>,
         lost = Combos \/ \E c : lost = {c}
  PROVE  (~diamondsGap => DiamondsCover)'
<1> SUFFICES ASSUME ~diamondsGap  PROVE DiamondsCover'
  OBVIOUS
<1>1. /\ TypeOK /\ \A c \in Combos : Excess(c) >= 0
      /\ diamonds >= Showings * Cheapest + Total(Ahead, Combos)
  BY DEF CountInv, WorthInv, DiamondsCover
<1>2. \A c \in Combos : /\ Ahead[c] = Excess(c) /\ Ahead'[c] = Excess(c)' /\ Excess(c) \in Nat
                        /\ Excess(c)' = IF c \in lost THEN 0 ELSE Excess(c)
  <2>1. \A c \in Combos : Excess(c) \in Nat
    BY <1>1, SumTypes
  <2>2. \A c \in Combos : Excess(c)' = IF c \in lost THEN 0 ELSE Excess(c)
    BY DEF Excess
  <2> QED
    BY <2>1, <2>2 DEF Ahead
<1>3. Total(Ahead, Combos) \in Nat /\ IsFiniteSet(Combos)
  BY <1>1, SumTypes DEF GiftAssumption
<1>4. Total(Ahead', Combos) \in Nat /\ Total(Ahead', Combos) <= Total(Ahead, Combos)
  <2>1. CASE lost = Combos
    <3>1. Total(Ahead', Combos) = 0
      BY <1>2, <2>1, TotalOfZero
    <3> QED
      BY <1>3, <3>1
  <2>2. ASSUME NEW c, lost = {c}
        PROVE  Total(Ahead', Combos) \in Nat /\ Total(Ahead', Combos) <= Total(Ahead, Combos)
    <3>1. c \in Combos /\ Ahead'[c] = 0 /\ Ahead[c] \in Nat
      BY <1>2, <2>2
    <3>2. /\ \A x \in Combos : Ahead[x] \in Nat /\ Ahead'[x] \in Nat
          /\ \A x \in Combos \ {c} : Ahead'[x] = Ahead[x]
      BY <1>2, <2>2
    <3>3. Total(Ahead', Combos) = Total(Ahead, Combos) - Ahead[c] + Ahead'[c]
      BY <1>3, <3>1, <3>2, TotalChanges
    <3>4. Total(Ahead', Combos) \in Nat
      BY <1>3, <3>2, TotalSplits
    <3> QED
      BY <1>3, <3>1, <3>3, <3>4
  <2> QED
    BY <2>1, <2>2
<1>5. Showings' = Showings /\ Showings * Cheapest \in Int
  <2>1. Showings \in Nat /\ Cheapest \in Nat
    BY <1>1, SumTypes, CheapestIsLeast
  <2> QED
    BY <2>1, SumsDistribute DEF Showings
<1>6. (Showings * Cheapest)' = Showings * Cheapest
  BY <1>5 DEF Cheapest
<1>7. diamonds \in Nat /\ diamonds' = diamonds
  BY <1>1 DEF TypeOK
<1>8. diamonds' >= (Showings * Cheapest)' + Total(Ahead, Combos)'
  BY <1>1, <1>3, <1>4, <1>5, <1>6, <1>7
<1> QED
  BY <1>2, <1>8 DEF DiamondsCover

\* So does every other step.
LEMMA CountStep ==
  ASSUME CountInv, GiftAssumption, [Next]_vars
  PROVE  CountInv'
<1>1. WorthInv' /\ TypeOK' /\ TypeOK
  BY WorthStep DEF CountInv, WorthInv
<1>2. ASSUME NEW d \in Deliveries, Admit(d)  PROVE CountInv'
  BY <1>1, <1>2, AdmitCounts DEF CountInv
<1>3. ASSUME NEW c \in Combos, ComboExpires(c)  PROVE CountInv'
  <2>1. /\ totals' = [totals EXCEPT ![c] = NoTotal]
        /\ UNCHANGED <<shown, recounted, count, countGap, diamonds, diamondsGap>>
    BY <1>3 DEF ComboExpires, rankings
  <2>2. \A b \in Combos : totals'[b] = IF b \in {c} THEN NoTotal ELSE totals[b]
    BY <1>1, <2>1 DEF TypeOK
  <2>3. (~diamondsGap => DiamondsCover)'
    BY <1>1, <2>1, <2>2, ForgettingKeepsCover
  <2> QED
    BY <1>1, <2>1, <2>3 DEF CountInv, Showings
<1>4. CASE IdentityExpires \/ Route \/ Control \/ UNCHANGED vars
  <2>1. UNCHANGED <<totals, shown, recounted, count, countGap, diamonds, diamondsGap>>
    <3>1. CASE Route
      BY <3>1 DEF Route, RouteInvalid, RouteClosed, RouteDuplicate, RouteRefused, RouteFailed,
                  RouteCounted, Routed, rankings, tallies
    <3>2. CASE Control
      BY <3>2 DEF Control, Start, Pause, Resume, Deadline, Finish, Cancel, Decide, Choose, Becomes,
                  session, rankings, tallies
    <3> QED
      BY <1>4, <3>1, <3>2 DEF IdentityExpires, vars, session, rankings, tallies
  <2>2. Showings' = Showings /\ Ahead' = Ahead /\ \A c : Excess(c)' = Excess(c)
    BY <2>1 DEF Showings, Ahead, Excess
  <2> QED
    BY <1>1, <2>1, <2>2 DEF CountInv, DiamondsCover, Cheapest
<1>5. CASE Restart
  <2>1. /\ totals' = [c \in Combos |-> NoTotal]
        /\ UNCHANGED <<shown, recounted, count, countGap, diamonds, diamondsGap>>
    BY <1>5 DEF Restart, Boots, rankings
  <2>2. (~diamondsGap => DiamondsCover)'
    BY <1>1, <2>1, ForgettingKeepsCover
  <2> QED
    BY <1>1, <2>1, <2>2 DEF CountInv, Showings
<1>6. CASE Crash
  BY <1>1, <1>6 DEF Crash, CountInv
<1> QED
  BY <1>2, <1>3, <1>4, <1>5, <1>6 DEF Next, Control

\* A ranking of gifts without a gap has counted every gift that was shown, and
\* once more only those of a combo that was forgotten; a ranking of diamonds
\* without a gap has credited the same gifts, at some price (totals.rs,
\* LiveTotals; live_events, prepare_live_event).
THEOREM GiftsAreCounted == Spec => []ShownGiftsCounted
<1>1. Init => CountInv
  <2> SUFFICES ASSUME Init  PROVE CountInv
    OBVIOUS
  <2>1. TypeOK
    BY GiftTypesInitially
  <2>2. WorthInv
    BY <2>1 DEF Init, WorthInv, Remembers, Recalled, DiamondsNeverRetroactive
  <2>3. \A c \in Combos : Excess(c) = 0 /\ Ahead[c] = 0
    BY DEF Init, Excess, Ahead
  <2>4. Total(Ahead, Combos) = 0 /\ Total(shown, Combos) = 0
    <3>1. \A c \in Combos : shown[c] = 0
      BY DEF Init
    <3> QED
      BY <2>3, <3>1, TotalOfZero
  <2>5. Showings = 0 /\ 0 * Cheapest = 0
    BY <2>4, CheapestIsLeast, GiftAssumption DEF Init, Showings
  <2> QED
    BY <2>2, <2>3, <2>4, <2>5 DEF Init, CountInv, DiamondsCover
<1>2. CountInv /\ [Next]_vars => CountInv'
  BY CountStep, GiftAssumption
<1>3. CountInv => ShownGiftsCounted
  <2> SUFFICES ASSUME CountInv  PROVE ShownGiftsCounted
    OBVIOUS
  <2>1. TypeOK /\ IsFiniteSet(Combos)
    BY GiftAssumption DEF CountInv, WorthInv, GiftAssumption
  <2>2. SumFunction(shown) + recounted = Showings
    BY <2>1, SumTypes, SumIsTotal, GiftAssumption DEF Showings
  <2>3. ~diamondsGap => diamonds >= Showings * Cheapest
    <3> SUFFICES ASSUME ~diamondsGap  PROVE diamonds >= Showings * Cheapest
      OBVIOUS
    <3>1. /\ Total(Ahead, Combos) \in Nat /\ Showings \in Nat /\ Cheapest \in Nat
          /\ diamonds >= Showings * Cheapest + Total(Ahead, Combos)
      BY <2>1, SumTypes, CheapestIsLeast, GiftAssumption DEF CountInv, DiamondsCover
    <3>2. Showings * Cheapest \in Nat /\ diamonds \in Nat
      BY <2>1, <3>1, Products DEF TypeOK
    <3> QED
      BY <3>1, <3>2
  <2> QED
    BY <2>2, <2>3 DEF CountInv, ShownGiftsCounted, Cheapest
<1> QED
  BY <1>1, <1>2, <1>3, PTL DEF Spec

-----------------------------------------------------------------------------
(* Gifts are scored once.  A competition is clean when, for every combo,   *)
(* the diamonds of the mark are its units at the price of the combo; no    *)
(* receipt is above the mark; what has arrived while the competition takes *)
(* gifts is exactly what is up to the mark; and the scores of the receipts *)
(* add up to the gifts owed, at that price.  What arrives of a message is  *)
(* then what is above the mark, which is what advance_combo scores.  Once  *)
(* the deadline has passed nothing more is owed, and what still arrives no *)
(* longer matters: only an effect that was received in time is still Fresh. *)

Fresh ==
  \/ lifecycle \in {"active", "paused"}
  \/ lifecycle = "due" /\ held # NoEffect /\ ~held.late

Marked(c) ==
  /\ high[c].diamonds = high[c].units * high[c].price
  /\ high[c].price = 0 => high[c].units = 0 /\ Owed(c) = 0
  /\ \A m \in Of(c) : receipt[m] # NoReceipt => m.total <= high[c].units /\ high[c].price # 0

Reached(c) ==
  /\ Running /\ high[c].price # 0 => early[c] = 0
  /\ Fresh => \A u \in Totals : <<c, u>> \in arrived <=> u <= high[c].units

Settled(c) == Total(Scores, Of(c)) = Owed(c) * high[c].price

Clean == \A c \in Combos : Marked(c) /\ Reached(c) /\ Settled(c)

Unstarted ==
  /\ high = [c \in Combos |-> NoHigh] /\ receipt = [m \in Messages |-> NoReceipt]
  /\ engine = 0 /\ arrived = {} /\ owed = {}

ScoreInv ==
  /\ TypeOK
  /\ lifecycle = "draft" => Unstarted
  /\ InUse /\ ~degraded => Clean /\ engine = Total(Scores, Messages)

\* The messages of one combo.
LEMMA OfCombo ==
  ASSUME GiftAssumption, NEW c
  PROVE  Of(c) \subseteq Messages /\ IsFiniteSet(Of(c)) /\ IsFiniteSet(Messages)
BY MessagesAreFinite, FS_Subset DEF Of

\* A step that writes nothing the competition keeps.
LEMMA CleanKept ==
  ASSUME Clean, UNCHANGED <<high, receipt, owed>>, Running' => Running,
         \A c \in Combos : Running' /\ high[c].price # 0 /\ early[c] = 0 => early'[c] = 0,
         Fresh' => Fresh /\ arrived' = arrived
  PROVE  Clean'
<1> SUFFICES ASSUME NEW c \in Combos  PROVE (Marked(c) /\ Reached(c) /\ Settled(c))'
  BY DEF Clean
<1>1. Marked(c) /\ Reached(c) /\ Settled(c)
  BY DEF Clean
<1>2. Owed(c)' = Owed(c) /\ Of(c)' = Of(c) /\ Scores' = Scores
  BY DEF Owed, Of, Scores, ScoreOf
<1>3. Marked(c)'
  BY <1>1, <1>2 DEF Marked
<1>4. Reached(c)'
  BY <1>1 DEF Reached
<1>5. Settled(c)'
  BY <1>1, <1>2 DEF Settled
<1> QED
  BY <1>3, <1>4, <1>5

\* Empty accounts are clean.
LEMMA CleanWhenUnstarted ==
  ASSUME TypeOK, GiftAssumption, Unstarted
  PROVE  Clean /\ Total(Scores, Messages) = 0
<1>1. \A m \in Messages : Scores[m] = 0
  BY DEF Unstarted, Scores, ScoreOf
<1>2. Total(Scores, Messages) = 0
  BY <1>1, TotalOfZero
<1>3. ASSUME NEW c \in Combos  PROVE Marked(c) /\ Reached(c) /\ Settled(c)
  <2>1. Owed(c) = 0
    BY FS_EmptySet DEF Unstarted, Owed
  <2>2. high[c] = [units |-> 0, diamonds |-> 0, price |-> 0]
    BY DEF Unstarted, NoHigh
  <2>3. Total(Scores, Of(c)) = 0
    BY <1>1, TotalOfZero DEF Of
  <2>4. Marked(c)
    BY <2>1, <2>2 DEF Marked, Unstarted, Of
  <2>5. Reached(c)
    <3>1. \A u \in Totals : ~(u <= 0)
      BY GiftAssumption DEF GiftAssumption, Totals
    <3> QED
      BY <2>2, <3>1 DEF Reached, Unstarted
  <2> QED
    BY <2>1, <2>2, <2>3, <2>4, <2>5 DEF Settled
<1> QED
  BY <1>2, <1>3 DEF Clean

\* What a message adds to the high-water mark of its combo.
LEMMA MarkAdvances ==
  ASSUME ScoreInv, GiftAssumption, held # NoEffect, Price > 0, Running, ~degraded, Continues
  PROVE  /\ Early = 0 /\ Message.total \in Nat /\ high[Combo].units \in Nat
         /\ Advanced = [units |-> Higher(high[Combo].units, Message.total),
                        diamonds |-> Higher(high[Combo].units, Message.total) * Price,
                        price |-> Price]
         /\ Delta = Minus(Message.total, high[Combo].units) * Price
         /\ \/ high[Combo].price = Price
            \/ high[Combo].price = 0 /\ high[Combo].units = 0 /\ Owed(Combo) = 0
<1>1. /\ Combo \in Combos /\ Price \in Nat \ {0} /\ Message.total \in Nat \ {0}
      /\ high[Combo].units \in Nat /\ high[Combo].diamonds \in Nat
  <2>1. /\ Combo \in Combos /\ Price \in Nat /\ Message.total \in 1 .. MaxTotal /\ MaxTotal \in Nat
    BY HeldTypes DEF ScoreInv
  <2>2. high \in [Combos -> [units : Nat, diamonds : Nat, price : Prices]]
    BY DEF ScoreInv, TypeOK
  <2>3. Price # 0
    BY <2>1
  <2> QED
    BY <2>1, <2>2, <2>3
<1>2. Marked(Combo) /\ Reached(Combo)
  BY <1>1 DEF ScoreInv, InUse, Clean
<1>3. \/ high[Combo].price = Price
      \/ high[Combo].price = 0 /\ high[Combo].units = 0 /\ Owed(Combo) = 0 /\ Message.total = 1
  <2>1. CASE high[Combo].price = 0
    BY <1>2, <2>1 DEF Continues, Marked
  <2>2. CASE high[Combo].price # 0
    BY <2>2 DEF Continues
  <2> QED
    BY <2>1, <2>2
<1>4. Early = 0
  BY <1>1, <1>2, <1>3 DEF Early, Reached
<1>5. PICK u \in Nat, t \in Nat, p \in Nat : u = high[Combo].units /\ t = Message.total /\ p = Price
  BY <1>1
<1>6. high[Combo].diamonds = u * p
  <2>1. high[Combo].diamonds = u * high[Combo].price
    BY <1>2, <1>5 DEF Marked
  <2>2. u = 0 => u * high[Combo].price = 0 /\ u * p = 0
    <3>1. high[Combo].price \in {0, Price}
      BY <1>3
    <3>2. 0 * p = 0 /\ 0 * 0 = 0
      BY <1>5
    <3> QED
      BY <1>5, <3>1, <3>2
  <2> QED
    BY <1>3, <1>5, <2>1, <2>2
<1>7. /\ u * p \in Nat /\ t * p \in Nat
      /\ t > u => t * p >= u * p /\ t * p - u * p = (t - u) * p /\ (t - u) * p \in Nat
      /\ 0 * p = 0
  <2>1. t > u => t - u \in Nat /\ t = u + (t - u)
    BY <1>5
  <2>2. u * p \in Nat /\ t * p \in Nat /\ 0 * p = 0
    BY <1>5, Products
  <2>3. t > u => (t - u) * p \in Nat
    BY <2>1, <1>5, Products
  <2>4. t > u => (u + (t - u)) * p = u * p + (t - u) * p
    BY <2>1, <1>5, SumsDistribute
  <2>5. t > u => t * p = u * p + (t - u) * p
    BY <2>1, <2>4
  <2>6. PICK a, b, c : a = u * p /\ b = t * p /\ c = (t - u) * p
    OBVIOUS
  <2> QED
    BY <2>2, <2>3, <2>5, <2>6
<1>8. /\ Advanced.units = Higher(u, t) /\ Advanced.price = p
      /\ Advanced.diamonds = Higher(u * p, Higher(u, t) * p)
      /\ Advanced = [units |-> Advanced.units, diamonds |-> Advanced.diamonds,
                     price |-> Advanced.price]
  BY <1>5, <1>6 DEF Advanced
<1>9. Advanced.diamonds = Higher(u, t) * p
  <2>1. CASE t > u
    BY <2>1, <1>5, <1>7, <1>8 DEF Higher
  <2>2. CASE ~(t > u)
    BY <2>2, <1>5, <1>7, <1>8 DEF Higher
  <2> QED
    BY <2>1, <2>2
<1>10. Delta = Minus(t, u) * p
  <2>1. CASE t > u
    <3>1. Higher(u, t) = t
      BY <2>1, <1>5 DEF Higher
    <3>2. Delta = Minus(t * p, u * p)
      BY <2>1, <1>5, <1>6, <1>9, <3>1 DEF Delta
    <3>3. Minus(t, u) = t - u
      BY <2>1, <1>5 DEF Minus
    <3>4. PICK a, b, c : a = u * p /\ b = t * p /\ c = (t - u) * p
      OBVIOUS
    <3>5. Minus(b, a) = c
      BY <2>1, <1>7, <3>4 DEF Minus
    <3> QED
      BY <3>2, <3>3, <3>4, <3>5
  <2>2. CASE ~(t > u)
    BY <2>2, <1>5, <1>7 DEF Delta, Minus
  <2> QED
    BY <2>1, <2>2
<1> QED
  BY <1>1, <1>3, <1>4, <1>5, <1>8, <1>9, <1>10

\* The gifts of a combo above one total and up to another.
Between(c, a, b) == {<<c, u>> : u \in a + 1 .. b}

\* There are as many as the difference of the totals.
LEMMA GiftsBetween ==
  ASSUME NEW c, NEW a \in Nat, NEW b \in Nat
  PROVE  IsFiniteSet(Between(c, a, b)) /\ Cardinality(Between(c, a, b)) = Minus(b, a)
<1> DEFINE T == Between(c, a, b)
           h == [u \in a + 1 .. b |-> <<c, u>>]
<1>1. IsFiniteSet(a + 1 .. b) /\ Cardinality(a + 1 .. b) = Minus(b, a)
  <2>1. PICK i \in Int : i = a + 1
    OBVIOUS
  <2>2. IsFiniteSet(i .. b) /\ Cardinality(i .. b) = IF i > b THEN 0 ELSE b - i + 1
    BY FS_Interval
  <2> QED
    BY <2>1, <2>2 DEF Minus
<1>2. h \in Bijection(a + 1 .. b, T)
  <2>1. h \in [a + 1 .. b -> T] /\ \A u \in a + 1 .. b : h[u] = <<c, u>>
    BY DEF Between
  <2>2. \A t \in T : \E u \in a + 1 .. b : h[u] = t
    BY <2>1 DEF Between
  <2>3. \A u, v \in a + 1 .. b : h[u] = h[v] => u = v
    BY <2>1
  <2> HIDE DEF h, T
  <2> QED
    BY <2>1, <2>2, <2>3 DEF Bijection, Injection, Surjection, IsInjective
<1> HIDE DEF h, T
<1>3. ExistsBijection(a + 1 .. b, T)
  BY <1>2 DEF ExistsBijection
<1>4. IsFiniteSet(T) /\ Cardinality(T) = Minus(b, a)
  BY <1>1, <1>3, FS_Bijection
<1> QED
  BY <1>4 DEF T

\* While the accounts are clean and the competition still takes gifts, the
\* gifts a message brings are those above the mark of its combo.
LEMMA ArrivesAboveMark ==
  ASSUME ScoreInv, GiftAssumption, held # NoEffect, Running, ~degraded, Fresh, Early = 0
  PROVE  /\ Arriving = Between(Combo, high[Combo].units, Message.total)
         /\ \A c \in Combos \ {Combo}, u \in Totals :
              <<c, u>> \in arrived \union Arriving <=> <<c, u>> \in arrived
         /\ \A u \in Totals : <<Combo, u>> \in arrived \union Arriving
                                 <=> u <= Higher(high[Combo].units, Message.total)
<1>1. /\ Combo \in Combos /\ Message.total \in 1 .. MaxTotal /\ MaxTotal \in Nat
      /\ high[Combo].units \in Nat
  BY HeldTypes DEF ScoreInv, TypeOK
<1>2. \A u \in 1 .. MaxTotal : <<Combo, u>> \in arrived <=> u <= high[Combo].units
  BY <1>1 DEF ScoreInv, InUse, Clean, Reached, Totals
<1>3. \A g : g \in Arriving <=> g \notin arrived /\ \E u \in 0 + 1 .. Message.total : g = <<Combo, u>>
  BY DEF Arriving
<1>4. \A u : <<Combo, u>> \in Arriving <=> u \in 1 .. Message.total /\ u > high[Combo].units
  BY <1>1, <1>2, <1>3
<1>5. \A g : g \in Arriving <=> \E u \in high[Combo].units + 1 .. Message.total : g = <<Combo, u>>
  BY <1>1, <1>3, <1>4
<1>6. \A u \in Totals : <<Combo, u>> \in arrived \union Arriving
                          <=> u <= Higher(high[Combo].units, Message.total)
  BY <1>1, <1>2, <1>4 DEF Totals, Higher
<1>7. \A c \in Combos \ {Combo}, u \in Totals : <<c, u>> \notin Arriving
  BY <1>3
<1> QED
  BY <1>5, <1>6, <1>7 DEF Between

\* The gifts owed after a message that is counted.
LEMMA OwedAfter ==
  ASSUME ScoreInv, GiftAssumption, held # NoEffect, Running, ~degraded, Claim,
         Open /\ Assigned => Fresh /\ Early = 0, NEW k, k = Combo
  PROVE  /\ \A c \in Combos \ {k} : Owed(c)' = Owed(c)
         /\ Owed(k) \in Nat
         /\ Owed(k)' = Owed(k)
              + (IF Open /\ Assigned THEN Minus(Message.total, high[k].units) ELSE 0)
<1>1. /\ k \in Combos /\ Message.total \in Nat /\ high[k].units \in Nat
      /\ owed \subseteq arrived /\ owed \subseteq Gifts
  BY HeldTypes, SMTT(30) DEF ScoreInv, TypeOK
<1>2. IsFiniteSet({g \in owed : g[1] = k})
  <2>1. IsFiniteSet(Gifts)
    <3>1. IsFiniteSet(Totals)
      BY FS_Interval DEF GiftAssumption, Totals
    <3> QED
      BY <3>1, FS_Product DEF GiftAssumption, Gifts
  <2> QED
    BY <1>1, <2>1, FS_Subset
<1>3. Owed(k) \in Nat
  BY <1>2, FS_CardinalityType DEF Owed
<1>4. CASE Open /\ Assigned
  <2>1. owed' = owed \union Arriving
    BY <1>4 DEF Claim
  <2>2. Arriving = Between(k, high[k].units, Message.total)
    BY <1>4, ArrivesAboveMark
  <2>3. \A c \in Combos \ {k} : {g \in owed' : g[1] = c} = {g \in owed : g[1] = c}
    BY <2>1, <2>2 DEF Between
  <2>4. {g \in owed' : g[1] = k} = {g \in owed : g[1] = k} \union Arriving
    BY <2>1, <2>2 DEF Between
  <2>5. {g \in owed : g[1] = k} \cap Arriving = {}
    BY <1>1 DEF Arriving
  <2>6. IsFiniteSet(Arriving) /\ Cardinality(Arriving) = Minus(Message.total, high[k].units)
    BY <1>1, <2>2, GiftsBetween
  <2>7. Cardinality({g \in owed' : g[1] = k})
          = Cardinality({g \in owed : g[1] = k}) + Cardinality(Arriving) - Cardinality({})
    BY <1>2, <2>4, <2>5, <2>6, FS_Union
  <2>8. Minus(Message.total, high[k].units) \in Nat
    BY <1>1 DEF Minus
  <2>9. /\ Owed(k)' = Cardinality({g \in owed' : g[1] = k})
        /\ Owed(k) = Cardinality({g \in owed : g[1] = k})
    BY DEF Owed
  <2>10. \A c \in Combos : Owed(c)' = Cardinality({g \in owed' : g[1] = c})
    BY DEF Owed
  <2>11. \A c \in Combos \ {k} : Owed(c)' = Owed(c)
    BY <2>3, <2>10 DEF Owed
  <2>12. Owed(k)' = Owed(k) + Minus(Message.total, high[k].units)
    BY <1>3, <2>6, <2>7, <2>8, <2>9, FS_EmptySet
  <2> QED
    BY <1>3, <1>4, <2>11, <2>12
<1>5. CASE ~(Open /\ Assigned)
  <2>1. owed' = owed
    BY <1>5 DEF Claim
  <2> QED
    BY <1>3, <1>5, <2>1 DEF Owed
<1> QED
  BY <1>4, <1>5

\* While it takes usable messages at all, the competition is fresh.
LEMMA OpenIsFresh ==
  ASSUME held # NoEffect, Price > 0, Open
  PROVE  Fresh
BY DEF Open, Fresh

\* Routing ends the effect: a competition that is due waits for no other.
LEMMA RoutedFreshness ==
  ASSUME Routed
  PROVE  /\ held # NoEffect /\ Running' = Running /\ InUse' = InUse
         /\ lifecycle' = lifecycle /\ Claim
         /\ Fresh' => Fresh /\ lifecycle \in {"active", "paused"}
BY DEF Routed, Running, InUse, Fresh

\* A counted message moves the mark of its combo, its receipt and what is owed
\* together, and the score by as much.
LEMMA CountedKeepsClean ==
  ASSUME ScoreInv, GiftAssumption, RouteCounted, ~degraded
  PROVE  Clean' /\ Total(Scores, Messages)' = Total(Scores, Messages) + Score
<1>1. /\ held # NoEffect /\ Price > 0 /\ Running /\ ~Known /\ Continues /\ Routed /\ Claim
      /\ high' = [high EXCEPT ![Combo] = Advanced]
      /\ receipt' = [receipt EXCEPT ![Message] = [price |-> Price, score |-> Score]]
  BY DEF RouteCounted, Routed
<1>2. PICK k, m, p, t : k = Combo /\ m = Message /\ p = Price /\ t = Message.total
  OBVIOUS
<1>3. /\ k \in Combos /\ m \in Messages /\ m.combo = k /\ m.total = t
      /\ p \in Nat \ {0} /\ t \in Nat \ {0}
      /\ high \in [Combos -> [units : Nat, diamonds : Nat, price : Prices]]
      /\ receipt \in [Messages -> [price : Prices, score : Nat] \union {NoReceipt}]
      /\ high[k].units \in Nat
  <2>1. /\ Combo \in Combos /\ Price \in Nat /\ Message.total \in 1 .. MaxTotal /\ MaxTotal \in Nat
        /\ Message \in Messages /\ Message.combo = Combo
    BY <1>1, HeldTypes DEF ScoreInv, Combo
  <2>2. /\ high \in [Combos -> [units : Nat, diamonds : Nat, price : Prices]]
        /\ receipt \in [Messages -> [price : Prices, score : Nat] \union {NoReceipt}]
    BY DEF ScoreInv, TypeOK
  <2>3. p \in Nat \ {0} /\ t \in Nat \ {0}
    BY <1>1, <1>2, <2>1
  <2> QED
    BY <1>2, <2>1, <2>2, <2>3
<1>4. PICK u \in Nat : u = high[k].units
  BY <1>3
<1>5. PICK h, w : h = Higher(u, t) /\ w = Minus(t, u)
  OBVIOUS
<1>6. /\ h \in Nat /\ w \in Nat /\ u <= h /\ t <= h
  BY <1>3, <1>4, <1>5 DEF Higher, Minus
<1>7. /\ Early = 0
      /\ Advanced = [units |-> h, diamonds |-> h * p, price |-> p]
      /\ Delta = w * p
      /\ \/ high[k].price = p
         \/ high[k].price = 0 /\ u = 0 /\ Owed(k) = 0
  BY <1>1, <1>2, <1>4, <1>5, MarkAdvances
<1>8. PICK s : s = Score
  OBVIOUS
<1>9. s = IF Open /\ Assigned THEN w * p ELSE 0
  BY <1>7, <1>8 DEF Score
<1>10. s \in Nat
  BY <1>3, <1>6, <1>9, Products
<1>11. /\ TypeOK /\ TypeOK' /\ Clean
  BY <1>1, RouteTyped DEF ScoreInv, InUse, Route
<1>12. /\ high'[k] = [units |-> h, diamonds |-> h * p, price |-> p]
       /\ \A c \in Combos \ {k} : high'[c] = high[c]
       /\ receipt'[m] = [price |-> p, score |-> s] /\ receipt[m] = NoReceipt
       /\ receipt'[m] # NoReceipt
       /\ \A n \in Messages \ {m} : receipt'[n] = receipt[n]
  <2>1. p \in Prices
    BY <1>1, <1>2, HeldTypes DEF ScoreInv
  <2>2. [price |-> p, score |-> s] # NoReceipt
    BY <1>10, <2>1 DEF GiftAssumption
  <2> QED
    BY <1>1, <1>2, <1>3, <1>7, <1>8, <2>2 DEF Known
<1>13. /\ \A n \in Messages : Scores[n] \in Nat /\ Scores'[n] \in Nat
       /\ \A n \in Messages \ {m} : Scores'[n] = Scores[n]
       /\ Scores[m] = 0 /\ Scores'[m] = s
  <2>1. \A n \in Messages : Scores[n] \in Nat
    BY <1>11, ScoreTypes
  <2>2. \A n \in Messages : Scores'[n] = IF receipt'[n] = NoReceipt THEN 0 ELSE receipt'[n].score
    BY DEF Scores, ScoreOf
  <2>3. \A n \in Messages : Scores[n] = IF receipt[n] = NoReceipt THEN 0 ELSE receipt[n].score
    BY DEF Scores, ScoreOf
  <2>4. \A n \in Messages : Scores'[n] \in Nat
    BY <1>11, <2>2 DEF TypeOK
  <2> QED
    BY <1>3, <1>12, <2>1, <2>2, <2>3, <2>4
<1>14. Total(Scores', Messages) = Total(Scores, Messages) + s
  <2>1. Total(Scores, Messages) \in Nat
    BY <1>13, MessagesAreFinite, TotalSplits
  <2>2. Total(Scores', Messages) = Total(Scores, Messages) - Scores[m] + Scores'[m]
    BY <1>3, <1>13, MessagesAreFinite, TotalChanges
  <2> QED
    BY <1>10, <1>13, <2>1, <2>2
<1>15. /\ Total(Scores, Of(k)) \in Nat
       /\ Total(Scores', Of(k)) = Total(Scores, Of(k)) + s
       /\ \A c \in Combos \ {k} : Total(Scores', Of(c)) = Total(Scores, Of(c))
  <2>1. /\ IsFiniteSet(Of(k)) /\ m \in Of(k)
        /\ \A n \in Of(k) : Scores[n] \in Nat /\ Scores'[n] \in Nat
        /\ \A n \in Of(k) \ {m} : Scores'[n] = Scores[n]
    <3>1. IsFiniteSet(Of(k)) /\ Of(k) \subseteq Messages
      BY OfCombo
    <3>2. m \in Of(k)
      BY <1>3 DEF Of
    <3> QED
      BY <1>13, <3>1, <3>2
  <2>2. Total(Scores, Of(k)) \in Nat
    BY <2>1, TotalSplits
  <2>3. Total(Scores', Of(k)) = Total(Scores, Of(k)) - Scores[m] + Scores'[m]
    BY <2>1, TotalChanges
  <2>4. ASSUME NEW c \in Combos \ {k}  PROVE Total(Scores', Of(c)) = Total(Scores, Of(c))
    <3>1. \A n \in Of(c) : Scores'[n] = Scores[n]
      BY <1>3, <1>13 DEF Of
    <3> QED
      BY <3>1, TotalAgrees
  <2> QED
    BY <1>10, <1>13, <2>2, <2>3, <2>4
<1>16. /\ Fresh' => Fresh
       /\ Open /\ Assigned => Fresh /\ Early = 0
  BY <1>1, <1>7, RoutedFreshness, OpenIsFresh
<1>17. /\ \A c \in Combos \ {k} : Owed(c)' = Owed(c)
       /\ Owed(k) \in Nat
       /\ Owed(k)' = Owed(k) + (IF Open /\ Assigned THEN w ELSE 0)
  BY <1>1, <1>2, <1>4, <1>5, <1>16, OwedAfter
<1>18. /\ early' = [early EXCEPT ![k] = 0] /\ arrived' = arrived \union Arriving
       /\ early \in [Combos -> 0 .. MaxTotal]
  BY <1>1, <1>2, <1>7, <1>11 DEF Claim, TypeOK
<1>19. ASSUME NEW c \in Combos  PROVE Marked(c) /\ Reached(c) /\ Settled(c)
  BY <1>11 DEF Clean
<1>20. Marked(k)' /\ Reached(k)' /\ Settled(k)'
  <2>1. Marked(k)'
    <3>1. \A n \in Of(k) : receipt'[n] # NoReceipt => n.total <= h
      <4> SUFFICES ASSUME NEW n \in Of(k), receipt'[n] # NoReceipt  PROVE n.total <= h
        OBVIOUS
      <4>1. n \in Messages
        BY DEF Of
      <4>2. CASE n = m
        BY <4>2, <1>3, <1>6
      <4>3. CASE n # m
        <5>1. n.total <= u /\ n.total \in Nat
          <6>1. n.total \in Nat
            BY <4>1 DEF Messages, Totals
          <6> QED
            BY <1>3, <1>4, <1>12, <1>19, <4>1, <4>3, <6>1 DEF Marked
        <5> QED
          BY <1>4, <1>6, <5>1
      <4> QED
        BY <4>2, <4>3
    <3>2. Of(k)' = Of(k)
      BY DEF Of
    <3>3. p # 0 /\ high'[k].diamonds = h * p /\ high'[k].units = h /\ high'[k].price = p
      BY <1>3, <1>12
    <3> QED
      BY <3>1, <3>2, <3>3 DEF Marked
  <2>2. Reached(k)'
    <3>1. early'[k] = 0
      BY <1>3, <1>18
    <3>2. Fresh' => \A x \in Totals : <<k, x>> \in arrived' <=> x <= h
      BY <1>1, <1>2, <1>4, <1>5, <1>7, <1>16, <1>18, ArrivesAboveMark
    <3>3. high'[k].units = h
      BY <1>12
    <3> QED
      BY <3>1, <3>2, <3>3 DEF Reached
  <2>3. Settled(k)'
    <3>1. Total(Scores, Of(k)) = Owed(k) * high[k].price
      BY <1>3, <1>19 DEF Settled
    <3>2. Owed(k) * high[k].price = Owed(k) * p
      <4>1. Owed(k) = 0 => Owed(k) * high[k].price = 0 /\ Owed(k) * p = 0
        <5>1. 0 * p = 0 /\ 0 * 0 = 0
          BY <1>3
        <5> QED
          BY <1>7, <5>1
      <4> QED
        BY <1>7, <4>1
    <3>3. Total(Scores', Of(k)) = Owed(k) * p + s
      BY <1>15, <3>1, <3>2
    <3>4. Owed(k)' * p = Owed(k) * p + s
      <4>1. CASE Open /\ Assigned
        <5>1. (Owed(k) + w) * p = Owed(k) * p + w * p
          BY <1>3, <1>6, <1>17, SumsDistribute
        <5> QED
          BY <4>1, <5>1, <1>9, <1>17
      <4>2. CASE ~(Open /\ Assigned)
        BY <4>2, <1>3, <1>9, <1>17, Products
      <4> QED
        BY <4>1, <4>2
    <3>5. high'[k].price = p
      BY <1>12
    <3>6. Total(Scores, Of(k))' = Total(Scores', Of(k))
      BY DEF Total, Cells, Of
    <3> QED
      BY <3>3, <3>4, <3>5, <3>6 DEF Settled
  <2> QED
    BY <2>1, <2>2, <2>3
<1>21. ASSUME NEW c \in Combos \ {k}  PROVE Marked(c)' /\ Reached(c)' /\ Settled(c)'
  <2>1. Of(c)' = Of(c) /\ \A n \in Of(c) : receipt'[n] = receipt[n]
    BY <1>3, <1>12 DEF Of
  <2>2. high'[c] = high[c] /\ Owed(c)' = Owed(c) /\ early'[c] = early[c]
    BY <1>3, <1>12, <1>17, <1>18
  <2>3. Marked(c)'
    BY <1>19, <2>1, <2>2 DEF Marked
  <2>4. Reached(c)'
    <3>1. Fresh' => \A x \in Totals : <<c, x>> \in arrived' <=> <<c, x>> \in arrived
      BY <1>1, <1>2, <1>7, <1>16, <1>18, ArrivesAboveMark
    <3>2. Running' = Running
      BY <1>1, RoutedFreshness
    <3> QED
      BY <1>16, <1>19, <2>2, <3>1, <3>2 DEF Reached
  <2>5. Settled(c)'
    <3>1. Total(Scores, Of(c))' = Total(Scores', Of(c))
      BY DEF Total, Cells, Of
    <3> QED
      BY <1>15, <1>19, <2>2, <3>1 DEF Settled
  <2> QED
    BY <2>3, <2>4, <2>5
<1>22. Clean'
  BY <1>20, <1>21 DEF Clean
<1>23. Total(Scores, Messages)' = Total(Scores', Messages)
  <2>1. Messages' = Messages
    BY DEF Messages, Totals
  <2> QED
    BY <2>1 DEF Total, Cells
<1> QED
  BY <1>8, <1>14, <1>22, <1>23

\* Whatever comes of a message, the accounts stay clean or are said not to be.
LEMMA RouteScores ==
  ASSUME ScoreInv, GiftAssumption, Route
  PROVE  ScoreInv'
<1>1. TypeOK' /\ TypeOK
  BY RouteTyped DEF ScoreInv
<1>2. held # NoEffect /\ Routed
  BY DEF Route, RouteInvalid, RouteClosed, RouteDuplicate, RouteRefused, RouteFailed, RouteCounted
<1>3. /\ Running' = Running /\ InUse' = InUse /\ lifecycle' = lifecycle /\ Claim
      /\ Fresh' => Fresh /\ lifecycle \in {"active", "paused"}
  BY <1>2, RoutedFreshness
<1>4. (lifecycle = "draft" => Unstarted)'
  <2> SUFFICES ASSUME lifecycle = "draft"  PROVE Unstarted'
    BY <1>3
  <2>1. ~Running
    BY DEF Running
  <2>2. UNCHANGED <<high, receipt, engine>>
    BY <2>1 DEF Route, RouteInvalid, RouteClosed, RouteDuplicate, RouteRefused, RouteFailed,
               RouteCounted
  <2>3. UNCHANGED <<arrived, owed>>
    BY <2>1, <1>3 DEF Claim
  <2> QED
    BY <2>2, <2>3 DEF ScoreInv, Unstarted
<1>5. ASSUME InUse', ~degraded'
      PROVE  Clean' /\ engine' = Total(Scores, Messages)'
  <2>1. CASE RouteCounted
    <3>1. ~degraded /\ engine' = engine + Score
      BY <1>5, <2>1 DEF RouteCounted
    <3>2. engine = Total(Scores, Messages)
      BY <1>3, <1>5, <3>1 DEF ScoreInv
    <3> QED
      BY <2>1, <3>1, <3>2, CountedKeepsClean
  <2>2. CASE ~RouteCounted
    <3>1. /\ UNCHANGED <<high, receipt, engine, degraded>>
          /\ RouteInvalid \/ RouteClosed \/ RouteDuplicate
          /\ RouteInvalid => Price = 0 /\ ~(Running /\ lifecycle # "due")
      BY <1>5, <2>2, <1>1 DEF Route, RouteInvalid, RouteClosed, RouteDuplicate, RouteRefused,
                             RouteFailed, TypeOK
    <3>2. Clean /\ engine = Total(Scores, Messages)
      BY <1>3, <1>5, <3>1 DEF ScoreInv
    <3>3. Scores' = Scores /\ Total(Scores, Messages)' = Total(Scores, Messages)
      <4>1. Scores' = Scores /\ Messages' = Messages
        BY <3>1 DEF Scores, ScoreOf, Messages, Totals
      <4> QED
        BY <4>1 DEF Total, Cells
    <3>4. /\ Combo \in Combos /\ Message \in Messages /\ Message.combo = Combo
          /\ Message.total \in 1 .. MaxTotal /\ MaxTotal \in Nat
          /\ early \in [Combos -> 0 .. MaxTotal] /\ high[Combo].units \in Nat
      BY <1>1, <1>2, HeldTypes DEF Combo, TypeOK
    <3>5. \A c \in Combos : Running' /\ high[c].price # 0 /\ early[c] = 0 => early'[c] = 0
      BY <1>3, <3>4 DEF Claim, Early
    <3>6. owed' = owed /\ (Fresh' => arrived' = arrived)
      <4>1. CASE RouteInvalid \/ RouteClosed
        <5>1. ~(Open /\ Running) /\ ~(Fresh' /\ Running)
          BY <1>3, <3>1, <4>1 DEF RouteClosed, Open
        <5> QED
          BY <1>3, <5>1 DEF Claim, Running
      <4>2. CASE RouteDuplicate
        <5>1. /\ receipt[Message] # NoReceipt /\ Price > 0 /\ Running
          BY <4>2 DEF RouteDuplicate, Known
        <5>2. Marked(Combo) /\ Reached(Combo)
          BY <3>2, <3>4 DEF Clean
        <5>3. high[Combo].price # 0 /\ Message.total <= high[Combo].units /\ early[Combo] = 0
          BY <3>4, <5>1, <5>2 DEF Marked, Reached, Of
        <5>4. Early = 0
          BY <5>3 DEF Early
        <5>5. Fresh => Arriving = {}
          <6> SUFFICES ASSUME Fresh  PROVE Arriving = {}
            OBVIOUS
          <6>1. ~degraded
            BY <1>5, <3>1
          <6>2. Arriving = Between(Combo, high[Combo].units, Message.total)
            BY <1>2, <5>1, <5>4, <6>1, ArrivesAboveMark
          <6>3. high[Combo].units + 1 .. Message.total = {}
            BY <3>4, <5>3
          <6> QED
            BY <6>2, <6>3 DEF Between
        <5>6. Open => Fresh
          BY <1>2, <5>1, OpenIsFresh
        <5> QED
          BY <1>3, <5>1, <5>5, <5>6 DEF Claim
      <4> QED
        BY <3>1, <4>1, <4>2
    <3>7. Clean'
      BY <1>3, <3>1, <3>2, <3>5, <3>6, CleanKept
    <3> QED
      BY <3>1, <3>2, <3>3, <3>7
  <2> QED
    BY <2>1, <2>2
<1> QED
  BY <1>1, <1>4, <1>5 DEF ScoreInv

\* A step that leaves the accounts alone.
LEMMA ScoreKept ==
  ASSUME ScoreInv, TypeOK', UNCHANGED <<high, receipt, owed, arrived, early, engine>>,
         lifecycle' = "draft" => lifecycle = "draft",
         InUse' /\ ~degraded' => InUse /\ ~degraded,
         Running' => Running, Fresh' => Fresh
  PROVE  ScoreInv'
<1>1. (lifecycle = "draft" => Unstarted)'
  BY DEF ScoreInv, Unstarted
<1>2. ASSUME InUse', ~degraded'  PROVE Clean' /\ engine' = Total(Scores, Messages)'
  <2>1. Clean /\ engine = Total(Scores, Messages)
    BY <1>2 DEF ScoreInv
  <2>2. Clean'
    BY <2>1, CleanKept
  <2>3. Scores' = Scores /\ Messages' = Messages
    BY DEF Scores, ScoreOf, Messages, Totals
  <2> QED
    BY <2>1, <2>2, <2>3 DEF Total, Cells
<1> QED
  BY <1>1, <1>2 DEF ScoreInv

\* The ledger of a draft is empty: it starts clean.
LEMMA StartScores ==
  ASSUME ScoreInv, TypeOK', GiftAssumption, Start
  PROVE  ScoreInv'
<1>1. /\ lifecycle = "draft" /\ lifecycle' = "active"
      /\ UNCHANGED <<high, receipt, engine, early, arrived, owed>>
  BY DEF Start, Becomes, claims
<1>2. Unstarted /\ TypeOK
  BY <1>1 DEF ScoreInv
<1>3. Unstarted'
  BY <1>1, <1>2 DEF Unstarted
<1>4. Clean /\ Total(Scores, Messages) = 0
  BY <1>2, CleanWhenUnstarted
<1>5. Scores' = Scores /\ Messages' = Messages
  BY <1>1 DEF Scores, ScoreOf, Messages, Totals
<1>6. ASSUME NEW c \in Combos  PROVE (Marked(c) /\ Reached(c) /\ Settled(c))'
  <2>1. Marked(c) /\ Settled(c)
    BY <1>4 DEF Clean
  <2>2. Owed(c)' = Owed(c) /\ Of(c)' = Of(c)
    BY <1>1 DEF Owed, Of
  <2>3. Reached(c)'
    <3>1. high'[c] = [units |-> 0, diamonds |-> 0, price |-> 0] /\ arrived' = {}
      BY <1>3 DEF Unstarted, NoHigh
    <3>2. \A u \in Totals : ~(u <= 0)
      BY DEF GiftAssumption, Totals
    <3> QED
      BY <3>1, <3>2 DEF Reached
  <2> QED
    BY <1>1, <1>5, <2>1, <2>2, <2>3 DEF Marked, Settled
<1>7. engine' = 0 /\ Total(Scores, Messages)' = 0
  <2>1. engine' = 0
    BY <1>3 DEF Unstarted
  <2> QED
    BY <1>4, <1>5, <2>1 DEF Total, Cells
<1> QED
  BY <1>1, <1>3, <1>6, <1>7 DEF ScoreInv, Clean

\* A boot rebuilds the ranking from the ledger.
LEMMA BootScores ==
  ASSUME ScoreInv, GiftAssumption, Restart \/ Crash
  PROVE  ScoreInv'
<1>1. TypeOK' /\ TypeOK
  BY BootTyped DEF ScoreInv
<1>2. /\ UNCHANGED <<lifecycle, high, receipt, early, arrived, owed>>
      /\ held' = NoEffect /\ engine' = Scored(Messages)
  BY DEF Restart, Crash, Boots, claims
<1>3. engine' = Total(Scores, Messages)
  BY <1>1, <1>2, ScoredIsTotal
<1>4. Scores' = Scores /\ Messages' = Messages
  BY <1>2 DEF Scores, ScoreOf, Messages, Totals
<1>5. (lifecycle = "draft" => Unstarted)'
  <2> SUFFICES ASSUME lifecycle = "draft"  PROVE Unstarted'
    BY <1>2
  <2>1. Unstarted
    BY DEF ScoreInv
  <2>2. Total(Scores, Messages) = 0
    BY <1>1, <2>1, CleanWhenUnstarted
  <2> QED
    BY <1>2, <1>3, <2>1, <2>2 DEF Unstarted
<1>6. ASSUME InUse', ~degraded'  PROVE Clean' /\ engine' = Total(Scores, Messages)'
  <2>1. InUse' = InUse /\ Running' = Running /\ (Fresh' => Fresh)
    BY <1>2 DEF InUse, Running, Fresh
  <2>2. ~degraded
    BY <1>6, <2>1 DEF Restart, Crash
  <2>3. Clean
    BY <1>6, <2>1, <2>2 DEF ScoreInv
  <2>4. Clean'
    BY <1>2, <2>1, <2>3, CleanKept
  <2> QED
    BY <1>3, <1>4, <2>4 DEF Total, Cells
<1> QED
  BY <1>1, <1>5, <1>6 DEF ScoreInv

\* Every step keeps the accounts.
LEMMA ScoreStep ==
  ASSUME ScoreInv, GiftAssumption, [Next]_vars
  PROVE  ScoreInv'
<1>1. TypeOK'
  BY TypeStep DEF ScoreInv
<1>2. ASSUME NEW d \in Deliveries, Admit(d)  PROVE ScoreInv'
  <2>1. /\ UNCHANGED <<lifecycle, high, receipt, engine, degraded, early, arrived, owed>>
        /\ held = NoEffect /\ held' = [message |-> d.message, price |-> Usable(d),
                                       late |-> lifecycle = "due"]
    BY <1>2 DEF Admit, competition, claims
  <2>2. InUse' = InUse /\ Running' = Running /\ (Fresh' => Fresh)
    BY <2>1 DEF InUse, Running, Fresh
  <2> QED
    BY <1>1, <2>1, <2>2, ScoreKept
<1>3. CASE IdentityExpires \/ (\E c \in Combos : ComboExpires(c)) \/ UNCHANGED vars
  <2>1. UNCHANGED <<lifecycle, high, receipt, engine, degraded, early, arrived, owed, held>>
    BY <1>3 DEF IdentityExpires, ComboExpires, vars, competition, session, claims
  <2>2. InUse' = InUse /\ Running' = Running /\ (Fresh' => Fresh)
    BY <2>1 DEF InUse, Running, Fresh
  <2> QED
    BY <1>1, <2>1, <2>2, ScoreKept
<1>4. CASE Route
  BY <1>4, RouteScores
<1>5. CASE Start
  BY <1>1, <1>5, StartScores
<1>6. CASE Control /\ ~Start
  <2>1. UNCHANGED <<high, receipt, engine, degraded, early, arrived, owed, held>>
    BY <1>6 DEF Control, Pause, Resume, Deadline, Finish, Cancel, Decide, Choose, Becomes,
                session, claims
  <2>2. /\ lifecycle' = "draft" => lifecycle = "draft"
        /\ InUse' => InUse
        /\ Running' => Running
        /\ Fresh' => Fresh
    BY <1>6, <2>1 DEF Control, Pause, Resume, Deadline, Finish, Cancel, Decide, Choose, Becomes,
                      InUse, Running, Fresh
  <2> QED
    BY <1>1, <2>1, <2>2, ScoreKept
<1>7. CASE Restart \/ Crash
  BY <1>7, BootScores
<1> QED
  BY <1>2, <1>3, <1>4, <1>5, <1>6, <1>7 DEF Next, Control

\* A competition in use that is not degraded has scored every gift that reached
\* it in time, once, at the price of its combo, and no other; and the ranking in
\* memory agrees with the receipts (gift_accounting.rs, advance_combo; the
\* routing of a gift to the competition).
THEOREM GiftsAreScoredOnce == Spec => []GiftsScoredOnce
<1>1. Init => ScoreInv
  <2> SUFFICES ASSUME Init  PROVE ScoreInv
    OBVIOUS
  <2>1. TypeOK
    BY GiftTypesInitially
  <2> QED
    BY <2>1 DEF Init, ScoreInv, Unstarted, InUse, Running
<1>2. ScoreInv /\ [Next]_vars => ScoreInv'
  BY ScoreStep, GiftAssumption
<1>3. ScoreInv => GiftsScoredOnce
  <2> SUFFICES ASSUME ScoreInv, InUse, ~degraded
               PROVE  /\ \A c \in Combos : Scored(Of(c)) = Owed(c) * high[c].price
                      /\ engine = Scored(Messages)
    BY DEF GiftsScoredOnce
  <2>1. TypeOK /\ Clean /\ engine = Total(Scores, Messages)
    BY DEF ScoreInv
  <2>2. \A c \in Combos : Scored(Of(c)) = Total(Scores, Of(c))
    BY <2>1, ScoredIsTotal, OfCombo, GiftAssumption
  <2>3. Scored(Messages) = Total(Scores, Messages)
    BY <2>1, ScoredIsTotal, GiftAssumption
  <2> QED
    BY <2>1, <2>2, <2>3 DEF Clean, Settled
<1> QED
  BY <1>1, <1>2, <1>3, PTL DEF Spec

=============================================================================
