------------------------------ MODULE MCGifts ------------------------------
(***************************************************************************)
(* A small instance of GiftLedger: two combos, room for one of them.       *)
(***************************************************************************)
EXTENDS GiftLedger

CONSTANTS c1, c2, first, final

\* Combos, and the messages of one total, differ in nothing but their names.
GiftSymmetry == Permutations(Combos) \union Permutations(Serials)

\* A competition that is in use and degraded stays so until it is over, and
\* a ranking with a gap keeps it; neither then has anything to say that the
\* other accounts depend on, except by how much the diamonds stay below their
\* worth.
Spoilt == lifecycle = "over" \/ (InUse /\ degraded)
WhatCounts ==
  <<IF Spoilt THEN <<held # NoEffect>> ELSE <<competition, claims, held>>,
    seen, totals, sent, shown, forgotten, countGap, diamondsGap,
    IF countGap THEN 0 ELSE count,
    IF countGap /\ diamondsGap THEN 0 ELSE recounted,
    IF diamondsGap THEN worth - diamonds ELSE <<worth, diamonds>> >>
=============================================================================
