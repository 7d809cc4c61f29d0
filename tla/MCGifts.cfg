SPECIFICATION Spec
CONSTANTS
  Combos = {c1, c2}
  MaxTotal = 2
  Serials = {first, final}
  Prices = {0, 1, 2}
  Mapped = FALSE
  MaxCombos = 1
  DedupCapacity = 1
  MaxSent = 3
  NoEffect = NoEffect
  NoTotal = NoTotal
  NoReceipt = NoReceipt
  c1 = c1
  c2 = c2
  first = first
  final = final
SYMMETRY GiftSymmetry
VIEW WhatCounts
INVARIANTS
  GiftsScoredOnce
  ShownGiftsCounted
  DiamondsNeverRetroactive
CHECK_DEADLOCK FALSE
