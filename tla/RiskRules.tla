------------------------------ MODULE RiskRules ------------------------------
(***************************************************************************)
(* The pure rules one strategy step applies to a symbol: the entry and     *)
(* exit decision of SignalGenerator (bloasis/signal.py), the size limits   *)
(* of RiskEvaluator (bloasis/risk.py), the regime overlay                  *)
(* (bloasis/scoring/regime_overlay.py) and the tolerance band of the       *)
(* runner (bloasis/strategy/runner.py).                                    *)
(*                                                                         *)
(* Fractions of equity are integers in units of 1/Full, scores in units of *)
(* 1/ScoreFull, overlay factors in units of 1/ScaleOne.  The code computes *)
(* with floats: a product that is positive there stays positive here       *)
(* because divisions of sizes round up.                                    *)
(***************************************************************************)
EXTENDS Integers, FiniteSets

CONSTANTS
  Symbols,                \* tradable symbols
  Buckets,                \* sectors, the "_unknown" bucket included
  Bucket,                 \* the sector map: [Symbols -> Buckets]
  Full,                   \* 100% of equity
  ScoreFull,              \* a score of 1.0
  EntryThreshold,         \* scorer.entry_threshold
  ExitThreshold,          \* scorer.exit_threshold
  PositionSizeMax,        \* signal.position_size_max_pct
  RebalanceTolerance,     \* signal.rebalance_tolerance_pct
  MaxSingleOrder,         \* risk.max_single_order_pct
  MaxSectorConcentration, \* risk.max_sector_concentration
  VixHigh, VixExtreme,    \* risk.vix_high, risk.vix_extreme
  ScaleOne,               \* an overlay factor of 1.0
  ScaleLow, ScaleHigh,    \* regime_overlay.scale_clip
  BearScale               \* regime_overlay.bear_scale

(* universe.sectors: a symbol without a known sector is in "_unknown". *)
ASSUME SectorMapAssumption == Bucket \in [Symbols -> Buckets]

(* A universe is a list of symbols. *)
ASSUME UniverseAssumption == IsFiniteSet(Symbols)

(* The ranges config/schema.py validates when the YAML is loaded. *)
ASSUME ConfigAssumption ==
  /\ Full \in Nat \ {0} /\ ScoreFull \in Nat \ {0} /\ ScaleOne \in Nat \ {0}
  /\ EntryThreshold \in 0..ScoreFull /\ ExitThreshold \in 0..ScoreFull
  /\ ExitThreshold < EntryThreshold
  /\ PositionSizeMax \in 1..Full /\ MaxSingleOrder \in 1..Full
  /\ MaxSectorConcentration \in 1..Full
  /\ RebalanceTolerance \in 0..Full
  /\ VixHigh \in Nat /\ VixExtreme \in Nat /\ VixHigh < VixExtreme
  /\ ScaleLow \in Nat /\ ScaleHigh \in Nat /\ ScaleLow < ScaleHigh
  /\ BearScale \in 0..ScaleOne

-----------------------------------------------------------------------------
Smaller(a, b) == IF a <= b THEN a ELSE b
Larger(a, b) == IF a >= b THEN a ELSE b
CeilDiv(a, b) == (a + b - 1) \div b

-----------------------------------------------------------------------------
(* SignalGenerator.  A symbol with no current score is scored 0 by the     *)
(* exit loop and is not visited by the entry loop; as the entry threshold  *)
(* is positive, score 0 stands for both.                                   *)
ExitSignals(held, score) == {s \in held : score[s] < ExitThreshold}

EntrySignalsOfAll(held, score) == {s \in Symbols : score[s] >= EntryThreshold}

EntrySignals(held, score) == {s \in Symbols \ held : score[s] >= EntryThreshold}

EntrySize(score) ==
  Larger(1, Smaller(CeilDiv(PositionSizeMax * score, ScoreFull), PositionSizeMax))

(* RiskEvaluator.evaluate on a BUY of the given target size into a bucket  *)
(* that already holds `existing`: the size granted, 0 for REJECT.          *)
HalvedByVix(size, vix) == IF vix > VixHigh THEN CeilDiv(size, 2) ELSE size

WithinSectorAlone(size, existing) == Smaller(size, MaxSectorConcentration)

WithinSector(size, existing) ==
  IF MaxSectorConcentration < Full /\ existing + size > MaxSectorConcentration
  THEN Larger(0, MaxSectorConcentration - existing)
  ELSE size

GrantedSize(size, existing, vix) ==
  IF vix > VixExtreme THEN 0
  ELSE WithinSector(Smaller(HalvedByVix(size, vix), MaxSingleOrder), existing)

(* compute_regime_scale: volatility target clipped to scale_clip, times    *)
(* bear_scale in a bear market; `ratio` is sigma_target / realized_vol.    *)
(* `warm` is false when the overlay is off or has too little history.      *)
RegimeScale(warm, ratio, bear) ==
  LET clipped == Larger(ScaleLow, Smaller(ratio, ScaleHigh))
  IN  IF ~warm THEN ScaleOne
      ELSE IF bear THEN CeilDiv(clipped * BearScale, ScaleOne) ELSE clipped

Scaled(size, scale) == CeilDiv(size * scale, ScaleOne)

(* The runner's tolerance band: TRUE when today's BUY set is within the    *)
(* configured Jaccard distance of the previous one, so its BUYs are        *)
(* dropped.                                                                *)
BandSuppresses(today, previous) ==
  LET union == today \cup previous
      differing == (today \ previous) \cup (previous \ today)
  IN  /\ RebalanceTolerance > 0
      /\ union # {}
      /\ Full * Cardinality(differing) < RebalanceTolerance * Cardinality(union)
=============================================================================
