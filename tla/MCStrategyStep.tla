--------------------------- MODULE MCStrategyStep ---------------------------
(***************************************************************************)
(* StrategyStep on three symbols, two of them in one sector, with sizes in *)
(* percent.  A BUY at full score asks for 10%; the sector cap is 30%.      *)
(***************************************************************************)
EXTENDS StrategyStep, TLC

CONSTANTS a, b, c, tech, unknown

MCSymbols == {a, b, c}
MCBuckets == {tech, unknown}
MCBucket == (a :> tech) @@ (b :> tech) @@ (c :> unknown)

(* Scores: below exit, in the hysteresis band, at and above entry.  Sector *)
(* snapshots: empty, room for one and a half orders, full.  The broker may *)
(* have lost a position between the two reads, or gained one.              *)
MCInputs ==
  {[held |-> held, heldQty |-> [s \in Symbols |-> IF s \in late THEN 2 ELSE 0],
    score |-> score, price |-> [s \in Symbols |-> price], vix |-> vix, equity |-> 100,
    warm |-> overlay.warm, ratio |-> overlay.ratio, bear |-> overlay.bear,
    sectors |-> (tech :> room) @@ (unknown :> 20), band |-> band] :
     held \in {{}, {a}, {a, c}}, late \in {{}, {a}, {a, c}},
     score \in [Symbols -> {0, 5, 10}],
     price \in {0, 1, 50}, vix \in {20, 35, 45}, room \in {0, 15, 30},
     overlay \in {[warm |-> FALSE, ratio |-> 0, bear |-> FALSE],
                  [warm |-> TRUE, ratio |-> 40, bear |-> FALSE],
                  [warm |-> TRUE, ratio |-> 10, bear |-> TRUE]},
     band \in BOOLEAN}
=============================================================================
