--------------------------- MODULE MCBacktestFold ---------------------------
(***************************************************************************)
(* BacktestFold on two symbols over four trading days, with bars for two   *)
(* more days.  A BUY at full score asks for 60% of equity, so two entries  *)
(* in one step compete for cash.  Prices are around 10, levels at -2/+3,   *)
(* slippage and limit offset 10%, fees 5%.                                 *)
(***************************************************************************)
EXTENDS BacktestFold, TLC

CONSTANTS x, y, tech, unknown

MCSymbols == {x, y}
MCBuckets == {tech, unknown}
MCBucket == (x :> tech) @@ (y :> unknown)
MCInputs == InputType

Bar(o, h, l, c) == [open |-> o, high |-> h, low |-> l, close |-> c]
Flat == Bar(10, 11, 9, 10)

(* Quiet; a fall through the stop on the entry day and a rise through the  *)
(* target later; a gap up over the limit; days without a bar; a symbol     *)
(* whose bars end inside the window; one that only starts trading on day 2. *)
Histories ==
  {[d \in 1..6 |-> Flat],
   [d \in 1..6 |-> IF d = 1 THEN Bar(13, 13, 7, 10) ELSE IF d = 3 THEN Bar(12, 14, 12, 13) ELSE Flat],
   [d \in 1..6 |-> IF d < 3 THEN Flat ELSE Bar(12 + d, 14 + d, 11 + d, 13 + d)],
   [d \in {1, 4, 5} |-> IF d = 4 THEN Bar(9, 10, 6, 7) ELSE Flat],
   [d \in 1..2 |-> Flat],
   [d \in 2..6 |-> Flat]}

(* Enter and hold; enter and exit; exit and re-enter; unlisted on day 3.   *)
ScorePaths ==
  {[d \in 1..4 |-> 10], [d \in 1..4 |-> IF d = 2 THEN 0 ELSE 10],
   [d \in 1..4 |-> IF d = 3 THEN 0 ELSE 8], [d \in {1, 2, 4} |-> 9]}

(* The second symbol takes the quiet, falling, sparse or ended history.    *)
Partners == {h \in Histories : 1 \in DOMAIN h /\ (DOMAIN h = 1..6 /\ h[1] = Flat => h[3] = Flat)}

MCSettings ==
  {[fillMode |-> "market", rebalanceDays |-> 1], [fillMode |-> "market", rebalanceDays |-> 2],
   [fillMode |-> "limit_with_fallback", rebalanceDays |-> 1]}

Calm == [warm |-> FALSE, ratio |-> 0, bear |-> FALSE]
Levered == [warm |-> TRUE, ratio |-> 15, bear |-> FALSE]

MCPanels ==
  {[bars |-> (x :> bx) @@ (y :> by), score |-> (x :> sx) @@ (y :> sy),
    vix |-> [d \in 1..4 |-> IF d < 3 THEN 20 ELSE IF d = 3 THEN 35 ELSE 45],
    regime |-> [d \in 1..4 |-> r]] :
     bx \in Histories, by \in Partners, sx \in ScorePaths, sy \in {p \in ScorePaths : DOMAIN p # 1..4 \/ p[3] = 10},
     r \in {Calm, Levered}}
=============================================================================
