---------------------------- MODULE StrategyStep ----------------------------
(***************************************************************************)
(* execute_strategy_step (bloasis/strategy/runner.py): the pipeline the    *)
(* backtest and the paper/live commands share.  A step takes what its      *)
(* caller and the broker report (`in`), turns scores into SELL and BUY     *)
(* signals, and sends one order per loop iteration, growing its private    *)
(* sector exposure as BUYs are accepted.                                   *)
(*                                                                         *)
(* The executor is open: every step may see any input, and an order may    *)
(* come back with any status.  BacktestFold closes it with the simulated   *)
(* portfolio and implements this specification.                            *)
(***************************************************************************)
EXTENDS RiskRules, FiniteSetsExt

CONSTANTS
  Inputs,         \* the inputs a step may be called with, of those in InputType
  ResultStatuses  \* the statuses the executor may answer with

VARIABLES
  running,       \* TRUE inside the call
  in,            \* arguments and broker reads of the current call
  exposure,      \* sector exposure: snapshot plus this step's BUYs
  pendingSells,  \* SELL signals the loop has not reached
  pendingBuys,   \* BUY signals the loop has not reached
  submitted,     \* orders sent in this step with the broker's answer
  newBuySet      \* StepResult.new_buy_set, the next step's prev_buy_set

vars == <<running, in, exposure, pendingSells, pendingBuys, submitted, newBuySet>>

OrderStatus == {"accepted", "filled", "partially_filled", "rejected", "canceled"}

(* held: symbols the caller's snapshot holds; heldQty: lots the broker     *)
(* reports when the loop starts (a later read); band: the caller passes    *)
(* the previous step's BUY set (the backtest) or None (paper and live);    *)
(* warm, ratio, bear: what SPY's trailing returns say to the overlay.      *)
InputType ==
  [held: SUBSET Symbols, heldQty: [Symbols -> Nat], score: [Symbols -> 0..ScoreFull],
   price: [Symbols -> Nat], vix: Nat, equity: Int,
   warm: BOOLEAN, ratio: Nat, bear: BOOLEAN,
   sectors: [Buckets -> Nat], band: BOOLEAN]

OrderType ==
  [symbol: Symbols, side: {"buy", "sell"}, qty: Nat \ {0}, sized: Nat,
   status: OrderStatus]

(* What the locals stand at when no call is running. *)
NoInput ==
  [held |-> {}, heldQty |-> [s \in Symbols |-> 0], score |-> [s \in Symbols |-> 0],
   price |-> [s \in Symbols |-> 0], vix |-> 0, equity |-> 0,
   warm |-> FALSE, ratio |-> 0, bear |-> FALSE,
   sectors |-> [b \in Buckets |-> 0], band |-> FALSE]

ASSUME StatusAssumption == ResultStatuses \subseteq OrderStatus

-----------------------------------------------------------------------------
(* Lots a BUY of `sized` buys; the code's fractional shares are whole lots *)
(* here, and an order below one lot counts as qty <= 0.                    *)
Lots(equity, sized, price) == (equity * sized) \div (Full * price)

SizeOf(s) == GrantedSize(EntrySize(in.score[s]), exposure[Bucket[s]], in.vix)

SizedOf(s) == Scaled(SizeOf(s), RegimeScale(in.warm, in.ratio, in.bear))

SendableAnyLots(s) == SizeOf(s) > 0 /\ in.price[s] > 0

Sendable(s) ==
  /\ SizeOf(s) > 0
  /\ in.price[s] > 0
  /\ Lots(in.equity, SizedOf(s), in.price[s]) > 0

(* Sector exposure after a BUY: only a rejected one leaves the room free.   *)
GrownAlways(s, status) == [exposure EXCEPT ![Bucket[s]] = @ + SizedOf(s)]

Grown(s, status) ==
  IF status = "rejected" THEN exposure
  ELSE [exposure EXCEPT ![Bucket[s]] = @ + SizedOf(s)]

Order(s, side, qty, sized, status) ==
  [symbol |-> s, side |-> side, qty |-> qty, sized |-> sized, status |-> status]

-----------------------------------------------------------------------------
Init ==
  /\ running = FALSE
  /\ in = NoInput
  /\ exposure = NoInput.sectors
  /\ pendingSells = {} /\ pendingBuys = {}
  /\ submitted = {} /\ newBuySet = {}

(* The head of the step: signals, tolerance band, regime scale and the two *)
(* broker reads, up to the order loop.                                     *)
BeginStep ==
  /\ ~running /\ running' = TRUE
  /\ in' \in Inputs /\ in' \in InputType
  /\ LET entries == EntrySignals(in'.held, in'.score)
         dropped == in'.band /\ BandSuppresses(entries, newBuySet)
         buys    == IF dropped THEN {} ELSE entries
     IN  pendingBuys' = buys /\ newBuySet' = buys
  /\ pendingSells' = ExitSignals(in'.held, in'.score)
  /\ exposure' = in'.sectors
  /\ submitted' = {}

(* A SELL closes what the broker reports; a symbol it no longer reports is *)
(* skipped.                                                                *)
SendSell(s, status) ==
  /\ s \in pendingSells /\ in.heldQty[s] > 0
  /\ pendingSells' = pendingSells \ {s}
  /\ submitted' = submitted \cup {Order(s, "sell", in.heldQty[s], 0, status)}
  /\ UNCHANGED <<running, in, exposure, pendingBuys, newBuySet>>

SkipSell(s) ==
  /\ s \in pendingSells /\ in.heldQty[s] = 0
  /\ pendingSells' = pendingSells \ {s}
  /\ UNCHANGED <<running, in, exposure, pendingBuys, submitted, newBuySet>>

(* A BUY the risk rules grant.                                             *)
SendBuy(s, status) ==
  /\ pendingSells = {} /\ s \in pendingBuys
  /\ Sendable(s)
  /\ pendingBuys' = pendingBuys \ {s}
  /\ exposure' = Grown(s, status)
  /\ submitted' = submitted \cup
       {Order(s, "buy", Lots(in.equity, SizedOf(s), in.price[s]), SizedOf(s), status)}
  /\ UNCHANGED <<running, in, pendingSells, newBuySet>>

SkipBuy(s) ==
  /\ pendingSells = {} /\ s \in pendingBuys
  /\ ~Sendable(s)
  /\ pendingBuys' = pendingBuys \ {s}
  /\ UNCHANGED <<running, in, exposure, pendingSells, submitted, newBuySet>>

(* The loop is done: StepResult goes back to the caller. *)
EndStep ==
  /\ running /\ running' = FALSE
  /\ pendingSells = {} /\ pendingBuys = {}
  /\ in' = NoInput /\ exposure' = NoInput.sectors /\ submitted' = {}
  /\ UNCHANGED <<pendingSells, pendingBuys, newBuySet>>

Next ==
  \/ BeginStep \/ EndStep
  \/ \E s \in Symbols :
       \/ SkipSell(s) \/ SkipBuy(s)
       \/ \E status \in ResultStatuses : SendSell(s, status) \/ SendBuy(s, status)

Spec == Init /\ [][Next]_vars

-----------------------------------------------------------------------------
TypeOK ==
  /\ running \in BOOLEAN
  /\ in \in InputType
  /\ exposure \in [Buckets -> Nat]
  /\ pendingSells \subseteq Symbols /\ pendingBuys \subseteq Symbols
  /\ submitted \subseteq OrderType
  /\ newBuySet \subseteq Symbols

(* What one order can add above the cap when the overlay scales sizes up   *)
(* after the risk rules have clipped them; 0 when it never scales up.      *)
LeverageExcess ==
  CeilDiv(MaxSingleOrder * (Larger(ScaleOne, ScaleHigh) - ScaleOne), ScaleOne)

(* However many BUYs a step sends into a sector, its exposure ends at the  *)
(* cap, or where the snapshot already was, plus at most the excess of a    *)
(* single order: a bucket past the cap admits no further BUY               *)
(* (risk.py:104-121, runner.py:114-158).                                   *)
SectorOvershootBounded ==
  \A b \in Buckets :
    MaxSectorConcentration < Full =>
      exposure[b] <= Larger(MaxSectorConcentration, in.sectors[b]) + LeverageExcess

(* risk.py:97-98 read literally: after a BUY the sector exposure is at or  *)
(* below max_sector_concentration, unless the snapshot was already above.  *)
SectorCapHolds ==
  \A b \in Buckets :
    MaxSectorConcentration < Full =>
      exposure[b] <= Larger(MaxSectorConcentration, in.sectors[b])

(* Sector room is used by exactly the BUYs that were not rejected          *)
(* (runner.py:155-158): nothing is counted twice, dropped, or freed by a   *)
(* SELL.                                                                   *)
ExposureAccounted ==
  \A b \in Buckets :
    exposure[b] = in.sectors[b] +
      MapThenSumSet(LAMBDA o : o.sized,
        {o \in submitted : o.side = "buy" /\ o.status # "rejected" /\ Bucket[o.symbol] = b})

(* A step never sends two orders for one symbol, never buys what its       *)
(* caller's snapshot holds, and closes a position whole                    *)
(* (signal.py:7-9, runner.py:143-150).                                     *)
OneOrderPerSymbol ==
  /\ \A o \in submitted :
       /\ o.symbol \notin pendingSells \cup pendingBuys
       /\ o.side = "buy" => o.symbol \notin in.held
       /\ o.side = "sell" => o.symbol \in in.held /\ o.qty = in.heldQty[o.symbol]
  /\ \A o, p \in submitted : o.symbol = p.symbol => o = p
=============================================================================
