---------------------------- MODULE SimPortfolio ----------------------------
(***************************************************************************)
(* SimulatedPortfolio (bloasis/backtest/portfolio.py) as operators: where  *)
(* an order signalled on a day fills in a symbol's bars, what applying a   *)
(* fill does to a position and to the books, and when a stop is touched.   *)
(*                                                                         *)
(* The bars of a symbol are a function from the days it has a bar for to   *)
(* [open, high, low, close].  A fill that may not exist is a set of at     *)
(* most one [day, price].                                                  *)
(***************************************************************************)
EXTENDS Integers, FiniteSets

CONSTANTS
  BpsFull,              \* 10_000 basis points
  MarketSlippageBps,    \* execution.market_slippage_bps
  LimitOffsetBps,       \* execution.limit_offset_bps
  LimitTimeoutBars,     \* execution.limit_timeout_bars
  FeesBps,              \* execution.fees_bps
  StopWidth, TakeWidth  \* distance of the stop and target from the entry close

(* The schema only bounds the rates from below; a rate above 100%, at which *)
(* a sale would cost money, is left out.                                   *)
ASSUME ExecutionAssumption ==
  /\ BpsFull \in Nat \ {0}
  /\ MarketSlippageBps \in 0..BpsFull /\ LimitOffsetBps \in 0..BpsFull
  /\ LimitTimeoutBars \in Nat /\ FeesBps \in 0..BpsFull
  /\ StopWidth \in Nat /\ TakeWidth \in Nat

BarType == [open: Nat, high: Nat, low: Nat, close: Nat]

-----------------------------------------------------------------------------
BpsOf(amount, bps) == (amount * bps) \div BpsFull
Fees(qty, price) == BpsOf(qty * price, FeesBps)

(* The days after d with a bar, and the n-th of a set of days.             *)
Forward(bars, d) == {e \in DOMAIN bars : e > d}
Nth(days, n) == {e \in days : Cardinality({x \in days : x <= e}) = n}

(* The last day up to d with a bar, and its close: empty when there is none. *)
LastBar(bars, d) ==
  {e \in DOMAIN bars : e <= d /\ \A x \in DOMAIN bars : x <= d => x <= e}
LastClose(bars, d) == {bars[e].close : e \in LastBar(bars, d)}

AtOpen(bars, days) ==
  {[day |-> e, price |-> bars[e].open + BpsOf(bars[e].open, MarketSlippageBps)] : e \in days}

(* _simulate_buy_fill: the next open in market mode; otherwise the first   *)
(* bar of the limit window that trades down to the limit, else the open of *)
(* the bar after the window.                                               *)
Window == IF LimitTimeoutBars < 1 THEN 1 ELSE LimitTimeoutBars

LimitHits(bars, d) ==
  LET days   == Forward(bars, d)
      inside == {e \in days : Cardinality({x \in days : x <= e}) <= Window}
      limits == {c - BpsOf(c, LimitOffsetBps) : c \in LastClose(bars, d)}
  IN  {h \in [day: inside, price: limits] : bars[h.day].low <= h.price}

LimitBuy(bars, d) ==
  LET hits == LimitHits(bars, d)
  IN  IF hits # {} THEN {h \in hits : \A g \in hits : h.day <= g.day}
      ELSE AtOpen(bars, Nth(Forward(bars, d), Window + 1))

BuyFill(bars, d, mode) ==
  IF LastBar(bars, d) = {} THEN {}
  ELSE IF mode = "market" THEN AtOpen(bars, Nth(Forward(bars, d), 1))
  ELSE LimitBuy(bars, d)

(* _simulate_sell_fill: the next open, less slippage.                      *)
SellFillSameDay(bars, d) ==
  {[day |-> e, price |-> bars[e].close] : e \in LastBar(bars, d)}

SellFill(bars, d) ==
  {[day |-> e, price |-> bars[e].open - BpsOf(bars[e].open, MarketSlippageBps)] :
     e \in Nth(Forward(bars, d), 1)}

-----------------------------------------------------------------------------
(* A position keeps its cost (quantity times avg_cost); 0 lots is no       *)
(* position.  `levels` is empty until attach_levels.                       *)
NoPosition == [lots |-> 0, cost |-> 0, last |-> 0, levels |-> {}]

PositionType == [lots: Nat, cost: Nat, last: Nat, levels: SUBSET [stop: Int, take: Nat]]

(* The cash side: cash, realized_pnl_total, trade_count, win_count,        *)
(* loss_count, and the entry fees paid, which realized_pnl leaves out      *)
(* (kept here only to state the accounting identity).                      *)
BooksType == [cash: Int, realized: Int, trades: Nat, wins: Nat, losses: Nat, entryFees: Nat]

(* SimulatedPortfolio.apply.                                               *)
Added(p, qty, price) ==
  [p EXCEPT !.lots = @ + qty, !.cost = @ + qty * price, !.last = price]

Paid(books, qty, price) ==
  [books EXCEPT !.cash = @ - (qty * price + Fees(qty, price)), !.trades = @ + 1,
                !.entryFees = @ + Fees(qty, price)]

CostOf(p, qty) == IF qty = p.lots THEN p.cost ELSE (p.cost * qty) \div p.lots

ReducedAtPrice(p, qty, price) == [p EXCEPT !.lots = @ - qty, !.cost = @ - qty * price]

Reduced(p, qty, price) ==
  IF qty = p.lots THEN NoPosition
  ELSE [p EXCEPT !.lots = @ - qty, !.cost = @ - CostOf(p, qty), !.last = price]

CreditedGross(books, p, qty, price, fees) ==
  [books EXCEPT !.cash = @ + qty * price - fees, !.trades = @ + 1,
                !.realized = @ + qty * price - CostOf(p, qty)]

Credited(books, p, qty, price, fees) ==
  LET gain == qty * price - CostOf(p, qty) - fees
  IN  [books EXCEPT !.cash = @ + qty * price - fees, !.trades = @ + 1,
                    !.realized = @ + gain,
                    !.wins = @ + (IF gain > 0 THEN 1 ELSE 0),
                    !.losses = @ + (IF gain < 0 THEN 1 ELSE 0)]

(* check_stops on one bar: the stop before the target, at the level less   *)
(* slippage.                                                               *)
LevelHit(p, bar) ==
  LET touched == {l.stop : l \in {x \in p.levels : bar.low <= x.stop}}
      targets == {l.take : l \in {x \in p.levels : bar.high >= x.take}}
  IN  IF touched # {} THEN touched ELSE targets

StopPrice(level) == level - BpsOf(level, MarketSlippageBps)

LevelsAt(close) == {[stop |-> close - StopWidth, take |-> close + TakeWidth]}
=============================================================================
