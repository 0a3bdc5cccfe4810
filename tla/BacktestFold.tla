---------------------------- MODULE BacktestFold ----------------------------
(***************************************************************************)
(* One walk-forward fold of the backtest (Backtester._run_fold in          *)
(* bloasis/backtest/engine.py): for every trading day a strategy step on   *)
(* rebalance days, with SimulatedPortfolio as its executor, then stop      *)
(* levels on the day's bar, then marking to the day's closes.              *)
(*                                                                         *)
(* The fold closes StrategyStep: the input of a step is what the fold      *)
(* computes from its panel and positions, an order's status is what the    *)
(* simulated fill decides.  The book changes while the step runs; levels   *)
(* and the log come after it, from the list of answers the step returns.   *)
(***************************************************************************)
EXTENDS StrategyStep, SimPortfolio, Sequences

CONSTANTS
  Panels,         \* the market histories a fold may replay
  Settings,       \* [fillMode, rebalanceDays]: execution.fill_mode and
                  \* signal.rebalance_days
  LastDay,        \* trading days of the test window are 1..LastDay
  MinBars,        \* MIN_BARS_FOR_FEATURES
  InitialCapital

VARIABLES
  panel, setting,   \* what the fold replays, fixed at its start
  day, phase,       \* position of the day loop
  pos, books,       \* SimulatedPortfolio
  pendingStops,     \* positions check_stops has not reached
  results,          \* the executor's answers in order: step.submitted, then
                    \* what check_stops returns
  logged,           \* how many of them have been gone through
  fillLog           \* fold_fills, with the day of the bar each one filled on

foldVars == <<panel, setting, day, phase, pos, books, pendingStops, results, logged, fillLog>>
allVars == <<vars, foldVars>>

Phases == {"step", "orders", "log", "stops"}

Regimes == [warm: BOOLEAN, ratio: Nat, bear: BOOLEAN]

(* bars: by symbol, the days with a bar; score: by symbol, the days on     *)
(* which it is in the universe and has features, with its score.           *)
IsPanel(p) ==
  \A s \in Symbols :
    /\ DOMAIN p.bars[s] \subseteq Nat
    /\ \A d \in DOMAIN p.bars[s] : p.bars[s][d] \in BarType
    /\ \A d \in DOMAIN p.score[s] : p.score[s][d] \in 0..ScoreFull

ASSUME FoldAssumption ==
  /\ Settings \subseteq [fillMode: {"market", "limit_with_fallback"},
                           rebalanceDays: Nat \ {0}]
  /\ LastDay \in Nat /\ MinBars \in Nat \ {0}
  /\ InitialCapital \in Nat
  /\ {"filled", "rejected"} \subseteq ResultStatuses
  /\ \A p \in Panels :
       /\ IsPanel(p)
       /\ \A d \in 1..LastDay : p.vix[d] \in Nat /\ p.regime[d] \in Regimes

-----------------------------------------------------------------------------
(* What the fold derives from positions and panel.                         *)
Held == {s \in Symbols : pos[s].lots > 0}

TotalEquity == books.cash + MapThenSumSet(LAMBDA s : pos[s].lots * pos[s].last, Held)

SectorConcentrations ==
  LET equity == TotalEquity
      value(b) == MapThenSumSet(LAMBDA s : pos[s].lots * pos[s].last,
                                {s \in Held : Bucket[s] = b})
  IN  [b \in Buckets |-> IF equity <= 0 THEN 0 ELSE (Full * value(b)) \div equity]

(* _build_candidates: symbols listed and scorable on d with enough history; *)
(* a cross-section of fewer than two yields no candidate at all.           *)
CandidatesOn(d) ==
  LET ready == {s \in Symbols :
                  /\ d \in DOMAIN panel.score[s]
                  /\ Cardinality({e \in DOMAIN panel.bars[s] : e <= d}) >= MinBars}
  IN  IF Cardinality(ready) < 2 THEN {} ELSE ready

CloseOn(s, d) ==
  LET closes == LastClose(panel.bars[s], d)
  IN  IF closes = {} THEN 0 ELSE CHOOSE c \in closes : TRUE

HeldValues == [s \in Symbols |-> pos[s].lots * pos[s].last]
HeldQuantities == [s \in Symbols |-> pos[s].lots]

StepInput(d) ==
  [held |-> Held, heldQty |-> HeldQuantities,
   score |-> [s \in Symbols |-> IF s \in CandidatesOn(d) THEN panel.score[s][d] ELSE 0],
   price |-> [s \in Symbols |-> CloseOn(s, d)],
   vix |-> panel.vix[d], equity |-> TotalEquity,
   warm |-> panel.regime[d].warm, ratio |-> panel.regime[d].ratio,
   bear |-> panel.regime[d].bear,
   sectors |-> SectorConcentrations, band |-> d > 1]

(* An OrderResult with its order and the close its signal's levels are     *)
(* taken from; a stop's fill has no signal.                                *)
Fill(s, side, qty, price, bar, close, via) ==
  [symbol |-> s, side |-> side, status |-> "filled", qty |-> qty, price |-> price,
   bar |-> bar, close |-> close, via |-> via]

Refusal(s, side) ==
  [symbol |-> s, side |-> side, status |-> "rejected", qty |-> 0, price |-> 0,
   bar |-> day, close |-> 0, via |-> "step"]

Row(r) ==
  [symbol |-> r.symbol, side |-> r.side, qty |-> r.qty, price |-> r.price,
   signalled |-> day, bar |-> r.bar, via |-> r.via]

-----------------------------------------------------------------------------
FoldInit ==
  /\ Init
  /\ panel \in Panels /\ setting \in Settings
  /\ day = 1 /\ phase = "step"
  /\ pos = [s \in Symbols |-> NoPosition]
  /\ books = [cash |-> InitialCapital, realized |-> 0, trades |-> 0,
              wins |-> 0, losses |-> 0, entryFees |-> 0]
  /\ pendingStops = {} /\ results = <<>> /\ logged = 0 /\ fillLog = <<>>

(* A rebalance day calls the strategy step; other days go to the stops.    *)
StartDay ==
  /\ phase = "step" /\ day <= LastDay
  /\ IF (day - 1) % setting.rebalanceDays = 0
     THEN /\ in' = StepInput(day) /\ BeginStep
          /\ phase' = "orders" /\ UNCHANGED pendingStops
     ELSE /\ phase' = "stops" /\ pendingStops' = Held /\ UNCHANGED vars
  /\ UNCHANGED <<panel, setting, day, pos, books, results, logged, fillLog>>

(* place_market_order on a SELL: filled at the next bar, or rejected.      *)
PlaceSell(s) ==
  LET fills == SellFill(panel.bars[s], day)
      qty   == in.heldQty[s]
  IN  /\ phase = "orders"
      /\ \/ /\ fills = {} /\ SendSell(s, "rejected")
            /\ results' = Append(results, Refusal(s, "sell"))
            /\ UNCHANGED <<pos, books>>
         \/ \E f \in fills :
              /\ SendSell(s, "filled")
              /\ books' = Credited(books, pos[s], qty, f.price, Fees(qty, f.price))
              /\ pos' = [pos EXCEPT ![s] = Reduced(@, qty, f.price)]
              /\ results' = Append(results,
                              Fill(s, "sell", qty, f.price, f.day, in.price[s], "step"))
      /\ UNCHANGED <<panel, setting, day, phase, pendingStops, logged, fillLog>>

(* place_market_order on a BUY: also rejected when cash does not cover it. *)
CoversByEquity(qty, price) == qty * price + Fees(qty, price) <= TotalEquity
Covers(qty, price) == qty * price + Fees(qty, price) <= books.cash

PlaceBuy(s) ==
  LET fills == BuyFill(panel.bars[s], day, setting.fillMode)
      qty   == Lots(in.equity, SizedOf(s), in.price[s])
  IN  /\ phase = "orders"
      /\ \/ /\ SendBuy(s, "rejected")
            /\ \A f \in fills : ~Covers(qty, f.price)
            /\ results' = Append(results, Refusal(s, "buy"))
            /\ UNCHANGED <<pos, books>>
         \/ /\ SendBuy(s, "filled")
            /\ \E f \in fills :
                 /\ Covers(qty, f.price)
                 /\ books' = Paid(books, qty, f.price)
                 /\ pos' = [pos EXCEPT ![s] = Added(@, qty, f.price)]
                 /\ results' = Append(results,
                                 Fill(s, "buy", qty, f.price, f.day, in.price[s], "step"))
      /\ UNCHANGED <<panel, setting, day, phase, pendingStops, logged, fillLog>>

DropSignal(s) ==
  /\ phase = "orders" /\ (SkipSell(s) \/ SkipBuy(s))
  /\ UNCHANGED foldVars

(* The step returns with the answers to its orders.                        *)
FinishStep ==
  /\ phase = "orders" /\ EndStep
  /\ phase' = "log"
  /\ UNCHANGED <<panel, setting, day, pos, books, pendingStops, results, logged, fillLog>>

(* One turn of the loop over step.submitted: an answer that is not a fill  *)
(* is passed over; a filled BUY gets its signal's levels; a fill, of       *)
(* either side, gets its row.                                              *)
AttachAccepted(r) == r.status = "accepted" /\ r.side = "buy"
Attaches(r) == r.status = "filled" /\ r.side = "buy"

RowForBuysOnly(r) == r.status = "filled" /\ r.side = "buy"
GetsRow(r) == r.status = "filled"

LogOrder ==
  LET r == results[logged + 1]
  IN  /\ phase = "log" /\ logged < Len(results)
      /\ logged' = logged + 1
      /\ pos' = IF Attaches(r) /\ pos[r.symbol].lots > 0
                THEN [pos EXCEPT ![r.symbol].levels = LevelsAt(r.close)] ELSE pos
      /\ fillLog' = IF GetsRow(r) THEN Append(fillLog, Row(r)) ELSE fillLog
      /\ UNCHANGED <<vars, panel, setting, day, phase, books, pendingStops, results>>

StartStops ==
  /\ phase = "log" /\ logged = Len(results)
  /\ phase' = "stops" /\ pendingStops' = Held
  /\ results' = <<>> /\ logged' = 0
  /\ UNCHANGED <<vars, panel, setting, day, pos, books, fillLog>>

(* check_stops on one position, against the bar of the current day.        *)
TouchedLevels(s) ==
  IF day \in DOMAIN panel.bars[s] THEN LevelHit(pos[s], panel.bars[s][day]) ELSE {}

CheckStop(s) ==
  /\ phase = "stops" /\ s \in pendingStops
  /\ pendingStops' = pendingStops \ {s}
  /\ \/ TouchedLevels(s) = {} /\ UNCHANGED <<pos, books, results>>
     \/ \E level \in TouchedLevels(s) :
          LET qty == pos[s].lots
          IN  /\ books' = Credited(books, pos[s], qty, StopPrice(level), 0)
              /\ pos' = [pos EXCEPT ![s] = Reduced(@, qty, StopPrice(level))]
              /\ results' = Append(results,
                              Fill(s, "sell", qty, StopPrice(level), day, 0, "stop"))
  /\ UNCHANGED <<vars, panel, setting, day, phase, logged, fillLog>>

(* The fills check_stops returned go to the log, every one of them.        *)
LogStop ==
  /\ phase = "stops" /\ pendingStops = {} /\ logged < Len(results)
  /\ logged' = logged + 1
  /\ fillLog' = Append(fillLog, Row(results[logged + 1]))
  /\ UNCHANGED <<vars, panel, setting, day, phase, pos, books, pendingStops, results>>

(* Mark to the last closes and go to the next day.                         *)
MarkDay ==
  /\ phase = "stops" /\ pendingStops = {} /\ logged = Len(results)
  /\ pos' = [s \in Symbols |->
               IF pos[s].lots > 0 /\ LastClose(panel.bars[s], day) # {}
               THEN [pos[s] EXCEPT !.last = CloseOn(s, day)] ELSE pos[s]]
  /\ day' = day + 1 /\ phase' = "step"
  /\ results' = <<>> /\ logged' = 0
  /\ UNCHANGED <<vars, panel, setting, books, pendingStops, fillLog>>

(* The window is over: the fold returns its result.                        *)
FoldDone == day > LastDay /\ UNCHANGED allVars

FoldNext ==
  \/ StartDay \/ FinishStep \/ LogOrder \/ StartStops \/ LogStop \/ MarkDay \/ FoldDone
  \/ \E s \in Symbols : PlaceSell(s) \/ PlaceBuy(s) \/ DropSignal(s) \/ CheckStop(s)

FoldSpec == FoldInit /\ [][FoldNext]_allVars

-----------------------------------------------------------------------------
FoldTypeOK ==
  /\ panel \in Panels /\ setting \in Settings
  /\ day \in 1..(LastDay + 1) /\ phase \in Phases
  /\ pos \in [Symbols -> PositionType]
  /\ books \in BooksType
  /\ pendingStops \subseteq Symbols
  /\ running <=> phase = "orders"

(* Long-only, unlevered: no order sequence spends cash that is not there,  *)
(* although the step sizes each BUY on total equity (portfolio.py:208-222).*)
CashCovered == books.cash >= 0

(* Cash and the cost of open positions are the initial capital plus        *)
(* realized profit, less the entry fees that realized_pnl leaves out:      *)
(* apply (portfolio.py:364-431) never creates or loses money.              *)
MoneyConserved ==
  books.cash + MapThenSumSet(LAMBDA s : pos[s].cost, Held) + books.entryFees
    = InitialCapital + books.realized

(* When a position is sold the portfolio holds what the order asks for, so *)
(* apply's ValueError (portfolio.py:401-405) is never raised, although the *)
(* quantities were read before the loop started.                           *)
SellsCovered ==
  phase = "orders" => \A s \in pendingSells : in.heldQty[s] <= pos[s].lots

(* When the stops of a day are checked every open position is under a stop *)
(* and a target: no fill escapes attach_levels, which runs after the order *)
(* loop and only knows the answers (engine.py:300-311).                    *)
HeldAreProtected ==
  phase \notin {"orders", "log"} => \A s \in Held : pos[s].levels # {}

(* The fill log persisted as `trades`, put together after the book has     *)
(* changed from the answers of the step and of the stops                   *)
(* (engine.py:300-334), explains the book at the end of every day: it has  *)
(* a row per trade the portfolio counted, and its buys less its sells are  *)
(* the open positions.  A fill passed over, logged twice or logged with    *)
(* another quantity than the one applied breaks it.                        *)
FillsOf(s, side) ==
  {i \in DOMAIN fillLog : fillLog[i].symbol = s /\ fillLog[i].side = side}

LogExplainsBook ==
  phase = "step" =>
    /\ books.trades = Len(fillLog)
    /\ \A s \in Symbols :
         pos[s].lots = MapThenSumSet(LAMBDA i : fillLog[i].qty, FillsOf(s, "buy"))
                       - MapThenSumSet(LAMBDA i : fillLog[i].qty, FillsOf(s, "sell"))

(* The fill of an entry the i-th log row, a sell, closes.                  *)
EntriesBefore(i) ==
  {j \in 1..(i - 1) : fillLog[j].symbol = fillLog[i].symbol /\ fillLog[j].side = "buy"}

(* In market mode a strategy SELL never executes on a bar earlier than the *)
(* entry it closes, although the entry is booked before its bar is reached *)
(* (portfolio.py:255-259, 319-322).                                        *)
MarketExitsFollowEntries ==
  setting.fillMode = "market" =>
    \A i \in DOMAIN fillLog :
      fillLog[i].side = "sell" /\ fillLog[i].via = "step" =>
        \A j \in EntriesBefore(i) : fillLog[j].bar <= fillLog[i].bar

(* engine.py:303-305: levels are attached so that stops "can fire on       *)
(* subsequent bars"; a stop that executes on a bar before its entry's fill *)
(* bar closes a position that does not exist yet.                          *)
StopsFollowEntries ==
  \A i \in DOMAIN fillLog :
    fillLog[i].via = "stop" => \A j \in EntriesBefore(i) : fillLog[j].bar <= fillLog[i].bar
=============================================================================
