---------------------------- MODULE PaperSession ----------------------------
(***************************************************************************)
(* Paper trading under a named session: the commands `trade paper` and     *)
(* `paper reconcile` (bloasis/cli.py), the daily wrapper                   *)
(* scripts/paper-rotate-cron.sh, the Alpaca adapter                        *)
(* (bloasis/broker/alpaca.py) and the rows they keep in paper_orders       *)
(* (bloasis/storage/writers.py), against a broker that works on its own    *)
(* time.                                                                   *)
(*                                                                         *)
(* A run is one execution of a command.  It reads the broker, submits one  *)
(* order per signal, and only then writes its rows; between any two of its *)
(* steps the broker, or another run, may move, and the run may crash.      *)
(* Scores stand as "enter", "hold" or "exit"; sizing and risk are modelled *)
(* in StrategyStep, so a BUY here is for Target lots.                      *)
(***************************************************************************)
EXTENDS Integers, FiniteSets, FiniteSetsExt

CONSTANTS
  Symbols,
  Runs,       \* executions, each with its own command
  Command,    \* [Runs -> {"rotate", "trade", "reconcile"}]
  Signals,    \* the score maps a day's closes may give
  Target,     \* lots of one BUY
  WrapperHours, \* states of the market in which the wrapper may be started
  LastNight,  \* bound: nights between the sessions of the market
  Faults      \* SUBSET {"crash", "lost"}: what may go wrong with a run

Commands == {"rotate", "trade", "reconcile"}

ASSUME PaperAssumption ==
  /\ IsFiniteSet(Runs) /\ IsFiniteSet(Symbols)
  /\ Command \in [Runs -> Commands]
  /\ Signals \subseteq [Symbols -> {"enter", "hold", "exit"}]
  /\ Target \in Nat \ {0} /\ LastNight \in Nat
  /\ Faults \subseteq {"crash", "lost"}
  /\ WrapperHours \subseteq {"open", "closed"}

VARIABLES
  market,     \* "open" or "closed"
  night,      \* closes seen so far
  score,      \* what the latest closes say of each symbol
  orders,     \* the broker's book: client order id -> order
  positions,  \* the broker's positions, in lots
  session,    \* TRUE once paper_sessions has the row
  rows,       \* paper_orders: client order id -> row
  snapshots,  \* runs with a row in paper_equity_snapshots
  run         \* the local state of each run

paperVars == <<market, night, score, orders, positions, session, rows, snapshots, run>>

(* client_order_id: unique per run and symbol, as a step sends at most one *)
(* order for a symbol and its id ends in a random part.                    *)
Ids == Runs \X Symbols

BrokerStatus ==
  {"none", "accepted", "partially_filled", "filled", "pending_cancel", "canceled", "expired"}
RowStatus == {"none", "accepted", "partially_filled", "filled", "rejected", "canceled", "expired"}

OpenStatus == {"accepted", "partially_filled", "pending_cancel"}
ReconcileTerminal == {"filled", "rejected", "canceled", "expired"}

NoOrder == [side |-> "buy", qty |-> 0, filled |-> 0, status |-> "none"]
NoRow == [status |-> "none", filled |-> 0]

Steps ==
  {"idle", "cancel", "reconcile", "read", "quantities", "submit", "persist", "done", "failed"}

(* midday: the wrapper started while the market was open; cancels: its     *)
(* cancel loop; todo, fetched: _reconcile_session;                         *)
(* score, sells, buys, quantity, sent: _execute_against_broker and the     *)
(* strategy step it calls.  sent: the orders submitted with the broker's   *)
(* answer; status "none": the answer is still awaited.                     *)
Fresh ==
  [step |-> "idle", midday |-> FALSE, score |-> [s \in Symbols |-> "hold"], cancels |-> {}, todo |-> {},
   fetched |-> {}, sells |-> {}, buys |-> {}, quantity |-> [s \in Symbols |-> 0], sent |-> {}]

LocalsType ==
  [step: Steps, midday: BOOLEAN, score: [Symbols -> {"enter", "hold", "exit"}],
   cancels: SUBSET Ids, todo: SUBSET Ids,
   fetched: SUBSET [id: Ids, status: RowStatus, filled: Nat],
   sells: SUBSET Symbols, buys: SUBSET Symbols, quantity: [Symbols -> Int],
   sent: SUBSET [symbol: Symbols, status: RowStatus, filled: Nat]]

(* A step taken by a run changes its own locals only.                      *)
Local(r, locals) == run' = [run EXCEPT ![r] = locals]
Goto(r, step) == Local(r, [run[r] EXCEPT !.step = step])

OpenOrders == {i \in Ids : orders[i].status \in OpenStatus}
OpenSide(s, side) == {i \in OpenOrders : i[2] = s /\ orders[i].side = side}
Remaining(i) == orders[i].qty - orders[i].filled

(* A run that has started and not ended.                                   *)
Active == {r \in Runs : run[r].step \notin {"idle", "done", "failed"}}

-----------------------------------------------------------------------------
(* The broker (external): DAY market orders, filled lot by lot while the   *)
(* market is open, at most what the account holds on a sell.  A wrapper    *)
(* that starts on schedule does so hours before the open and cancels in    *)
(* seconds, so the market does not open under its cancel loop.             *)
OpenMarket ==
  /\ market = "closed" /\ market' = "open"
  /\ \A r \in Runs : run[r].step = "cancel" => run[r].midday
  /\ UNCHANGED <<night, score, orders, positions, session, rows, snapshots, run>>

(* At the close DAY orders end, and the day's bar gives new scores.        *)
Ended(order) ==
  CASE order.status \notin OpenStatus -> order
    [] order.status = "pending_cancel" -> [order EXCEPT !.status = "canceled"]
    [] OTHER -> [order EXCEPT !.status = "expired"]

CloseMarket ==
  /\ market = "open" /\ market' = "closed"
  /\ night < LastNight /\ night' = night + 1
  /\ score' \in Signals
  /\ orders' = [i \in Ids |-> Ended(orders[i])]
  /\ UNCHANGED <<positions, session, rows, snapshots, run>>

FilledStatus(order) ==
  IF order.filled + 1 = order.qty THEN "filled"
  ELSE IF order.status = "pending_cancel" THEN "pending_cancel" ELSE "partially_filled"

OneMoreLot(order) ==
  [side |-> order.side, qty |-> order.qty,
   filled |-> order.filled + 1, status |-> FilledStatus(order)]

Fill(i) ==
  /\ market = "open" /\ i \in OpenOrders
  /\ orders' = [orders EXCEPT ![i] = OneMoreLot(orders[i])]
  /\ positions' = [positions EXCEPT ![i[2]] = @ + (IF orders[i].side = "buy" THEN 1 ELSE -1)]
  /\ UNCHANGED <<market, night, score, session, rows, snapshots, run>>

CancelTakesEffect(i) ==
  /\ orders[i].status = "pending_cancel"
  /\ orders' = [orders EXCEPT ![i].status = "canceled"]
  /\ UNCHANGED <<market, night, score, positions, session, rows, snapshots, run>>

-----------------------------------------------------------------------------
(* The wrapper: cancel every order still open, then trade.                 *)

(* launchd starts no second copy of a job that still runs.                 *)
StaleOrdersRecorded == {i \in OpenOrders : rows[i].status # "none"}
StaleOrders == OpenOrders

StartRotate(r) ==
  /\ run[r].step = "idle" /\ Command[r] = "rotate" /\ market \in WrapperHours
  /\ \A q \in Active : Command[q] # "rotate"
  /\ Local(r, [Fresh EXCEPT !.step = "cancel", !.midday = (market = "open"),
                            !.cancels = StaleOrders])
  /\ UNCHANGED <<market, night, score, orders, positions, session, rows, snapshots>>

(* cancel_order_by_id is a request: while the market is open the order may *)
(* fill before it takes effect.                                            *)
CancelOne(r, i) ==
  /\ run[r].step = "cancel" /\ i \in run[r].cancels /\ i \in OpenOrders
  /\ Local(r, [run[r] EXCEPT !.cancels = @ \ {i}])
  /\ orders' = [orders EXCEPT ![i].status = IF market = "open" THEN "pending_cancel" ELSE "canceled"]
  /\ UNCHANGED <<market, night, score, positions, session, rows, snapshots>>

(* The order is no longer open: the request raises and `set -e` ends the   *)
(* wrapper before it trades.                                               *)
CancelRaises(r, i) ==
  /\ run[r].step = "cancel" /\ i \in run[r].cancels /\ i \notin OpenOrders
  /\ Goto(r, "failed")
  /\ UNCHANGED <<market, night, score, orders, positions, session, rows, snapshots>>

-----------------------------------------------------------------------------
(* `trade paper --session` and `paper reconcile`: build candidates from    *)
(* the closes at hand, resolve the session, select the rows to reconcile.  *)
RowsAccepted == {i \in Ids : rows[i].status = "accepted"}
RowsToReconcile == {i \in Ids : rows[i].status \notin ReconcileTerminal \cup {"none"}}

TradeStarts(r) ==
  \/ run[r].step = "idle" /\ Command[r] = "trade"
  \/ run[r].step = "cancel" /\ run[r].cancels = {}

(* Fewer than two symbols have features: exit code 1 before anything is    *)
(* read from the broker or written.                                        *)
NoCandidates(r) ==
  /\ TradeStarts(r)
  /\ Goto(r, "failed")
  /\ UNCHANGED <<market, night, score, orders, positions, session, rows, snapshots>>

OpenSession(r) ==
  /\ TradeStarts(r)
  /\ session' = TRUE
  /\ Local(r, [run[r] EXCEPT !.step = "reconcile", !.score = score, !.todo = RowsToReconcile])
  /\ UNCHANGED <<market, night, score, orders, positions, rows, snapshots>>

(* `paper reconcile` may be repeated at any time once the session exists.  *)
StartReconcile(r) ==
  /\ Command[r] = "reconcile" /\ run[r].step \in {"idle", "done", "failed"} /\ session
  /\ Local(r, [Fresh EXCEPT !.step = "reconcile", !.todo = RowsToReconcile])
  /\ UNCHANGED <<market, night, score, orders, positions, session, rows, snapshots>>

(* _translate_alpaca_status: every status with "cancel" in it is canceled. *)
TranslatedStrict(status) ==
  IF status \in {"accepted", "partially_filled", "filled", "canceled"} THEN status ELSE "unknown"
Translated(status) == IF status = "pending_cancel" THEN "canceled" ELSE status

(* get_order_by_client_id, then the update of the row from that answer: two *)
(* steps, the broker and other runs may move in between.                   *)
AnswerOrdered(i) ==
  [id |-> i, status |-> Translated(orders[i].status), filled |-> orders[i].qty]
Answer(i) ==
  [id |-> i, status |-> Translated(orders[i].status), filled |-> orders[i].filled]

FetchOrder(r, i) ==
  /\ run[r].step = "reconcile" /\ run[r].fetched = {} /\ i \in run[r].todo
  /\ Local(r, [run[r] EXCEPT !.todo = @ \ {i}, !.fetched = {Answer(i)}])
  /\ UNCHANGED <<market, night, score, orders, positions, session, rows, snapshots>>

(* The broker call raises: the row is skipped this time.                   *)
SkipOrder(r, i) ==
  /\ run[r].step = "reconcile" /\ run[r].fetched = {} /\ i \in run[r].todo
  /\ Local(r, [run[r] EXCEPT !.todo = @ \ {i}])
  /\ UNCHANGED <<market, night, score, orders, positions, session, rows, snapshots>>

(* update_paper_order_fill overwrites whatever the row says.               *)
UpdateRow(r) ==
  /\ run[r].step = "reconcile"
  /\ \E f \in run[r].fetched :
       rows' = [rows EXCEPT ![f.id] = [status |-> f.status, filled |-> f.filled]]
  /\ Local(r, [run[r] EXCEPT !.fetched = {}])
  /\ UNCHANGED <<market, night, score, orders, positions, session, snapshots>>

(* Trading goes on once every row was updated or skipped.                  *)
EndReconcile(r) ==
  /\ run[r].step = "reconcile"
  /\ run[r].todo = {} /\ run[r].fetched = {}
  /\ Goto(r, IF Command[r] = "reconcile" THEN "done" ELSE "read")
  /\ UNCHANGED <<market, night, score, orders, positions, session, rows, snapshots>>

-----------------------------------------------------------------------------
(* _execute_against_broker: the held symbols give the signals.             *)
ReadHeld(r) ==
  LET held == {s \in Symbols : positions[s] > 0}
  IN  /\ run[r].step = "read"
      /\ Local(r, [run[r] EXCEPT !.step = "quantities",
                     !.sells = {s \in held : run[r].score[s] = "exit"},
                     !.buys = {s \in Symbols \ held : run[r].score[s] = "enter"}])
      /\ UNCHANGED <<market, night, score, orders, positions, session, rows, snapshots>>

(* A second read, in the strategy step, gives the quantities to sell; a    *)
(* symbol no longer held then is skipped.                                  *)
ReadQuantities(r) ==
  /\ run[r].step = "quantities"
  /\ Local(r, [run[r] EXCEPT !.step = "submit", !.quantity = positions,
                 !.sells = {s \in @ : positions[s] > 0}])
  /\ UNCHANGED <<market, night, score, orders, positions, session, rows, snapshots>>

(* The order loop, SELLs first.                                            *)
Available(s) == positions[s] - MapThenSumSet(Remaining, OpenSide(s, "sell"))

Todo(r) ==
  IF run[r].sells # {}
  THEN [side: {"sell"}, symbol: run[r].sells]
  ELSE [side: {"buy"}, symbol: run[r].buys]

Quantity(r, o) == IF o.side = "sell" THEN run[r].quantity[o.symbol] ELSE Target

Awaited(r) == {x \in run[r].sent : x.status = "none"}

Submit(r, o, answer) ==
  /\ run[r].step = "submit" /\ Awaited(r) = {} /\ o \in Todo(r)
  /\ Local(r, [run[r] EXCEPT !.sells = @ \ {o.symbol}, !.buys = @ \ {o.symbol},
                 !.sent = @ \cup {[symbol |-> o.symbol, status |-> answer, filled |-> 0]}])
  /\ UNCHANGED <<market, night, score, positions, session, rows, snapshots>>

Placed(r, o) ==
  /\ o.side = "sell" => Quantity(r, o) <= Available(o.symbol)
  /\ orders' = [orders EXCEPT ![<<r, o.symbol>>] =
       [side |-> o.side, qty |-> Quantity(r, o), filled |-> 0, status |-> "accepted"]]

(* The request is on the broker's book before its answer is back.          *)
Send(r, o) == Submit(r, o, "none") /\ Placed(r, o)

(* The broker refuses: buying power, a halted symbol, more than held.      *)
SubmitRefused(r, o) == Submit(r, o, "rejected") /\ UNCHANGED orders

Answered(r, x, status, filled) ==
  /\ Local(r, [run[r] EXCEPT !.sent =
       (@ \ {x}) \cup {[symbol |-> x.symbol, status |-> status, filled |-> filled]}])
  /\ UNCHANGED <<market, night, score, orders, positions, session, rows, snapshots>>

(* _translate_status, of the adapter: an order that is over for another    *)
(* reason than a fill or a cancel is accepted.                             *)
Accepted(status) == IF status = "expired" THEN "accepted" ELSE Translated(status)

(* The answer tells how far the order has come by then.                    *)
Receive(r) ==
  /\ run[r].step = "submit"
  /\ \E x \in Awaited(r) :
       LET order == orders[<<r, x.symbol>>]
       IN  Answered(r, x, Accepted(order.status), order.filled)

(* The answer never arrives: the adapter catches the exception and reports *)
(* a rejection.                                                            *)
LoseAnswer(r) ==
  /\ "lost" \in Faults /\ run[r].step = "submit"
  /\ \E x \in Awaited(r) : Answered(r, x, "rejected", 0)

EndLoop(r) ==
  /\ run[r].step = "submit" /\ Awaited(r) = {} /\ run[r].sells = {} /\ run[r].buys = {}
  /\ Goto(r, "persist")
  /\ UNCHANGED <<market, night, score, orders, positions, session, rows, snapshots>>

(* write_paper_order, one row at a time, then the equity snapshot.         *)
WriteOrder(r) ==
  /\ run[r].step = "persist"
  /\ \E x \in run[r].sent :
       /\ rows' = [rows EXCEPT ![<<r, x.symbol>>] = [status |-> x.status, filled |-> x.filled]]
       /\ Local(r, [run[r] EXCEPT !.sent = @ \ {x}])
  /\ UNCHANGED <<market, night, score, orders, positions, session, snapshots>>

SnapshotFirst(r) ==
  /\ run[r].step = "persist"
  /\ Goto(r, "done")
  /\ snapshots' = snapshots \cup {r}
  /\ UNCHANGED <<market, night, score, orders, positions, session, rows>>

SnapshotEquity(r) ==
  /\ run[r].step = "persist" /\ run[r].sent = {}
  /\ Goto(r, "done")
  /\ snapshots' = snapshots \cup {r}
  /\ UNCHANGED <<market, night, score, orders, positions, session, rows>>

(* The process dies: its locals are gone, the broker and the database stay. *)
Crash(r) ==
  /\ "crash" \in Faults /\ r \in Active
  /\ Local(r, [Fresh EXCEPT !.step = "failed", !.midday = run[r].midday])
  /\ UNCHANGED <<market, night, score, orders, positions, session, rows, snapshots>>

-----------------------------------------------------------------------------
PaperInit ==
  /\ market = "closed" /\ night = 0 /\ score \in Signals
  /\ orders = [i \in Ids |-> NoOrder] /\ positions = [s \in Symbols |-> 0]
  /\ session = FALSE /\ rows = [i \in Ids |-> NoRow] /\ snapshots = {}
  /\ run = [r \in Runs |-> Fresh]

Broker == OpenMarket \/ CloseMarket \/ \E i \in Ids : Fill(i) \/ CancelTakesEffect(i)

Reconcile(r) ==
  \/ \E i \in Ids : FetchOrder(r, i) \/ SkipOrder(r, i)
  \/ UpdateRow(r) \/ EndReconcile(r)

Trade(r) ==
  \/ ReadHeld(r) \/ ReadQuantities(r)
  \/ \E o \in Todo(r) : Send(r, o) \/ SubmitRefused(r, o)
  \/ Receive(r) \/ LoseAnswer(r) \/ EndLoop(r) \/ WriteOrder(r) \/ SnapshotEquity(r)

RunStep(r) ==
  \/ StartRotate(r) \/ NoCandidates(r) \/ OpenSession(r) \/ StartReconcile(r)
  \/ \E i \in Ids : CancelOne(r, i) \/ CancelRaises(r, i)
  \/ Reconcile(r) \/ Trade(r) \/ Crash(r)

PaperNext == Broker \/ \E r \in Runs : RunStep(r)

PaperSpec == PaperInit /\ [][PaperNext]_paperVars

(* `paper reconcile` is run again and again (the daily wrapper does it),   *)
(* each run proceeds, and a broker read that keeps being tried succeeds.   *)
ReconcileFairness ==
  \A r \in Runs : Command[r] = "reconcile" =>
    /\ WF_paperVars(StartReconcile(r)) /\ WF_paperVars(UpdateRow(r))
    /\ WF_paperVars(EndReconcile(r))
    /\ \A i \in Ids : SF_paperVars(FetchOrder(r, i))

FairPaperSpec == PaperSpec /\ ReconcileFairness

-----------------------------------------------------------------------------
PaperTypeOK ==
  /\ market \in {"open", "closed"} /\ night \in 0..LastNight /\ score \in Signals
  /\ orders \in [Ids -> [side: {"buy", "sell"}, qty: Nat, filled: Nat, status: BrokerStatus]]
  /\ \A i \in Ids : orders[i].filled <= orders[i].qty
  /\ positions \in [Symbols -> Nat]
  /\ session \in BOOLEAN /\ snapshots \subseteq Runs
  /\ rows \in [Ids -> [status: RowStatus, filled: Nat]]
  /\ run \in [Runs -> LocalsType]

Settled(i) == orders[i].status \in {"filled", "canceled", "expired"}
Agrees(i) == rows[i] = [status |-> orders[i].status, filled |-> orders[i].filled]

(* However reconciles, submissions and the broker interleave, a row never  *)
(* claims more than the broker filled, and a row that says filled or       *)
(* expired is the broker's last word, although an update may come from an  *)
(* answer that is already out of date (cli.py:2076-2103).                  *)
RowsNeverAhead ==
  \A i \in Ids : rows[i].status # "none" =>
    /\ rows[i].filled <= orders[i].filled
    /\ rows[i].status \in {"filled", "expired"} => Agrees(i)

(* No wrapper has run in market hours.                                     *)
OutOfHours == \A r \in Runs : ~run[r].midday

(* As long as no wrapper ran in market hours, the account holds, or is     *)
(* about to buy, at most one target position of a symbol: no rotation,     *)
(* retry after a crash or lost answer adds to what an earlier one bought   *)
(* (signal.py:7-9, paper-rotate-cron.sh:48-52).                            *)
NoStacking ==
  OutOfHours =>
    \A s \in Symbols : positions[s] + MapThenSumSet(Remaining, OpenSide(s, "buy")) <= Target

(* A run that reaches its equity snapshot has a row for every order it     *)
(* sent, whatever happened to other runs (cli.py:1500-1563).               *)
SnapshotRunsRecorded ==
  \A r \in snapshots : \A s \in Symbols :
    orders[<<r, s>>].status # "none" => rows[<<r, s>>].status # "none"

(* cli.py:1203 "every order is persisted to paper_orders": when no run is  *)
(* under way, each order the broker knows has its row.                     *)
EveryOrderPersisted ==
  Active = {} => \A i \in Ids : orders[i].status # "none" => rows[i].status # "none"

(* writers.py:402-406: reconcile "updates the row with the actual fill     *)
(* outcome": a row no later reconcile will look at has the fill the broker *)
(* gave the order (cli.py:2116, 2060-2062).                                *)
TerminalRowsAgree ==
  \A i \in Ids : rows[i].status \in ReconcileTerminal => rows[i].filled = orders[i].filled

(* Where no wrapper ever cancels in market hours, every recorded order     *)
(* that the broker has settled ends up with a row that says so, for good:  *)
(* stale overwrites are repaired (cli.py:2063-2069, 2127-2135).  Left out  *)
(* are the rows of rejections, which no reconcile looks at.                *)
ReconcileConverges ==
  []OutOfHours =>
    \A i \in Ids :
      <>[](Settled(i) /\ rows[i].status \notin {"none", "rejected"} => Agrees(i))
=============================================================================
