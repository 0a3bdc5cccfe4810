---------------------------- MODULE ResearchRuns ----------------------------
(***************************************************************************)
(* The life of a backtest run, from the command that creates its row to    *)
(* the live command that cites it.                                         *)
(*                                                                         *)
(* `bloasis backtest` creates a running row, walks the folds, writes each  *)
(* fold's equity curve, trades and features in transactions of their own,  *)
(* and then completes or fails the row.  `bloasis grid run` backtests      *)
(* every combination without a database and writes a row afterwards.       *)
(* `bloasis trade live --from-run` reads one row and trades on it.         *)
(* Several commands run at once over one SQLite file: every transaction is *)
(* one step, and a command may be killed between any two of them.          *)
(***************************************************************************)
EXTENDS Integers, Sequences, FiniteSets

CONSTANTS
  Commands,       \* the invocations of `backtest` and `grid run`
  Work,           \* [Commands -> [grid, cfgs, plan, rebalance, scorable]]
  ValidConfigs,   \* the configurations the schema accepts
  TradingDays,    \* days of the SPY index
  FoldResults,    \* [Commands -> what a fold may yield: records alpha, sharpe, dd, trades]
  Criteria,       \* acceptance: record folds, alpha, sharpe, dd
  LiveConfigs,    \* the configurations `trade live` is given
  HaltFloor,      \* the loss, in live rows that lost one unit, that halts trading
  MaxOrders,      \* bound on live submissions
  MaxCommands,    \* bound on the commands that are started
  MaxFaults       \* bound on kills and raising calls

ASSUME WorkAssumption ==
  /\ TradingDays \subseteq Nat /\ HaltFloor \in Nat
  /\ Criteria \in [folds: Nat \ {0}, alpha: Int, sharpe: Int, dd: Int]
  /\ \A c \in Commands :
       /\ Work[c].grid \in BOOLEAN
       /\ Work[c].grid \/ (Len(Work[c].cfgs) = 1 /\ Work[c].cfgs[1] \in ValidConfigs)
       /\ LET p == Work[c].plan IN
            /\ {p.start, p.end} \subseteq Nat /\ {p.train, p.test, p.step} \subseteq Int
            /\ Work[c].grid \/ (p.train > 0 /\ p.test > 0 /\ p.step > 0)
       /\ Work[c].rebalance \in Nat \ {0} /\ Work[c].scorable \subseteq TradingDays
       /\ FoldResults[c] \subseteq [alpha: Int, sharpe: Int, dd: Int, trades: Nat]

VARIABLES
  runs,      \* backtest_runs, a sequence indexed by run_id
  equity,    \* equity_curve keys: <<run_id, day>>
  features,  \* feature_log keys: <<run_id, day>>
  trades,    \* trades rows per run_id, those of no run under NoRun
  cmd,       \* the state of every command
  orders,    \* live submissions: [cfg, run]
  faults,    \* faults so far
  orphans    \* run_ids whose command died or could not write their end

vars == <<runs, equity, features, trades, cmd, orders, faults, orphans>>

-----------------------------------------------------------------------------
(* Walk-forward windows, medians and acceptance *)

\* The periods that Backtester.run and generate_folds accept; they raise on others.
Runnable(p) == p.start < p.end /\ p.train > 0 /\ p.test > 0 /\ p.step > 0

\* Mutant: test windows start on the last day of their training window.
FoldWindowsTouching(p) ==
  [i \in 1..((p.end - p.start - p.train - p.test) \div p.step + 1) |->
     [from |-> p.start + (i - 1) * p.step + p.train,
      to |-> p.start + (i - 1) * p.step + p.train + p.test]]

\* The test window of every fold: whole windows that end inside the period, or
\* one 70/30 split when the period is too short.
FoldWindows(p) ==
  LET total == p.end - p.start
      trainEnd(k) == p.start + k * p.step + p.train
  IN IF total < p.train + p.test
     THEN <<[from |-> p.start + (7 * total) \div 10 + 1, to |-> p.end]>>
     ELSE [i \in 1..((total - p.train - p.test) \div p.step + 1) |->
             [from |-> trainEnd(i - 1) + 1, to |-> trainEnd(i - 1) + p.test]]

DaysOf(w) == {d \in TradingDays : w.from <= d /\ d <= w.to}

\* The days whose features a fold keeps: every rebalance-th trading day of its
\* window, if on that day some symbol has the bars features need.
FeatureDays(c, w) ==
  {d \in DaysOf(w) \cap Work[c].scorable :
     Cardinality({e \in DaysOf(w) : e < d}) % Work[c].rebalance = 0}

\* A fold whose window holds no trading day contributes a result all the same.
EmptyFold == [alpha |-> 0, sharpe |-> 0, dd |-> 0, trades |-> 0]

\* Twice the median of rs[i].f: the two middle values of an even count are averaged.
Median2(rs, f) ==
  LET Below(i) == Cardinality({j \in DOMAIN rs : \/ rs[j][f] < rs[i][f]
                                                 \/ rs[j][f] = rs[i][f] /\ j < i})
      At(k) == LET i == CHOOSE i \in DOMAIN rs : Below(i) = k IN rs[i][f]
  IN At((Len(rs) - 1) \div 2) + At(Len(rs) \div 2)

Accepts(rs) ==
  /\ Len(rs) >= Criteria.folds
  /\ Median2(rs, "alpha") >= 2 * Criteria.alpha
  /\ Median2(rs, "sharpe") >= 2 * Criteria.sharpe
  /\ Median2(rs, "dd") <= 2 * Criteria.dd

SumTrades(rs) ==
  LET S[i \in 0..Len(rs)] == IF i = 0 THEN 0 ELSE S[i - 1] + rs[i].trades IN S[Len(rs)]

-----------------------------------------------------------------------------
(* Rows *)

NewRow(c, cfg) == [cfg |-> cfg, by |-> c, status |-> "running", passed |-> "null",
                   nTrades |-> 0, folds |-> <<>>]
\* "folds" keeps, for the properties, the results the row's metrics summarise.
\* Mutant: finalize_backtest_run forgets the acceptance columns.
CompletedUnjudged(row, rs) == [row EXCEPT !.status = "completed", !.nTrades = SumTrades(rs),
                                          !.folds = rs]
Completed(row, rs) == [row EXCEPT !.status = "completed", !.nTrades = SumTrades(rs),
                                  !.passed = IF Accepts(rs) THEN "yes" ELSE "no", !.folds = rs]
\* Mutant: fail_backtest_run stores the message and forgets the status.
FailedSilently(row) == row
Failed(row) == [row EXCEPT !.status = "failed"]

NoRun == 0
Fresh == [pc |-> "start", item |-> 1, run |-> NoRun, fold |-> 1, results |-> <<>>,
          left |-> 0, error |-> FALSE, ok |-> 0, passed |-> 0]

Init ==
  /\ runs = <<>> /\ equity = {} /\ features = {}
  /\ trades = [r \in {NoRun} |-> 0]
  /\ cmd = [c \in Commands |-> Fresh]
  /\ orders = {} /\ faults = 0 /\ orphans = {}

IsGrid(c) == Work[c].grid
Windows ==
  [c \in Commands |-> IF Runnable(Work[c].plan) THEN FoldWindows(Work[c].plan) ELSE <<>>]
Item(c) == Work[c].cfgs[cmd[c].item]
At(c, pc) == cmd[c].pc = pc
Update(c, s) == cmd' = [cmd EXCEPT ![c] = s]
Go(c, pc) == Update(c, [cmd[c] EXCEPT !.pc = pc])
Begun == {c \in Commands : cmd[c].pc # "start"}
\* An ended command keeps only what it reported.
Ended == {"done", "raised", "killed"}
End(c, pc) == Update(c, [Fresh EXCEPT !.pc = pc, !.run = cmd[c].run,
                                      !.ok = cmd[c].ok, !.passed = cmd[c].passed])
Rows == UNCHANGED <<runs, equity, features, trades>>
Quiet == UNCHANGED <<orders, faults, orphans>>

-----------------------------------------------------------------------------
(* bloasis backtest *)

InsertRow(c) ==
  /\ runs' = Append(runs, NewRow(c, Item(c)))
  /\ trades' = [r \in 0..Len(runs) + 1 |-> IF r \in DOMAIN trades THEN trades[r] ELSE 0]
  /\ UNCHANGED <<equity, features>>

\* The row is there before the period is looked at.
CreateRun(c) ==
  /\ ~IsGrid(c) /\ At(c, "start") /\ Cardinality(Begun) < MaxCommands
  /\ InsertRow(c)
  /\ Update(c, [cmd[c] EXCEPT !.pc = IF Runnable(Work[c].plan) THEN "fold" ELSE "except",
                              !.run = Len(runs) + 1])
  /\ Quiet

\* One fold is simulated in memory.  A fold of no trading days returns at once.
RunFold(c) ==
  /\ ~IsGrid(c) /\ At(c, "fold") /\ cmd[c].fold <= Len(Windows[c])
  /\ IF DaysOf(Windows[c][cmd[c].fold]) = {}
     THEN Update(c, [cmd[c] EXCEPT !.fold = @ + 1, !.results = Append(@, EmptyFold)])
     ELSE \E r \in FoldResults[c] :
            Update(c, [cmd[c] EXCEPT !.pc = "equity", !.left = r.trades, !.results = Append(@, r)])
  /\ Rows /\ Quiet

\* equity_curve has one row per run and timestamp: the insert of a day that an
\* earlier fold of the run has written raises, and writes nothing.
\* Mutant: the fold that closes the run keeps its curve in memory only.
CurveKeysButLast(c) ==
  {<<cmd[c].run, d>> : d \in IF cmd[c].fold = Len(Windows[c]) THEN {}
                             ELSE DaysOf(Windows[c][cmd[c].fold])}
CurveKeys(c) == {<<cmd[c].run, d>> : d \in DaysOf(Windows[c][cmd[c].fold])}
WriteEquity(c) ==
  /\ At(c, "equity")
  /\ IF CurveKeys(c) \cap equity = {}
     THEN equity' = equity \cup CurveKeys(c) /\ Go(c, "trades")
     ELSE equity' = equity /\ Go(c, "except")
  /\ UNCHANGED <<runs, features, trades>> /\ Quiet

\* Every trade row has a transaction of its own.
WriteTrade(c) ==
  /\ At(c, "trades") /\ cmd[c].left > 0
  /\ trades' = [trades EXCEPT ![cmd[c].run] = @ + 1]
  /\ Update(c, [cmd[c] EXCEPT !.left = @ - 1])
  /\ UNCHANGED <<runs, equity, features>> /\ Quiet

\* The feature rows of the fold, upserted in one transaction.
WriteFeatures(c) ==
  /\ At(c, "trades") /\ cmd[c].left = 0
  /\ features' = features \cup {<<cmd[c].run, d>> : d \in FeatureDays(c, Windows[c][cmd[c].fold])}
  /\ Update(c, [cmd[c] EXCEPT !.pc = "fold", !.fold = @ + 1])
  /\ UNCHANGED <<runs, equity, trades>> /\ Quiet

SetRow(rid, row) == runs' = [runs EXCEPT ![rid] = row]

FinalizeRun(c) ==
  /\ ~IsGrid(c) /\ At(c, "fold") /\ cmd[c].fold > Len(Windows[c])
  /\ SetRow(cmd[c].run, Completed(runs[cmd[c].run], cmd[c].results))
  /\ End(c, "done")
  /\ UNCHANGED <<equity, features, trades>> /\ Quiet

\* The except clause records the failure and raises again.
FailRun(c) ==
  /\ At(c, "except")
  /\ SetRow(cmd[c].run, Failed(runs[cmd[c].run]))
  /\ End(c, "raised")
  /\ UNCHANGED <<equity, features, trades>> /\ Quiet

-----------------------------------------------------------------------------
(* bloasis grid run *)

\* Every combination is validated before anything runs: one bad value ends the command.
OpenGrid(c) ==
  /\ IsGrid(c) /\ At(c, "start") /\ Cardinality(Begun) < MaxCommands
  /\ Go(c, IF \A i \in DOMAIN Work[c].cfgs : Work[c].cfgs[i] \in ValidConfigs
           THEN "combo" ELSE "raised")
  /\ Rows /\ Quiet

\* One combination is backtested in memory, its folds drawn at once.
FoldOutcomes(c) ==
  [1..Len(Windows[c]) -> FoldResults[c] \cup {EmptyFold}]
RunCombo(c) ==
  /\ At(c, "combo") /\ cmd[c].item <= Len(Work[c].cfgs)
  /\ \E rs \in FoldOutcomes(c) :
       /\ \A i \in DOMAIN rs : DaysOf(Windows[c][i]) = {} <=> rs[i] = EmptyFold
       /\ Update(c, [cmd[c] EXCEPT !.pc = "persist", !.results = rs,
                                   !.error = ~Runnable(Work[c].plan)])
  /\ Rows /\ Quiet

PersistRow(c) ==
  /\ At(c, "persist")
  /\ InsertRow(c)
  /\ Update(c, [cmd[c] EXCEPT !.pc = "settle", !.run = Len(runs) + 1])
  /\ Quiet

SettleRow(c) ==
  /\ At(c, "settle")
  /\ LET row == runs[cmd[c].run] IN
       SetRow(cmd[c].run, IF cmd[c].error THEN Failed(row) ELSE Completed(row, cmd[c].results))
  /\ Go(c, "count")
  /\ UNCHANGED <<equity, features, trades>> /\ Quiet

\* The combination joins the counts the command prints at its end.
\* Mutant: failures of the persist callback are swallowed.
CountsAll(c) == Len(cmd[c].results) > 0
Counts(c) == ~cmd[c].error
NextCombo(c) ==
  /\ At(c, "count")
  /\ Update(c, [cmd[c] EXCEPT !.pc = "combo", !.item = @ + 1, !.run = NoRun, !.results = <<>>,
       !.error = FALSE,
       !.ok = IF Counts(c) THEN @ + 1 ELSE @,
       !.passed = IF Counts(c) /\ Accepts(cmd[c].results) THEN @ + 1 ELSE @])
  /\ Rows /\ Quiet

CloseGrid(c) ==
  /\ At(c, "combo") /\ cmd[c].item > Len(Work[c].cfgs)
  /\ End(c, "done")
  /\ Rows /\ Quiet

-----------------------------------------------------------------------------
(* Faults: a call that raises, and a killed command *)

\* Where an exception goes from each program counter of a command.
Handler(c, to) ==
  \/ At(c, "start") /\ ~IsGrid(c) /\ to = "raised"            \* no row yet, outside the try
  \/ cmd[c].pc \in {"fold", "equity", "trades"} /\ to = "except"
  \/ At(c, "except") /\ to = "raised"                         \* fail_backtest_run itself raised
  \/ At(c, "combo") /\ cmd[c].item <= Len(Work[c].cfgs) /\ to = "persist"
  \/ cmd[c].pc \in {"persist", "settle"} /\ to = "count"      \* persist errors are captured

\* The rows that can no longer reach an end when c stops writing to its row.
Abandoned(c) == IF cmd[c].run = NoRun \/ runs[cmd[c].run].status # "running"
                THEN {} ELSE {cmd[c].run}

Raise(c) ==
  /\ faults < MaxFaults
  /\ faults' = faults + 1
  /\ \E to \in {"raised", "except", "persist", "count"} :
       /\ Handler(c, to)
       /\ IF to = "raised" THEN End(c, to)
          ELSE Update(c, [cmd[c] EXCEPT !.pc = to, !.error = TRUE])
       /\ orphans' = IF to \in {"raised", "count"} THEN orphans \cup Abandoned(c) ELSE orphans
  /\ Rows /\ UNCHANGED orders

Kill(c) ==
  /\ faults < MaxFaults /\ cmd[c].pc \notin Ended
  /\ faults' = faults + 1
  /\ End(c, "killed")
  /\ orphans' = orphans \cup Abandoned(c)
  /\ Rows /\ UNCHANGED orders

-----------------------------------------------------------------------------
(* bloasis trade live --from-run *)

\* The row must be completed and accepted.
\* Mutant: the live command asks for a completed run, whatever its verdict.
PromotableUnjudged(rid) == runs[rid].status = "completed"
Promotable(rid) == runs[rid].status = "completed" /\ runs[rid].passed = "yes"

\* The halt check sums the realized profit of the trades rows that belong to no
\* run; each such row stands for the loss of one unit.
ShouldHalt == -trades[NoRun] < -HaltFloor

\* The command trades the configuration it was started with.
TradeLive(cfg, rid) ==
  /\ Cardinality(orders) < MaxOrders
  /\ Promotable(rid) /\ ~ShouldHalt
  /\ orders' = orders \cup {[cfg |-> cfg, run |-> rid]}
  /\ Rows /\ UNCHANGED <<cmd, faults, orphans>>

-----------------------------------------------------------------------------
Step(c) ==
  \/ CreateRun(c) \/ RunFold(c) \/ WriteEquity(c) \/ WriteTrade(c) \/ WriteFeatures(c)
  \/ FinalizeRun(c) \/ FailRun(c)
  \/ OpenGrid(c) \/ RunCombo(c) \/ PersistRow(c) \/ SettleRow(c) \/ NextCombo(c) \/ CloseGrid(c)

Next ==
  \/ \E c \in Commands : Step(c) \/ Raise(c) \/ Kill(c)
  \/ \E cfg \in LiveConfigs, rid \in DOMAIN runs : TradeLive(cfg, rid)

\* A process that is not killed keeps executing.
Spec == Init /\ [][Next]_vars /\ \A c \in Commands : WF_vars(Step(c))

-----------------------------------------------------------------------------
(* Properties *)

RunIds == DOMAIN runs
DaysIn(keys, rid) == {k[2] : k \in {x \in keys : x[1] = rid}}
PlanDays == [c \in Commands |-> UNION {DaysOf(Windows[c][i]) : i \in DOMAIN Windows[c]}]
Overlapping(c) ==
  \E i, j \in DOMAIN Windows[c] : i < j /\ DaysOf(Windows[c][i]) \cap DaysOf(Windows[c][j]) # {}

\* Every row, key and program counter has its type (storage/schema.py).
RunsTypeOK ==
  /\ \A r \in RunIds : /\ runs[r].by \in Commands
                        /\ runs[r].status \in {"running", "completed", "failed"}
                        /\ runs[r].passed \in {"null", "yes", "no"}
                        /\ (runs[r].status = "completed") = (runs[r].passed # "null")
  /\ equity \cup features \subseteq RunIds \X TradingDays
  /\ DOMAIN trades = RunIds \cup {NoRun} /\ \A r \in DOMAIN trades : trades[r] \in Nat
  /\ \A c \in Commands : cmd[c].run \in RunIds \cup {NoRun}

\* A backtest row reads completed only when everything it summarises is on disk:
\* an equity point for each trading day of each window, feature rows for each
\* rebalancing day on which a symbol had bars enough, and as many trades rows as
\* it counts (cli.py backtest, engine._run_fold, engine._persist_fold).
PlanFeatureDays ==
  [c \in Commands |-> UNION {FeatureDays(c, Windows[c][i]) : i \in DOMAIN Windows[c]}]
CompletedRunsWhole ==
  \A r \in RunIds : runs[r].status = "completed" /\ ~IsGrid(runs[r].by) =>
    /\ DaysIn(equity, r) = PlanDays[runs[r].by]
    /\ DaysIn(features, r) = PlanFeatureDays[runs[r].by]
    /\ trades[r] = runs[r].nTrades

\* What fails a run when no call raises around it: a period that is no period, or,
\* in a backtest, folds that step by less than they test, so that two windows share
\* a trading day and the second curve violates the key of equity_curve.  A run of
\* either kind never completes; a grid, which writes no curve, completes the second
\* (engine.run, walk_forward.py, schema.equity_curve, grid.run_grid).
Clashing(c) == ~IsGrid(c) /\ Overlapping(c)
FailedRunsExplained ==
  \A r \in RunIds :
    LET c == runs[r].by
        p == Work[c].plan
    IN /\ runs[r].status = "failed" /\ faults = 0 =>
            ~Runnable(p) \/ (Clashing(c) /\ p.step < p.test)
       /\ runs[r].status = "completed" => Runnable(p) /\ ~Clashing(c)

\* walk_forward.py:14 "Smaller `step` increases overlap (more folds, less
\* independence)": a smaller step is a way to run, so no backtest of a proper
\* period fails while no call raises around it.
OverlapSupported ==
  \A r \in RunIds : runs[r].status = "failed" /\ faults = 0 => ~Runnable(Work[runs[r].by].plan)

\* The counts a grid prints are those of the rows it left behind, whichever of
\* its backtests and writes raised on the way (cli.py grid_run, grid.run_grid).
GridReportAgrees ==
  \A c \in Commands : IsGrid(c) /\ At(c, "done") =>
    LET mine(p) == Cardinality({r \in RunIds : runs[r].by = c /\ p[r]}) IN
    /\ cmd[c].ok = mine([r \in RunIds |-> runs[r].status = "completed"])
    /\ cmd[c].passed = mine([r \in RunIds |-> runs[r].passed = "yes"])

\* Live money follows a run that is, and stays, completed, that has the folds asked
\* for, and at least half of whose folds meet each of the three criteria; which half
\* may differ from one criterion to the next (acceptance.py, cli.py trade_live).
HalfReach(rs, f, b) == 2 * Cardinality({i \in DOMAIN rs : rs[i][f] >= b}) >= Len(rs)
HalfWithin(rs, f, b) == 2 * Cardinality({i \in DOMAIN rs : rs[i][f] <= b}) >= Len(rs)
LiveBehindGate ==
  \A o \in orders :
    LET row == runs[o.run] IN
    /\ row.status = "completed"
    /\ Len(row.folds) >= Criteria.folds
    /\ \A f \in {"alpha", "sharpe"} : HalfReach(row.folds, f, Criteria[f])
    /\ HalfWithin(row.folds, "dd", Criteria.dd)

\* acceptance.py:8-10 "we evaluate against the **median** of fold metrics ... This
\* ... prevents a single lucky fold from carrying the run": a run that goes live
\* reaches the alpha asked for in more than one of its folds.
NoLuckyFold ==
  \A o \in orders :
    LET rs == runs[o.run].folds IN Cardinality({i \in DOMAIN rs : rs[i].alpha >= Criteria.alpha}) > 1

\* acceptance.py:5-6 "a config with `passed_acceptance == False` cannot be deployed
\* to live trading": a configuration goes live only if a run of it has passed.
LiveConfigAccepted ==
  \A o \in orders : \E r \in RunIds : runs[r].cfg = o.cfg /\ runs[r].passed = "yes"

\* Once the commands are through, no row is left "running" but those whose
\* command was killed or could not write the end (cli.py backtest's except
\* clause, grid's persist).
RunsConclude == []<>(\A r \in RunIds : runs[r].status # "running" \/ r \in orphans)
=============================================================================
