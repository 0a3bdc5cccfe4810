--------------------------- MODULE MCResearchRuns ---------------------------
(* Three backtests, one over windows that overlap and one over no period,   *)
(* and three grids, of two combinations, over windows that overlap and over *)
(* no period, on a calendar with a gap that leaves one window empty.        *)
EXTENDS ResearchRuns

CONSTANTS plain, other, bt, lap, late, grid, lapGrid, past

Plan(start, end, step) == [start |-> start, end |-> end, train |-> 1, test |-> 2, step |-> step]
Job(isGrid, cfgs, plan, every) ==
  [grid |-> isGrid, cfgs |-> cfgs, plan |-> plan, rebalance |-> every, scorable |-> {3, 4}]
MCWork == [c \in Commands |->
  CASE c = bt   -> Job(FALSE, <<plain>>, Plan(0, 5, 2), 2)
    [] c = lap  -> Job(FALSE, <<plain>>, Plan(0, 4, 1), 1)
    [] c = late -> Job(FALSE, <<plain>>, Plan(4, 4, 2), 1)
    [] c = lapGrid -> Job(TRUE, <<plain>>, Plan(0, 4, 1), 1)
    [] c = grid -> Job(TRUE, <<plain, other>>, Plan(0, 6, 3), 1)
    [] c = past -> Job(TRUE, <<plain>>, Plan(4, 0, 2), 1)]
MCTradingDays == {2, 3, 4}
Outcome(a, dd) == [alpha |-> a, sharpe |-> 2, dd |-> dd, trades |-> a \div 2]
MCFoldResults == [c \in Commands |->
  CASE c \in {lap, lapGrid} -> {Outcome(2, 1)}
    [] c = grid -> {Outcome(2, 1), Outcome(2, 3)}
    [] OTHER -> {Outcome(2, 1), Outcome(0, 1)}]
MCCriteria == [folds |-> 2, alpha |-> 1, sharpe |-> 1, dd |-> 1]
=============================================================================
