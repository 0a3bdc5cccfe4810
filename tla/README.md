# bloasis in TLA+

Specifications, model checks and proofs for `bloasis`, a command-line program
that researches equity strategies by backtest and trades them on an Alpaca
account. Paths below are relative to the repository root; `bloasis/` is the
Python package.

## 1. The system

| component | code | state | operations | interacts with |
|---|---|---|---|---|
| strategy step | `strategy/runner.py` | none between calls but the BUY set it returns | `execute_strategy_step` | signals, risk, overlay, a `BrokerAdapter` |
| signals, risk, overlay | `signal.py`, `risk.py`, `scoring/regime_overlay.py` | none | `generate`, `evaluate`, `compute_regime_scale` | called by the step |
| simulated portfolio | `backtest/portfolio.py` | cash, positions with levels, counters | `place_market_order`, `apply`, `attach_levels`, `check_stops`, `mark` | executor of the step in a backtest |
| backtest fold | `backtest/engine.py` | the day loop, fill log, equity curve | `run`, `_run_fold`, `_build_candidates` | portfolio, step, scoring |
| research runs | `cli.py`, `backtest/grid.py`, `walk_forward.py`, `acceptance.py` | rows of `backtest_runs`, `equity_curve`, `trades`, `feature_log` | `backtest`, `grid run`, `trade live` | engine, writers |
| candidate scoring | `scoring/`, `backtest/prefetch.py`, `cli.py` | none; a panel in memory | prefetch, extract, compose, score | fetchers, engine, live path |
| paper commands | `cli.py` | locals of a process | `trade paper`, `paper reconcile`, ... | step, Alpaca adapter, writers |
| Alpaca adapter | `broker/alpaca.py` | the broker's account (external) | account, positions, submit | HTTP |
| daily wrapper | `scripts/paper-rotate-cron.sh` | none | cancel open orders, `trade paper` | Alpaca, CLI |
| mention pipeline | `analysis/mention_*.py`, `cli.py`, `scripts/mentions-track-cron.sh` | posts, mentions, predictions, cached bars | fetch, extract, track, settle | storage, fetchers, LLM |
| EDGAR client | `data/fetchers/sec_edgar.py` | JSON files and texts on disk, a switch per process | cached reads, paging, succession, texts | HTTP, disk |
| labelling and training | `ml/`, `cli.py` | labels in `feature_log`, parquet files | `label-features`, `ml train` | storage, cache |
| storage | `storage/*.py` | SQLite tables | writers, readers | every command |

`PROJECT.json` lists these and the parts that are left out, with their reasons.

What is hard here:

* **Sizes and caps.** Several rules limit one BUY in sequence, against a private
  copy of the sector exposure; the overlay multiplies afterwards.
* **Time inside the fold.** A BUY is booked on the signal day, fills on a later
  bar, gets its levels and its row of the log after the order loop, from the list
  of answers alone, and stops look at the signal day's bar.
* **Two reads.** The caller's held set and the runner's quantities are separate
  reads of a broker that moves.
* **The paper day.** Orders are submitted hours before they fill; an answer may
  come when the order has moved on, or not at all; rows are written after all
  submissions; a later run reconciles them. Crashes, re-runs, asynchronous cancels
  and a second reconciler come between.
* **Cron jobs over shared tables.** The mention commands and the labelling job
  select rows and write them later; they overlap, die and are started again.
* **Files.** EDGAR's pages move under a cached snapshot; a file is rewritten in
  place; a stale copy is served after a failure and a switch then stops all
  refreshes of the process.
* **Rows of a run.** A backtest's folds, curve, trades and features go to disk
  in separate transactions; a grid writes after the fact; live trading believes
  one row.
* **Downloads of today.** A price file fetched during a session ends on a bar that
  is not finished, and nothing in it says so.
* **Two paths to a score.** The backtest and the paper command build the same
  cross-section from panels of different lengths fetched at different times.

What makes each part correct: caps and sector accounting (step); no overspending,
conserved money, protected positions, a complete log (fold); no stacking, rows
that never run ahead of the broker and converge to it (paper); nothing lost and
nothing bet twice (mentions); no filing missing from a list that carries no
warning (EDGAR); what reads completed is whole (runs); labels that are the
market's and stay (labels); the same score from either path and on any later day
(candidates). `PROJECT.json` lists the hazards one by one, at their lines, with
the properties for each.

## 2. Modules

| module | models | extends |
|---|---|---|
| `RiskRules` | entry and exit rules, size limits, overlay, tolerance band, as operators | |
| `StrategyStep` | `execute_strategy_step` with an open executor | `RiskRules` |
| `SimPortfolio` | fills, `apply`, levels, as operators | |
| `BacktestFold` | `_run_fold` with the simulated portfolio as executor | `StrategyStep`, `SimPortfolio` |
| `PaperSession` | `trade paper --session`, `paper reconcile`, the wrapper, the adapter, the rows, an external broker | |
| `BetLedger` | abstract: what the prediction table promises its reader | |
| `MentionTracking` | the three mention commands as overlapping jobs, their tables, the bar cache | instantiates `BetLedger` |
| `EdgarCache` | the EDGAR client's files, lists, succession and texts, against a moving server | |
| `ResearchRuns` | rows of `backtest`, `grid run` and the gate of `trade live` | |
| `FeatureLabels` | `feature_log`, the labelling job, the purged folds | |
| `Scorers` | every scorer `build_scorer` returns, as operators on one cross-section | |
| `CandidatePanel` | prefetch, features and candidates, in the backtest and live | `Scorers` |
| `SumLemmas` | lemmas about sums over finite sets, for the proofs | |
| `StrategyProofs` | theorems about the step and the fold | `BacktestFold`, `SumLemmas` |
| `...Proofs` | theorems | the module they name, `SumLemmas` where they add |
| `MC...` | instances for TLC | the module they name |

### StrategyStep

`BeginStep` is lines 79-116 of `runner.py` in one action: nothing outside the
process can move what it reads, except the broker's positions, and those are two
components of the input (`held` from the caller, `heldQty` from the later read)
that may differ arbitrarily. Then one action per loop iteration: `SendSell`,
`SkipSell` (no longer held), `SendBuy`, `SkipBuy` (rejected by risk, no price,
no quantity). SELLs come first because `generate` lists them first; within a
side the order is left open, which covers every order of the candidates.
`EndStep` returns. Only `newBuySet` survives a call.

Data: sizes are percents of equity (`Full`), scores and overlay factors integers
in a unit of their own. A product of positive floats is positive in the code, so
divisions of sizes round up; lots round down and an order below one lot stands
for `qty <= 0`. The constants are assumed to be in the ranges
`config/schema.py` validates.

### BacktestFold

The state of `StrategyStep`, plus the fold's day loop (`phase`, `day`), the
portfolio (`pos`, `books`) and the fill log. `StartDay` computes the step's input
from the panel and the positions (`StepInput`) and takes `BeginStep`; `PlaceSell` and `PlaceBuy` are
`place_market_order` together with `SendSell` / `SendBuy`, so the status the step
sees is the one the simulated fill decides. They change the book and append to
`results`, the list of answers the step returns; refused orders are in it too.
What the fold does with the list comes after `FinishStep`: `LogOrder` is one turn
of the loop over `step.submitted`, which looks the position up again to attach
levels and derives the row of the log; `StartStops` goes on to `CheckStop`, one
position at a time, and `LogStop` logs the fills that returned; `MarkDay` marks to
the last closes. So between a fill and its row the book and the log disagree, and
`LogExplainsBook` is about the end of a day. Bars are functions from days to
`[open, high, low, close]`, so missing bars, late listings and bars that end are
ordinary values.

`entryFees` is the one variable the code does not have: realized profit leaves
out the fees paid on entry, and the accounting identity needs their sum. The
slippage, fee and limit rates are assumed to be at most 100%; the schema only
bounds them from below.

### PaperSession

Each run is a process: a record of its locals and a program counter `step`. Its
actions are the boundaries at which something else can happen: each broker call,
each row written, and the reads before them. The market opens and closes, fills
DAY orders lot by lot while open, expires them at the close, and applies cancels
when it likes; this part is external and named so in the map. Runs of kind
`rotate` cancel open orders first and two of them never overlap (launchd starts
no second copy of a running job, and one started on schedule has cancelled long
before the open); `trade` is the bare command; `reconcile` may
be repeated for ever. `Crash` loses the locals and keeps the broker and the
database. An order is placed by `Send`, and what `Receive` brings back is the state
of the order when the answer leaves the broker: partly filled, filled, canceled or
accepted, which is what the row then says. `LoseAnswer` is an answer that never
comes, which the adapter reports as a rejection.

Signals are `enter`, `hold`, `exit` of a symbol, sizing is one constant
`Target`: caps and sizes are the business of `StrategyStep`. Amounts in the
equity snapshot are not modelled, only which runs wrote one.

### MentionTracking and BetLedger

A job is a process; `stage` is its program counter. Jobs of `CronJobs` run the
wrapper's three commands in a row, the others one command given by hand. Every
insert is a read (`SeePost`, `SeeMention`, `SeeBet`) and a write (`InsertPost`,
...) in two steps, as `INSERT` after `SELECT` in two transactions: a job that
finds its key taken in between raises and dies, and so does the wrapper
(`set -e`). `Extract` classifies all candidates of a post before a row of it is
written, and `Stamp` marks the post after the last. `StartTrack` reads the
untracked mentions; `ReadBars` and `DownloadBars` are the cached OHLCV fetcher,
whose file is keyed by the UTC day. `Settle` writes the outcome of a ripe row
where the code addresses it, at the horizon of the command and not of the row.

A moment is a quarter of a New York day, which is as fine as the code looks:
before the open, session, after the close, and evening, when it is already
tomorrow in UTC. Returns are represented by the bars they come from: `Realized`
keeps the horizon measured and whether the last bar was whole.

`BetLedger` is what the report may believe: a key is bet on at most once, a bet
stands, an outcome is entered under a key only if it measures that key's horizon.
`BetsAreALedger` is the refinement.

### EdgarCache

Filings of a registrant are numbered as they arrive, so what the server answers,
and what a file holds, is a count `n`: the newest `Recent` filings are in the
snapshot and the older ones on pages of `PageSize`, and every new filing moves
every page boundary. A run asks for one file at a time (`asks`). `ReadValid`,
`Fetch`, `FetchFails` are the three branches of the cached read; `OpenFile` and
`CloseFile` the write in place, between which a crash leaves the file cut with a
fresh time. `current` says that a page does not predate its snapshot, which the
code decides from two modification times. A list is `OfOnePiece` when the
registrant filed nothing between the download of its snapshot and that of its
pages, or has no more than one page of older filings; for such a list `CleanListsComplete` and `HistoryKept` hold, and
`PagesMissNothing` says the same of every list. `Follow` is the succession to the
predecessor, when its evidence was among the filings read.

### ResearchRuns

One command is one process over four tables. Each transaction is one action, in
the order of the code: row, then per fold curve, trades one by one and features,
then completion. The row is created before the period is looked at: `Runnable` is
what `engine.run` and `generate_folds` accept, and a plan that is not fails the row
at once. Feature rows are those of `FeatureDays`: every `rebalance`-th trading day
of a window, where some symbol has the bars features need (`scorable`), and none
at all if there is no such day. `Raise` is an exception from whatever call the
command is in; `Handler` says where the code sends it. `Kill` is a process that
goes away. A grid backtests in memory and writes a row per combination afterwards,
a failed one for a period that is none; `NextCombo` adds to the counts it prints.
`TradeLive` reads one row, and trades the configuration it was started with.
`Accepts` compares medians of folds with the three criteria; `folds` keeps, for the
properties only, the results a row summarises. Fold results are inputs, except for
a window without a trading day, whose result is a fold of zeros.

### FeatureLabels

A return is represented by the two bars it is computed from. Prices arrive day by
day; a day is a session that is `open` and then closed. `Fetch` downloads a window
that ends today at the latest, over the file of the same window, and a file
downloaded during a session is marked `cut`: its last bar is not finished. The mark
is for the properties; neither the file nor any reader has it. A labelling job
reads, per symbol, the file with the widest span and writes in chunks of `Batch`
rows. Rows have the key of the table, day, symbol and run, so the same day and
symbol may come from several runs, written and labelled at different times.
`Split` and `TrainedFolds` are the purged walk-forward folds, on positions of the
rows of all runs sorted as `load_labeled_feature_log` does.

### Scorers and CandidatePanel

`Scorers` has one operator per scorer, over a record of features whose functions
are defined exactly where the code has no NaN. Scores are in percent. Standard
deviations are replaced by mean absolute deviations, which keep the order, the
sign, and the case of no spread; of the composites' constituents three stand for
all (one with two parts, one inverted, one without any data).

`CandidatePanel` lets days pass, each with closes and filings. After each, the
paper command may prefetch its window and score the last bar; `live` keeps what
it computed. A backtest of everything so far is `BacktestPanel`, and
`Candidates(c, P, d)` is what either path scores for day `d` from panel `P`.
`FilingsIn` has the limits of the fetchers: the newest 12 of the 10-Ks, the
`recent` block of the filing lists, the newest announcements.

## 3. Runs

| run | question | answer |
|---|---|---|
| `strategy_step` | sector room, one order per symbol, over all inputs of a grid | holds, 124,016 states |
| `sector_cap` | the cap as the comment in `risk.py:97` states it | violated |
| `backtest_fold` | cash, money, levels and log put together afterwards, order of executions | holds, 82,856 states |
| `stop_before_fill` | stops act on subsequent bars, as `engine.py:303` says | violated |
| `paper_session` | stacking, rows ahead of the broker, recorded runs, under crashes and lost answers | holds, 950,654 states |
| `paper_reconcile` | convergence with two rotations and a reconcile, where no wrapper runs in market hours | holds, 555,204 states |
| `paper_rerun` | two runs of the bare command before the open | violated |
| `mention_tracking` | nothing lost, bets right and bet once, own horizon, refinement, due bets settle | holds, 301,051 states |
| `edgar_files` | lists without a warning are complete, over pages, crashes and a succession | holds, 2,050,450 states |
| `research_runs` | completed runs are whole, failed ones explained, the grid's counts, the live gate, no run left running | holds, 85,130 states |
| `feature_labels` | labels are the market's, kept, complete, and reach no test fold | holds, 53,851 states |
| `candidate_panel` | live scores equal backtest scores, no repainting, scores follow the signals | holds, 35,877 states |

**Bounds.** `strategy_step`: three symbols, two in one sector, because the sector
rules need two BUYs in one sector and one outside; scores below exit, in the
hysteresis band and above entry; snapshots empty, half full and full; the
overlay off, levering and in a bear market; three VIX regimes; held and held
quantity chosen independently; both values of the band with every previous BUY
set a step can leave. `backtest_fold`: two symbols with BUYs of 60% of equity, so
two entries compete for cash; four trading days, bars for six, so entries can
fill after the window and twice the limit window fits; histories that fall
through the stop, rise through the target, gap over the limit, have holes, end,
or start late; both fill modes and a two-day rebalance; panels with and without
leverage. `paper_session`: one symbol, two rotations and a repeatable
reconcile: stacking needs two runs, a stale overwrite a second process, partial
fills two lots. Its wrapper may start in any hours; `NoStacking` speaks of the
behaviours in which it never started in market hours, and so does
`ReconcileConverges`: a rotation in market hours may cancel an order that is
filling, whose row is then wrong for good (`TerminalRowsAgree` below). One night (two market
sessions) lets each of the two rotations meet the other's orders unfilled, filled
and expired. Two symbols add no interaction between their rows: every
action touches the rows and orders of one symbol, and a run's loops visit symbols
in any order.

`mention_tracking`: Friday to Tuesday, so entry is the same day
or after a weekend; one post and one ticker, because what can go wrong lies between
two jobs and one key, and two horizons, because an outcome can be written to the
key of the other; the wrapper and one process by hand, which may extract or track
at any moment and for any horizon; one crash or failed download. `Awake` names the moments at which
anything happens: three on Friday, the Monday session and the Tuesday session.
`edgar_files`: a registrant
that starts with one filing and one it succeeded with three; up to four filings
each, one in the snapshot and two on a page, so that a list has one page or two
and every boundary moves with every filing; three days with files that age in one;
crashes, network failures and refusals at every read. Each run of the client forgets
the one before, so runs are not bounded. `research_runs`: a backtest of two
windows that rebalances every second day, with a first day no symbol can be scored
on, one whose windows overlap and one over a period that is none; a grid of two
combinations, over a calendar with a gap that leaves one of its windows without a
trading day, and grids over the overlapping plan and over no period. Any two of the
six are started in a behaviour (`MaxCommands`), at any distance, because a command
writes to its own row only and a second one is enough to come between its
transactions and take a row id; one fault; one live submission (any one order shows
what the gate let through).
`feature_labels`: five days; a symbol with a bar on each and one listed on the
fourth; two windows, of which the shorter holds neither the first day nor any bar of
the second symbol; two runs that write the same fold (four days of one symbol, one
of the other), horizons of one and two bars, chunks of seven rows, fewer than the
first symbol can have, one kill; an embargo of three rows covers the shorter horizon
up to two rows a day and the longer up to one, while a day has up to four, so the
condition of `EmbargoOfEnoughRows` decides.
`candidate_panel`: three symbols and four days (three for the rule scorer), 15 configurations over the
eleven scorer types and their modes; every limit is at most 3, so that the fourth
day's panel has lost what the first one's had. Which days a scorer is given
depends on what it reads.

`CHECK_DEADLOCK FALSE` in the paper, mention, EDGAR, run, label and candidate
configurations because their days, nights and commands are used up; the fold and
the step never stop, and deadlock is checked there.

**Violations** are disagreements between the code and what the repository says of
it. They are recorded as findings, each with the line that makes the claim:

1. `sector_cap`: the overlay levers a BUY after the sector clip; the excess is at
   most one order's leverage, which `SectorOvershootBounded` states and the proof
   shows.
2. `stop_before_fill`: a stop can fire on the bar before the entry's bar.
3. `paper_rerun`: `client_order_id` is called idempotent and ends in random digits;
   the bare command run twice before the open buys everything twice. The wrapper's
   cancel loop is what keeps positions from stacking, and does so in the closed
   hours it is scheduled in.

**Statements the code does not keep, without a run of their own.** These are
defined in the modules; naming one in a configuration gives its counterexample.

| statement | module | what happens |
|---|---|---|
| `EveryOrderPersisted` | `PaperSession` | an order submitted before a crash has no row (`cli.py:1203`, `1500`) |
| `TerminalRowsAgree` | `PaperSession` | a pending cancel is recorded as canceled, which no later reconcile looks at, and the order fills after it (`cli.py:2116`): the row does not get the "actual fill outcome" of `writers.py:404-406` |
| `OverlapSupported` | `ResearchRuns` | "Smaller `step` increases overlap (more folds, less independence)" (`walk_forward.py:14`): with a step below the test length two folds of a backtest share a day, and the second curve violates the key of `equity_curve` (`writers.py:132`, `schema.py:316`) after the fold was computed. The same plan completes in a grid, which stores no curve |
| `NoLuckyFold` | `ResearchRuns` | the median "prevents a single lucky fold from carrying the run" (`acceptance.py:8-10`): the number of folds asked for may be as low as one (`config/schema.py:379`) and the median of two is their mean, so one good fold and one window without a trading day, a fold of zeros, pass together. What the gate does guarantee is `LiveBehindGate`: for each criterion half of the folds meet it, not the same half for all |
| `LiveConfigAccepted` | `ResearchRuns` with two `LiveConfigs` | `trade live` never compares its configuration with that of the run it cites (`acceptance.py:5-6`, `cli.py:1302`) |
| `LabelsOfFinishedBars` | `FeatureLabels` | labels are filled "after sufficient bars have elapsed" (`schema.py:48-49`): a file downloaded during a session gives one from an unfinished close (`yfinance_ohlcv.py:74`), which is never taken up again. `LabelsAreMarket` therefore says which bars a label compares, and nothing of whether the second was final |
| `PastBetsSettle` | `MentionTracking` with a weekday in `Holidays` | entry skips weekends but not holidays: a bet on a holiday has no bar and is retried for ever (`mention_timing.py:74`) |
| `TextsWhole` | `EdgarCache` | a text cut short by a crash is served for ever: it is checked for existence alone |
| `PagesMissNothing` | `EdgarCache` | each page is compared with its snapshot only: a filing that arrives between two of the downloads moves one to a page that was read before, and the list misses it without a warning, although `sec_edgar.py:508-510` says that no row is missed (`sec_edgar.py:580`) |
| `EmbargoOfEnoughDays` | `FeatureLabels` with `Embargo = 1` | the embargo counts rows, and a day has one row per symbol (`cv.py:6-9`) |

**Fairness.** `PaperSpec` has none: its runs check safety, and a run may stop
anywhere. `FairPaperSpec` assumes that `paper reconcile` keeps being run
(`WF` on starting it: the daily wrapper reconciles at the start of every trade
and the command may be given at any time), that a running reconcile proceeds
(`WF` on its update and its end), and that a broker read repeated for ever
succeeds in the end (`SF` on `FetchOrder`, because `SkipOrder` disables it each
time a call raises). Nothing is assumed of the broker or of the trading runs.
`MentionSpec`: time passes (`WF` on `Tick`), cron starts the wrapper again and
again (`WF` on `StartFetch` of cron jobs only), a running job takes its next step
(`WF` on `Work`), and a download tried again and again succeeds (`SF` on
`DownloadBars`, because a failure disables it until the next run). Nothing is
assumed of commands given by hand beyond that a running one goes on.
`ResearchRuns`: a command that is not killed goes on (`WF` on `Step`); nobody is
obliged to trade. `FeatureLabels`: cron starts the job (`WF` on `StartJob`) and a
job goes on (`WF` on `JobStep`); nothing is assumed of prices, fetches and
backtests. Kills, crashes and faults are bounded, never fair. `EdgarCache` and
`CandidatePanel` have no liveness.

## 4. Proofs

| theorem | statement |
|---|---|
| `TypeCorrect` | `Spec => []TypeOK` |
| `SectorOvershootBound` | `Spec => []SectorOvershootBounded` |
| `SectorCapUnlevered` | if no overlay factor exceeds one, `Spec => []SectorCapHolds` |
| `OneOrderEach` | `Spec => []OneOrderPerSymbol` |
| `ExposureAlwaysAccounted` | `Spec => []ExposureAccounted` |
| `FoldTypeCorrect` | `FoldSpec => []FoldTypeOK` |
| `CashNeverNegative` | `FoldSpec => []CashCovered` |
| `SellsAlwaysCovered` | `FoldSpec => []SellsCovered` |
| `MoneyIsConserved` | `FoldSpec => []MoneyConserved` |
| `LogAlwaysExplainsBook` | `FoldSpec => []LogExplainsBook` |
| `HeldAlwaysProtected` | `FoldSpec => []HeldAreProtected` |
| `MarketExitsAlwaysFollow` | `FoldSpec => []MarketExitsFollowEntries` |
| `ShapeAlways` | `PaperSpec => []Shape` |
| `RowsNeverAheadAlways` | `PaperSpec => []RowsNeverAhead` |
| `SnapshotsRecorded` | `PaperSpec => []SnapshotRunsRecorded` |
| `PaperTypesAlways` | `PaperSpec => []PaperTypeOK` |
| `NothingStacks` | if no run is the bare `trade`, `PaperSpec => []NoStacking` |
| `MentionTypesAlways` | `MentionSpec => []MentionTypeOK` |
| `StampedCompleteAlways` | `MentionSpec => []StampedComplete` |
| `BetsFollowMentionsAlways` | `MentionSpec => []BetsFollowMentions` |
| `SettledOnOwnHorizonAlways` | `MentionSpec => []SettledOnOwnHorizon` |
| `MentionsImplementLedger` | `MentionSpec => BetsAreALedger` |
| `RunsTypesAlways` | `Spec => []RunsTypeOK` (`ResearchRuns`) |
| `CompletedWholeAlways` | `Spec => []CompletedRunsWhole` |
| `FailedExplainedAlways` | `Spec => []FailedRunsExplained` |
| `LiveAlwaysBehindGate` | `Spec => []LiveBehindGate` |
| `GridReportAlwaysAgrees` | `Spec => []GridReportAgrees` |
| `LabelTypesAlways` | `Spec => []LabelTypeOK` (`FeatureLabels`) |
| `LabelsAlwaysMarket` | `Spec => []LabelsAreMarket` |
| `LabelsAlwaysKept` | if there is one job, `Spec => LabelsKept` |
| `EmbargoAlwaysEnoughRows` | if every symbol has a bar a day, `Spec => []EmbargoOfEnoughRows` |
| `EdgarTypesAlways` | `EdgarSpec => []EdgarTypeOK` |
| `ListsAlwaysComplete` | `EdgarSpec => []CleanListsComplete` |
| `HistoryAlwaysKept` | `EdgarSpec => []HistoryKept` |
| `LiveAlwaysMatches` | `Spec => []LiveMatchesBacktest` (`CandidatePanel`) |
| `NeverRepaints` | `Spec => NoRepaint` |
| `ScoresAlwaysFollow` | if no regime multiplier is negative, `Spec => []ScoresFollowSignals` |

All hold for every value of the constants that satisfies the `ASSUME`s of the
modules: the ranges of the configuration, a sector map, panels of well-typed
bars, `{"filled", "rejected"}` among the statuses, a dictionary that finds listed
tickers, horizons of at least one session, any set of holidays, plans of positive
lengths over any calendar, integer criteria, natural fold and row counts, and
finite sets of symbols, runs and folds: what is summed or counted is a list in the
code. The lengths of a grid's plan may be any integers and its period may be
reversed: a grid checks neither before it runs, and `backtest` only the lengths. The two theorems with a condition on the commands or jobs are about the
deployment the code is written for. With a bare `trade` positions do stack
(`paper_rerun`), and two labelling jobs do overwrite each other. `NoGaps` is
what the condition of `EmbargoOfEnoughRows` leaves to the panel: it counts rows
per day, and a symbol that skips days reaches further in time with as many rows.
The condition of `ScoresAlwaysFollow` is one the schema does not impose:
`regime_multipliers` are any numbers (`schema.py:140`), and a negative one turns
the order of that composite round while the other weights are still divided by
what is left of the total (`scorer.py:124`). The other `ScorerConfig` ranges are
those the schema validates.

*Sums.* `MapThenSumSet` adds in an order it chooses. `SumLemmas` proves from its
definition that the order does not matter: by a least counterexample on the
cardinality, a sum can be split at any element (`TotalAdd`, `TotalSplit` and
their relatives), so a change at one element changes the sum by that much.
Exposure, money, log and account rest on it.

*Step.* `TypeOK` is inductive. The overshoot bound is inductive with it: the
lemma `SizedBounds` says that a granted size leaves room, or adds at most the
order cap, and that scaling it adds at most the leverage excess; a bucket
already past the cap grants nothing. `OneOrderPerSymbol` is strengthened to
`StepInv`: a pending symbol has no order yet, pending SELLs are held and pending
BUYs are not. `ExposureAccounted` follows from `RoomInv`: an accepted order of a
bucket is in its sum once, because a symbol has one order.

*Fold.* That an action of the fold is one of the step, or leaves the step's variables
alone, is how the actions are written; the lemmas that say so (`FoldStepRefines`,
`FoldImplementsStep`) only carry the step's type correctness over to the fold. `FoldInv` joins the fold's
types, non-negative cash, and the relation between what a SELL will ask for and
what the position holds while the orders of a step are placed (a symbol still
pending has not been touched since it was read). The price lemmas say that fills
are at natural prices and that fees never exceed the proceeds, which is what
keeps cash from falling on a sale.

`LedgerInv` is the accounting: cash, the cost of what is held, realized profit and
entry fees make the capital. `LogExplainsBook` is false while answers wait to be
logged, so `TallyInv` is about both: what the portfolio counted and holds is what
the log says together with the fills among the answers from `logged` on
(`Unlogged`). An order or a stop adds to the second, a turn of the log loop moves
one from the second to the first (`AnsweredTally`, `LoggedTally`), and when the
loops are through nothing waits (`NothingWaits`). `ResultsInv` says what the list
may hold when; that its fills of the stop loop are all `filled` is what makes
`LogStop` right to look at no status. `ProtectInv` says that a position without
levels is one whose BUY is still to come in the list (`AboutTo`), so all have them
when the stops are checked. `OrderInv` says that the rows of the log are in the
order of the days they were signalled on, and that with market orders a strategy
order filled on the first bar after its day, in the log or in the list: the first
bar after a later day is not an earlier bar (`FirstBarLater`), wherever bars are
missing. Stops are outside this property; they are the second violation above.

*Paper.* The two properties are not inductive: a row is overwritten from an
answer fetched earlier, and a snapshot is written after a loop that empties
`sent`. `PaperInv` adds what a run goes by. An answer in flight was true of its
order once (`Once`): its filled lots are at most the order's, and if it says
filled or expired the order still does. The same holds of what a run keeps in `sent`
until it writes its rows (`SentOnce`): the broker may have moved on since. An id a run may yet use is unknown to the
broker and to the rows (`IdsFresh`), an order of a run that is submitting or
persisting has its row or is in `sent` (`Recording`), and a recorded order is one
the broker has. The shared state changes in three ways only (orders the broker has
move on, a new id enters the book, a row is written), and each has its
preservation lemmas, for the run that acts and for the others. TLC checked `PaperInv` as an invariant of the paper instances before it was
proved.

`Shape` is the part of `PaperTypeOK` without sums. The rest is `AccountInv`: open
SELLs of a symbol never ask for more than the account holds (`SellsHeld`), nothing
fills beyond its quantity, and the broker's counters are in range. `Settles` says
what a fill of one lot does to position and remainder; `QuietTo` collects the
steps that change neither. `NoStacking` rests on `RotateInv`, which follows a
rotation started out of hours (`Rotation`): while it cancels, the market is closed
and every open order is among those it cancels; until it submits nothing is open;
and what it is about to buy is neither held nor on order. So what a crashed
rotation or an order with a lost answer left open is gone before the next one
buys, and one order of `Target` is all that is added.

*Mentions.* None of the properties is inductive, because a job writes what it
selected many steps ago. `MentionInv` joins the types, `TablesOK` (what the tables
hold) and, for each job, `JobOK` (what its locals rely on): posts still to insert
are public, candidates contain what the dictionary finds, every candidate of the
post in hand has its row or is still to write, keys to bet on are warranted by a
negative mention out of hours, rows to settle are placed, and any bars, in memory
or in a file, are those of some earlier moment. The tables only grow (`Grows`), and
what `JobOK` says survives growth (`OthersKeep`); so a step that changes locals only
needs `LocalKeeps`, one that writes a row needs `WriteKeeps`, and each action one
lemma. `BegunGrows` compares the sessions seen in old bars with those begun now,
which makes an outcome from a stale file sound. For `BetsFollowMentions` the
calendar is proved: `EntryIsFirstOpen` says that the code's branches on the hour
and its weekend loop give the first weekday open after the post. The refinement
maps `InsertBet` to `Place`, `Settle` to `Enter` and the rest to stutters; that an
outcome's row has its bet, under the same entry, comes from the invariant.

*Runs.* A completed row is whole because of what stands behind every program
counter of a running backtest (`Behind`): its period is one, the curve holds exactly
the days of the windows written so far, these share no day (`Apart`), the features
are those of the feature days of one window less until they are written, and the
trades written plus those left are the trades of the results collected. `RowOK`
keeps the same for rows that ended, and for failed ones that a call raised or the
plan is `Excused`: no period, or windows that clash. A row of a plan that clashes
never completes because `Apart` of all its windows would be false of it.
`SumTrades` is a function by recursion: that it grows by the last result
(`SumTradesAppend`) is proved with a least counterexample (`NatMin`). A key
collision needs two windows with a common day, and `WindowsShape` shows from the
arithmetic of `FoldWindows` that this takes a step shorter than the test window.
A command only touches the row it created (`Minds`, `OtherLocals`), so each action
is a lemma about one command: `TableStep` for writes of keys, `InsertStep` and
`RowStep` for rows, `MemoryKeeps` for the rest. `LiveInv` says that a row with a
verdict is accepted by the folds it was judged on, and that orders cite such a row.
That half of a list reaches its median, and half stays below it for the drawdown
(`MedianHalf`), is shown by ranking the positions of the list: every rank is taken
exactly once. `GridInv` relates the two
counts of a grid to the rows it wrote, but for the combination between its last
write and `NextCombo`.

*Labels.* `LabelInv` says of a return, in a row or in a job's buffer, that no bar of
the whole history lies between the row's day and the bar it starts from, that as
many bars as its horizon lead to the bar it ends at, and that this bar is past
(`Market`). A job reads the return from whatever file it finds; a file's window has
all bars between its ends, the unfinished one of a cut file included, so counting in
the file or in the history is the same, whenever it was downloaded and whichever
run the row is of. That the bar is past does not say that it was finished when the
file was written: with a cut file it need not be (`LabelsOfFinishedBars`), and the
invariant claims nothing of it.
`FreshInv`, with one job, says that the rows a job is to write are unlabelled and
buffered once. `EmbargoOfEnoughRows` is arithmetic on positions: positions further
apart than `Width` times the days in between are further apart in days
(`PositionsApart`), which with a bar a day is where the label ends.

*EDGAR.* `EdgarInv` says of every file that it covers what was filed before its day
(`Covers`), and of a page marked `current` that it has as many filings as its
snapshot or more. Of a registrant that a run without warning has visited
(`Covered`), the snapshot was young enough when the run began, its filings are
listed, and every wanted page is still to come or was listed. What is missing
then from a list of one piece would lie between two pages of equal size, where
nothing does (`ListHas`). A warning comes before every way out of this: a stale
copy, a refresh that failed, the switch that stops refreshing.

*Candidates.* The first two theorems ask when two panels give one score, and one
lemma answers for both: `SameCandidates` says that a day's candidates depend only
on the bars, filings and market days the panels show up to that day, through each
feature in turn (`MomentumSame` to `LastWithinSame`); what a feature reads with
`Back` is found by rank, and the newest days of two sets that agree at their end
are the same (`TopSame`). `LiveMatchesBacktest` then needs that both panels hold
these days (`ReachSame`) and `PanelInv`, which says that what the paper command
kept for a day is its run on the feed up to that day. `NoRepaint` needs what one
more day does to a prefetched panel: the limits on filings drop old ones only,
which `Kept` excludes where it matters, and bars are appended (`NextDayFilings`,
`NextDayBars`). For `ScoresFollowSignals` every feature is an integer where it is
defined (`FeaturesAreOK`), a set of symbols always has one nobody is ahead of
(`TopExists`), and the rankings follow `Ahead` (`BinaryRanks`, `PercentileRanks`);
the rule score is a quotient of two sums, ordered term by term (`SumOfOrder`).

Model-checked only: liveness, which is outside the prover (`ReconcileConverges`,
`DueBetsSettle`, `RunsConclude`, `RowsGetLabelled`).

## 5. Mutants

Each property of a passing run is shown to bite: an operator defined beside the
one it replaces (`GrownAlways` for `Grown`, `SnapshotFirst` for
`SnapshotEquity`, `CompletedUnjudged` for `Completed`, ...) is the definition with
a plausible slip, and the property fails with it. These operators are used
nowhere else.

## 6. Not modelled

*Numbers.* Technical indicators, the metrics of an equity curve and the skill
gate, the booster and its information coefficient, residual momentum, z-score
distributions and research statistics are floating-point formulas without state;
where a module needs a result it is an input. `Scorers` keeps what the scorers
decide by: who ranks, the order, ties by position, missing values, weights.

*Outside the process.* HTTP clients, scraping, HTML (how the Item 1A section is
found), language models, YAML, tables and formatting. Which symbols and sectors
exist is a constant. The point-in-time universe map is read by the engine and
built by no command. The in-memory paper broker is an executor the open answers
of `StrategyStep` include. The allocation composer is called by nothing outside
its tests, although its docstring says that live trading uses it.

*Left out of a modelled part.* The stored columns of a fill beyond symbol, side,
quantity, price and day (the engine stores zero fees and the wall-clock time for
strategy fills, `engine.py:312-318`, unlike the fills the portfolio applied); the
amounts of the paper snapshot, which the comment at `cli.py:1551` says include the
orders just placed and before the open do not; broker-side rejection after
acceptance; fractional shares; the typed confirmation of `trade live`; a failed
prefetch of one symbol and ticker renames; the page size of the wrapper's list of
open orders, which asks for the default page only (`paper-rotate-cron.sh:59`);
`feature_version`, of which all rows have one value; how a fold's vectors come
about, beyond the days on which there are any; fetches of the market data other than
bars and the limits on earnings; the parquet cache's shared temporary file
(`cache.py:58`) and the rate limiter (`_rate_limit.py:48`), whose callers the
modules take as one step.

*Excluded by a condition of a property.* `LiveMatchesBacktest` compares the two
paths only where both panels reach back far enough, only when they agree on who
has filed at all, and not for `rule` and `ml`, which read
indicators that smooth over the whole panel. These are the differences the code
has: a momentum window of 274 bars needs more than the 300 calendar days of
warm-up; activity is counted only within the slack of 180 days and the `recent`
block; a symbol without any filing in its panel has no count while one whose
first filing lies in the future has zero (`engine.py:485`, `492`), so a backtest
sees a filer coming; the newest twelve announcements or 10-Ks push older ones
out of a long panel.

Seen while modelling, without a property: after a BUY suppressed by the tolerance
band the next day is compared with an empty set (`runner.py:93`); fewer than two
scorable symbols sell the whole book (`engine.py:521`); a held symbol whose bars
have ended gets a rejected SELL for ever (`portfolio.py:320`); a closed session is
resumed by name and stays closed (`writers.py:286`); the halt sums trades of no run, and nothing
writes one, so it never fires; `delisted_seen` is always zero (`engine.py:349`); two mention jobs that
overlap kill one of them although `scripts/README.md:95` calls it safe to run
twice; a partial bar settles a bet for good, as it does a label (`LabelsOfFinishedBars`); two overlapping labelling jobs
overwrite each other, as the update does not repeat the condition of the select
(`LabelsKept` is about one job for that reason).

## 7. Plan

Done: every module of section 2 and the proofs of section 4. What is left, in
this order:

1. `FetchSupport`: the parquet cache's shared temporary file and the rate
   limiter's window, with the news fetcher as its caller.
