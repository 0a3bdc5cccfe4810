--------------------------- MODULE FeatureLabels ---------------------------
(***************************************************************************)
(* feature_log from the rows backtests write to the folds a model is       *)
(* trained on.                                                             *)
(*                                                                         *)
(* `bloasis backtest` upserts one feature row per day, symbol and run;     *)
(* `bloasis label-features`, a cron job, fills the forward returns of      *)
(* every row it finds unlabelled from the widest price file in the cache;  *)
(* `bloasis ml train` loads the labelled rows of one horizon and cuts them *)
(* into purged walk-forward folds.  Prices arrive day by day, files are    *)
(* fetched at any time, in the middle of a session too, and a job can be   *)
(* killed between two transactions.  A return is represented by the two    *)
(* bars it is computed from.  All rows have one feature_version.           *)
(***************************************************************************)
EXTENDS Integers, FiniteSets, FiniteSetsExt

CONSTANTS
  Symbols,      \* tickers, as numbers in alphabetical order
  Bars,         \* [Symbols -> the days on which the symbol trades]
  LastDay,      \* bound on time
  Runs,         \* run ids of backtest_runs
  FoldRows,     \* sets of <<day, symbol>> whose vectors a fold writes together
  FileWindows,  \* the windows of days prices are fetched for: [from, to]
  Lookbacks,    \* forward horizons, in bars (5, 20 and 60)
  Jobs,         \* concurrent invocations of label-features
  Batch,        \* rows per transaction of a labelling job
  NFolds, Embargo,            \* training: folds, embargo
  RowsMin, ValMin, TrainMin,  \* training: rows per block, slice minima
  MaxKills      \* bound on killed jobs

ASSUME LabelAssumption ==
  /\ Symbols \subseteq Nat /\ IsFiniteSet(Symbols) /\ LastDay \in Nat
  /\ Runs \subseteq Nat /\ IsFiniteSet(Runs)
  /\ \A s \in Symbols : Bars[s] \subseteq 1..LastDay
  /\ \A F \in FoldRows : F \subseteq (1..LastDay) \X Symbols
  /\ \A w \in FileWindows : {w.from, w.to} \subseteq Nat
  /\ Lookbacks \subseteq Nat \ {0} /\ Batch \in Nat \ {0} /\ MaxKills \in Nat
  /\ {NFolds, Embargo, RowsMin, ValMin, TrainMin} \subseteq Nat
  /\ NFolds >= 2 /\ RowsMin > 0 /\ ValMin > 0 /\ TrainMin > 0

VARIABLES
  today,   \* the last day whose bars exist
  open,    \* whether its session goes on
  files,   \* [Symbols -> sets of [window, cut]], the price files in the cache
  rows,    \* feature_log: key <<day, symbol, run>> -> [filled, returns, unfinished]
  job,     \* [Jobs -> [pc, todo, pending, buffer]]
  kills

vars == <<today, open, files, rows, job, kills>>

\* NULL: no pair of bars.
Null == <<>>
Unlabelled == [filled |-> FALSE, returns |-> [lb \in Lookbacks |-> Null], unfinished |-> {}]
Idle == [pc |-> "idle", todo |-> {}, pending |-> {}, buffer |-> {}]

Init ==
  /\ today = 0 /\ open = FALSE
  /\ files = [s \in Symbols |-> {}]
  /\ rows = [k \in {} |-> Unlabelled]
  /\ job = [j \in Jobs |-> Idle]
  /\ kills = 0

-----------------------------------------------------------------------------
(* Forward returns *)

\* Mutant: the base is the first bar after the row, not the last one up to it.
ReturnFromNextBar(bars, day, lb) ==
  LET ahead == {b \in bars : b >= day} IN
  IF Cardinality(ahead) <= lb THEN Null
  ELSE <<Min(ahead), CHOOSE b \in ahead : Cardinality({x \in ahead : x < b}) = lb>>

\* The close lb bars after the last bar at or before the row; NaN when the
\* series begins after the row or ends before the target.
ForwardReturn(bars, day, lb) ==
  LET past == {b \in bars : b <= day}
      ahead == {b \in bars : past # {} /\ b >= Max(past)}
  IN IF Cardinality(ahead) <= lb THEN Null
     ELSE <<Max(past), CHOOSE b \in ahead : Cardinality({x \in ahead : x < b}) = lb>>

\* A download holds the bars of its window, today's unfinished one included.
Download(w) == [window |-> w, cut |-> open /\ w.to = today]
Covered(s, file) == Bars[s] \cap file.window.from..file.window.to

\* Files without rows are skipped; the longest span of the others wins, and the
\* order of the directory decides between equals.
Usable(s) == {f \in files[s] : Covered(s, f) # {}}
Span(s, f) == Max(Covered(s, f)) - Min(Covered(s, f))
Widest(s) == {f \in Usable(s) : \A g \in Usable(s) : Span(s, g) <= Span(s, f)}

Returns(k, f) == [lb \in Lookbacks |-> ForwardReturn(Covered(k[2], f), k[1], lb)]
\* The horizons that end on a bar whose session went on at the download.
Unfinished(k, f) ==
  {lb \in Lookbacks : f.cut /\ Returns(k, f)[lb] # Null /\ Returns(k, f)[lb][2] = f.window.to}
\* Mutants: a row counts as labelled only with a return, or with all of them.
LabelledIfAny(k, f) ==
  [filled |-> \E lb \in Lookbacks : Returns(k, f)[lb] # Null,
   returns |-> Returns(k, f), unfinished |-> Unfinished(k, f)]
LabelledIfAll(k, f) ==
  [filled |-> \A lb \in Lookbacks : Returns(k, f)[lb] # Null,
   returns |-> Returns(k, f), unfinished |-> Unfinished(k, f)]

\* A row is labelled once, with NULL where the series does not reach.
Labelled(k, f) ==
  [filled |-> TRUE, returns |-> Returns(k, f), unfinished |-> Unfinished(k, f)]

-----------------------------------------------------------------------------
(* Prices, files and feature rows *)

NextDay ==
  /\ today < LastDay /\ ~open
  /\ today' = today + 1 /\ open' = TRUE
  /\ UNCHANGED <<files, rows, job, kills>>

CloseSession ==
  /\ open
  /\ open' = FALSE
  /\ UNCHANGED <<today, files, rows, job, kills>>

\* A fetch downloads a window that ends today at the latest, over the file of the
\* same window unless that one is young; an empty download is not cached.
Fetch(s, w) ==
  /\ w.to <= today /\ Covered(s, Download(w)) # {}
  /\ files' = [files EXCEPT ![s] = {f \in @ : f.window # w} \cup {Download(w)}]
  /\ UNCHANGED <<today, open, rows, job, kills>>

\* A fold's vectors are upserted; labels of rows that exist are left alone.
WriteFeatures(r, F) ==
  /\ \A v \in F : v[1] <= today
  /\ LET new == {<<v[1], v[2], r>> : v \in F} IN
       rows' = [k \in DOMAIN rows \cup new |-> IF k \in DOMAIN rows THEN rows[k] ELSE Unlabelled]
  /\ UNCHANGED <<today, open, files, job, kills>>

-----------------------------------------------------------------------------
(* bloasis label-features *)

\* Mutant: the job takes every row again, labelled or not.
AnyRow(k) == k \in DOMAIN rows
NeedsLabel(k) == ~rows[k].filled

StartJob(j) ==
  /\ job[j].pc = "idle"
  /\ LET pending == {k \in DOMAIN rows : NeedsLabel(k)} IN
       /\ pending # {}
       /\ job' = [job EXCEPT ![j] = [pc |-> "symbols", todo |-> {k[2] : k \in pending},
                                     pending |-> pending, buffer |-> {}]]
  /\ UNCHANGED <<today, open, files, rows, kills>>

\* No price file: the symbol waits for a later job.
SkipSymbol(j, s) ==
  /\ job[j].pc = "symbols" /\ job[j].buffer = {} /\ s \in job[j].todo
  /\ Usable(s) = {}
  /\ job' = [job EXCEPT ![j].todo = @ \ {s}]
  /\ UNCHANGED <<today, open, files, rows, kills>>

\* One read of the symbol's file labels all its pending rows in memory.
LabelSymbol(j, s) ==
  /\ job[j].pc = "symbols" /\ job[j].buffer = {} /\ s \in job[j].todo
  /\ \E f \in Widest(s) :
       job' = [job EXCEPT ![j].todo = @ \ {s},
                 ![j].buffer = {[key |-> k, row |-> Labelled(k, f)] :
                                k \in {x \in job[j].pending : x[2] = s}}]
  /\ UNCHANGED <<today, open, files, rows, kills>>

\* A chunk of updates, addressed by key alone.
Flush(j) ==
  /\ job[j].buffer # {}
  /\ \E chunk \in kSubset(Min({Batch, Cardinality(job[j].buffer)}), job[j].buffer) :
       /\ rows' = [k \in DOMAIN rows |->
            IF \E u \in chunk : u.key = k THEN (CHOOSE u \in chunk : u.key = k).row ELSE rows[k]]
       /\ job' = [job EXCEPT ![j].buffer = @ \ chunk]
  /\ UNCHANGED <<today, open, files, kills>>

EndJob(j) ==
  /\ job[j].pc = "symbols" /\ job[j].todo = {} /\ job[j].buffer = {}
  /\ job' = [job EXCEPT ![j] = Idle]
  /\ UNCHANGED <<today, open, files, rows, kills>>

KillJob(j) ==
  /\ kills < MaxKills /\ job[j].pc # "idle"
  /\ kills' = kills + 1
  /\ job' = [job EXCEPT ![j] = Idle]
  /\ UNCHANGED <<today, open, files, rows>>

JobStep(j) ==
  \/ \E s \in Symbols : SkipSymbol(j, s) \/ LabelSymbol(j, s)
  \/ Flush(j) \/ EndJob(j)

Next ==
  \/ NextDay \/ CloseSession
  \/ \E s \in Symbols, w \in FileWindows : Fetch(s, w)
  \/ \E r \in Runs, F \in FoldRows : WriteFeatures(r, F)
  \/ \E j \in Jobs : StartJob(j) \/ JobStep(j) \/ KillJob(j)

\* Cron starts the job again and again, and a job that is not killed goes on.
Spec ==
  /\ Init /\ [][Next]_vars
  /\ \A j \in Jobs : WF_vars(StartJob(j)) /\ WF_vars(JobStep(j))

-----------------------------------------------------------------------------
(* bloasis ml train *)

\* load_labeled_feature_log: rows of any run with a label of this horizon, by day
\* and symbol, and in the order of the primary key where those are the same.
Trainable(lb) == {k \in DOMAIN rows : rows[k].filled /\ rows[k].returns[lb] # Null}
UpTo(x, k) ==
  \/ x[1] < k[1]
  \/ x[1] = k[1] /\ x[2] < k[2]
  \/ x[1] = k[1] /\ x[2] = k[2] /\ x[3] <= k[3]
Position(K, k) == Cardinality({x \in K : UpTo(x, k)})

\* The edges of the n_folds + 1 blocks of n rows; the last block takes the rest.
Edge(n, i) == IF i = NFolds + 1 THEN n ELSE i * (n \div (NFolds + 1))

\* Mutant: the embargo is taken from the head of the training block.
SplitHead(n, k) ==
  [train |-> IF Edge(n, k) <= Embargo THEN {} ELSE Embargo + 1..Edge(n, k),
   test |-> Edge(n, k) + 1..Edge(n, k + 1)]

\* Fold k trains on the blocks before block k + 1, without the last Embargo rows
\* (purged_walk_forward_splits; positions count from 1).
Split(n, k) ==
  [train |-> 1..Edge(n, k) - Embargo, test |-> Edge(n, k) + 1..Edge(n, k + 1)]

\* train_walk_forward raises on too few rows, and drops a fold whose
\* early-stopping slice leaves too little.
ValSize(t) == Max({ValMin, t \div 10})
TrainedFolds(n) ==
  {sp \in {Split(n, k) : k \in 1..NFolds} :
     LET t == Cardinality(sp.train) IN
     /\ n >= (NFolds + 1) * RowsMin
     /\ t > 0 /\ sp.test # {}
     /\ ValSize(t) < t /\ t - ValSize(t) >= TrainMin}

-----------------------------------------------------------------------------
(* Properties *)

\* Every row and job has its type, and a job holds back only rows it selected
\* (schema.feature_log, labeling.label_unlabeled_features).
LabelTypeOK ==
  /\ today \in 0..LastDay
  /\ \A k \in DOMAIN rows :
       /\ k[1] \in 1..today /\ k[2] \in Symbols /\ k[3] \in Runs
       /\ ~rows[k].filled => \A lb \in Lookbacks : rows[k].returns[lb] = Null
  /\ \A s \in Symbols : \A f \in files[s] : f.window \in FileWindows /\ f.window.to <= today
  /\ \A j \in Jobs : /\ \A u \in job[j].buffer : u.key \in job[j].pending
                      /\ job[j].pending \subseteq DOMAIN rows

\* Whatever windows the cache holds and whenever they are downloaded and read, a
\* label that is not NULL compares the bars the whole market history names: the last
\* one up to the row and the one the horizon's number of bars after it.  Of the
\* second the close may be an unfinished one, see LabelsOfFinishedBars
\* (compute_forward_returns, cli.py _load_widest_for_symbol).
LabelsAreMarket ==
  \A k \in DOMAIN rows : \A lb \in Lookbacks :
    LET r == rows[k].returns[lb]
        between(a, b) == Cardinality(Bars[k[2]] \cap a + 1..b)
    IN r # Null => /\ r[1] <= k[1] /\ between(r[1], k[1]) = 0
                   /\ r[2] <= today /\ between(r[1], r[2]) = lb

\* schema.py:48-49 "Forward returns (label_*) are filled by a post-write job after
\* sufficient bars have elapsed": no label looks at a bar whose session still went
\* on when its price was downloaded.
LabelsOfFinishedBars == \A k \in DOMAIN rows : rows[k].unfinished = {}

\* labeling.py:6-7 "re-running is idempotent (skips rows where label_filled_at IS
\* NOT NULL)": with one labelling job at a time no step takes a label away or
\* replaces it.
LabelsKept ==
  [][\A k \in DOMAIN rows : rows[k].filled => k \in DOMAIN rows' /\ rows'[k] = rows[k]]_vars

\* Once prices, files and features have come to rest, every row whose symbol has
\* a price file is labelled, although a job may die between two of its
\* transactions (labeling.py, cli.py label_features).
RowsGetLabelled ==
  []<>(\A k \in DOMAIN rows : Usable(k[2]) # {} => rows[k].filled)

\* The last day whose close the label of row k looks at.
LabelEnd(k, lb) == rows[k].returns[lb][2]
Width(K) == Max({Cardinality({k \in K : k[1] = d}) : d \in 1..LastDay})
NoLeak(lb) ==
  LET K == Trainable(lb)
      at == [k \in K |-> Position(K, k)]
  IN \A sp \in TrainedFolds(Cardinality(K)) : \A a, b \in K :
       at[a] \in sp.train /\ at[b] \in sp.test => LabelEnd(a, lb) < b[1]

\* No training label of a fold reaches the days it is tested on, provided the
\* embargo, which counts rows, covers the horizon on a panel of that many rows a
\* day and no symbol skips a day (cv.py, training.train_walk_forward).
EmbargoOfEnoughRows ==
  \A lb \in Lookbacks :
    LET K == Trainable(lb) IN
    Embargo + 1 >= Width(K) * (lb + 1) => NoLeak(lb)

\* cv.py:6-9 "The embargo_days last rows of each fold's training set are dropped
\* to avoid label leakage when the label looks forward (e.g. label_20d requires
\* embargo >= 20)": an embargo of the horizon's length is enough.
EmbargoOfEnoughDays == \A lb \in Lookbacks : Embargo >= lb => NoLeak(lb)
=============================================================================
