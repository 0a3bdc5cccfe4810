-------------------------- MODULE ResearchRunsProofs --------------------------
(***************************************************************************)
(* Proofs about ResearchRuns, for any commands, plans, calendars and fold  *)
(* results and any interleaving of transactions, exceptions and kills: a   *)
(* row that reads completed has everything it summarises on disk, a run    *)
(* fails by itself only for a period that is none or for windows that      *)
(* overlap, live orders cite a row its stored folds justify, and a grid    *)
(* counts the rows it wrote.                                               *)
(***************************************************************************)
EXTENDS ResearchRuns, SequenceTheorems, FiniteSetTheorems, WellFoundedInduction, TLAPS

-----------------------------------------------------------------------------
(* Sums of trades *)

FoldRec == [alpha: Int, sharpe: Int, dd: Int, trades: Nat]

(* Induction on natural numbers, as the least counterexample.              *)
LEMMA NatMin ==
  ASSUME NEW T, T \subseteq Nat, T # {}
  PROVE  \E x \in T : \A y \in T : x <= y
<1>1. PICK x \in T : \A y \in T : ~(<<y, x>> \in OpToRel(<, Nat))
  BY NatLessThanWellFounded, WFMin
<1>2. \A y \in T : ~(y < x)
  BY <1>1 DEF OpToRel
<1> QED
  BY <1>2

(* A tally of rs up to n, and the function SumTrades is defined by.        *)
Tallies(rs, n) == {f \in [0..n -> Nat] : f[0] = 0 /\ \A i \in 1..n : f[i] = f[i - 1] + rs[i].trades}
IsTally(f, rs) == f = [i \in 0..Len(rs) |-> IF i = 0 THEN 0 ELSE f[i - 1] + rs[i].trades]

LEMMA SumIsTally == \A rs : SumTrades(rs) = (CHOOSE f : IsTally(f, rs))[Len(rs)]
BY DEF SumTrades, IsTally

LEMMA SeqOfFolds ==
  ASSUME NEW rs \in Seq(FoldRec)
  PROVE  Len(rs) \in Nat /\ \A i \in 1..Len(rs) : rs[i].trades \in Nat
<1>1. Len(rs) \in Nat
  BY LenProperties
<1>2. ASSUME NEW i \in 1..Len(rs) PROVE rs[i] \in FoldRec
  BY ElementOfSeq
<1> QED
  BY <1>1, <1>2 DEF FoldRec

LEMMA TallyExists ==
  ASSUME NEW rs \in Seq(FoldRec)
  PROVE  \A n \in 0..Len(rs) : Tallies(rs, n) # {}
<1> DEFINE T == {n \in 0..Len(rs) : Tallies(rs, n) = {}}
<1>1. SUFFICES ASSUME T # {} PROVE FALSE
  OBVIOUS
<1>2. PICK n \in T : \A m \in T : n <= m
  <2>1. T \subseteq Nat
    BY SeqOfFolds
  <2> HIDE DEF T
  <2> QED
    BY <1>1, <2>1, NatMin
<1>3. CASE n = 0
  <2>1. [i \in 0..0 |-> 0] \in Tallies(rs, 0)
    BY DEF Tallies
  <2> QED
    BY <1>2, <1>3, <2>1
<1>4. CASE n # 0
  <2>1. n - 1 \in 0..Len(rs) /\ n \in 1..Len(rs) /\ ~(n <= n - 1)
    BY <1>4, SeqOfFolds
  <2>2. PICK f \in [0..(n - 1) -> Nat] : f[0] = 0 /\ \A i \in 1..(n - 1) : f[i] = f[i - 1] + rs[i].trades
    BY <1>2, <2>1 DEF Tallies
  <2> DEFINE g == [i \in 0..n |-> IF i = n THEN f[n - 1] + rs[n].trades ELSE f[i]]
  <2>3. \A i \in 0..n : g[i] \in Nat
    BY <2>1, <2>2, SeqOfFolds
  <2>4. g[0] = 0 /\ \A i \in 1..n : g[i] = g[i - 1] + rs[i].trades
    BY <2>1, <2>2, SeqOfFolds
  <2>5. g \in [0..n -> Nat]
    BY <2>3
  <2> HIDE DEF g
  <2>6. g \in Tallies(rs, n)
    BY <2>4, <2>5 DEF Tallies
  <2> QED
    BY <1>2, <2>6
<1> QED
  BY <1>3, <1>4

LEMMA ChosenTally ==
  ASSUME NEW rs \in Seq(FoldRec)
  PROVE  \E f : /\ IsTally(f, rs) /\ SumTrades(rs) = f[Len(rs)]
                /\ f[0] = 0 /\ \A i \in 1..Len(rs) : f[i] = f[i - 1] + rs[i].trades
<1>1. PICK g : g \in Tallies(rs, Len(rs))
  BY TallyExists, SeqOfFolds
<1>2. IsTally(g, rs)
  BY <1>1, SeqOfFolds DEF Tallies, IsTally
<1> DEFINE f == CHOOSE h : IsTally(h, rs)
<1>3. IsTally(f, rs)
  BY <1>2
<1> HIDE DEF f
<1>4. f[0] = 0 /\ \A i \in 1..Len(rs) : f[i] = f[i - 1] + rs[i].trades
  BY <1>3, SeqOfFolds DEF IsTally
<1> QED
  BY <1>3, <1>4, SumIsTally DEF f

(* Two tallies agree as far as the sequences do.                           *)
LEMMA TalliesAgree ==
  ASSUME NEW n \in Nat, NEW rs, NEW f, NEW g \in Tallies(rs, n),
         f[0] = 0, \A i \in 1..n : f[i] = f[i - 1] + rs[i].trades
  PROVE  f[n] = g[n]
<1> DEFINE T == {i \in 0..n : f[i] # g[i]}
<1>1. SUFFICES ASSUME T # {} PROVE FALSE
  OBVIOUS
<1>2. PICK i \in T : \A j \in T : i <= j
  <2>1. T \subseteq Nat
    OBVIOUS
  <2> HIDE DEF T
  <2> QED
    BY <1>1, <2>1, NatMin
<1>3. i # 0
  BY <1>2 DEF Tallies
<1>4. i - 1 \in 0..n /\ i - 1 \notin T /\ i \in 1..n
  BY <1>2, <1>3
<1> QED
  BY <1>2, <1>4 DEF Tallies

LEMMA SumTradesAppend ==
  ASSUME NEW rs \in Seq(FoldRec), NEW x \in FoldRec
  PROVE  /\ SumTrades(rs) \in Nat
         /\ SumTrades(Append(rs, x)) = SumTrades(rs) + x.trades
<1> DEFINE n == Len(rs)
<1> DEFINE ys == Append(rs, x)
<1>1. PICK g : g \in Tallies(rs, n)
  BY TallyExists, SeqOfFolds
<1>2. PICK f : /\ SumTrades(rs) = f[n]
               /\ f[0] = 0 /\ \A i \in 1..n : f[i] = f[i - 1] + rs[i].trades
  BY ChosenTally
<1>3. /\ ys \in Seq(FoldRec) /\ Len(ys) = n + 1 /\ n \in Nat
      /\ \A i \in 1..n : ys[i] = rs[i]
      /\ ys[n + 1] = x
  BY AppendProperties, SeqOfFolds
<1> HIDE DEF ys
<1>4. PICK h : /\ SumTrades(ys) = h[Len(ys)]
               /\ h[0] = 0 /\ \A i \in 1..Len(ys) : h[i] = h[i - 1] + ys[i].trades
  BY <1>3, ChosenTally
<1>5. f[n] = g[n] /\ g[n] \in Nat
  <2>1. g[n] \in Nat
    BY <1>1, <1>3 DEF Tallies
  <2> HIDE DEF n
  <2> QED
    BY <1>1, <1>2, <1>3, <2>1, TalliesAgree
<1>6. h[n] = g[n]
  <2>1. \A i \in 1..n : h[i] = h[i - 1] + rs[i].trades
    BY <1>3, <1>4
  <2> QED
    BY <1>1, <1>3, <1>4, <2>1, TalliesAgree
<1>7. h[n + 1] = h[n] + x.trades
  BY <1>3, <1>4
<1> QED
  BY <1>2, <1>3, <1>4, <1>5, <1>6, <1>7 DEF ys

LEMMA SumTradesEmpty == SumTrades(<<>>) = 0
<1>1. <<>> \in Seq(FoldRec) /\ Len(<<>>) = 0
  BY EmptySeq
<1> QED
  BY <1>1, ChosenTally

-----------------------------------------------------------------------------
(* Windows *)

LEMMA WindowsShape ==
  ASSUME NEW c \in Commands
  PROVE  /\ Len(Windows[c]) \in Nat /\ DOMAIN Windows[c] = 1..Len(Windows[c])
         /\ \A i, j \in 1..Len(Windows[c]) :
              i < j /\ DaysOf(Windows[c][i]) \cap DaysOf(Windows[c][j]) # {}
                => Work[c].plan.step < Work[c].plan.test
<1> DEFINE p == Work[c].plan
<1> DEFINE n == (p.end - p.start - p.train - p.test) \div p.step + 1
<1> DEFINE From(i) == p.start + (i - 1) * p.step + p.train + 1
<1> DEFINE To(i) == p.start + (i - 1) * p.step + p.train + p.test
<1>0. CASE ~Runnable(p)
  <2>1. Windows[c] = <<>>
    BY <1>0 DEF Windows
  <2> QED
    BY <2>1
<1> SUFFICES ASSUME Runnable(p) PROVE
         /\ Len(Windows[c]) \in Nat /\ DOMAIN Windows[c] = 1..Len(Windows[c])
         /\ \A i, j \in 1..Len(Windows[c]) :
              i < j /\ DaysOf(Windows[c][i]) \cap DaysOf(Windows[c][j]) # {} => p.step < p.test
  BY <1>0
<1>1. /\ p.start \in Nat /\ p.end \in Nat /\ p.train \in Nat /\ p.test \in Nat /\ p.step \in Nat
      /\ p.start < p.end /\ p.train > 0 /\ p.test > 0 /\ p.step > 0
  BY WorkAssumption DEF Runnable
<1>2. Windows[c] = FoldWindows(p)
  BY DEF Windows
<1>3. CASE p.end - p.start < p.train + p.test
  <2>1. Windows[c] = <<[from |-> p.start + (7 * (p.end - p.start)) \div 10 + 1, to |-> p.end]>>
    BY <1>2, <1>3 DEF FoldWindows
  <2>2. Len(Windows[c]) = 1 /\ DOMAIN Windows[c] = 1..1
    BY <2>1
  <2> QED
    BY <2>2
<1>4. CASE ~(p.end - p.start < p.train + p.test)
  <2>1. n \in Nat
    <3>1. p.end - p.start - p.train - p.test \in Nat
      BY <1>1, <1>4
    <3>2. (p.end - p.start - p.train - p.test) \div p.step \in Nat
      BY <1>1, <3>1
    <3> QED
      BY <3>2
  <2>2. Windows[c] = [i \in 1..n |-> [from |-> From(i), to |-> To(i)]]
    BY <1>1, <1>2, <1>4 DEF FoldWindows
  <2> HIDE DEF n
  <2>3. Len(Windows[c]) = n /\ DOMAIN Windows[c] = 1..n
    <3>1. Windows[c] \in [1..n -> {[from |-> From(i), to |-> To(i)] : i \in 1..n}]
      BY <2>2
    <3>2. Windows[c] \in Seq({[from |-> From(i), to |-> To(i)] : i \in 1..n})
      BY <2>1, <3>1, SeqDef
    <3>3. DOMAIN Windows[c] = 1..n /\ DOMAIN Windows[c] = 1..Len(Windows[c]) /\ Len(Windows[c]) \in Nat
      BY <3>1, <3>2, LenProperties
    <3> QED
      BY <2>1, <3>3
  <2>4. ASSUME NEW i \in 1..n, NEW j \in 1..n, i < j, NEW d \in Int,
               d <= To(i), From(j) <= d
        PROVE  p.step < p.test
    <3>1. From(j) <= To(i)
      BY <1>1, <2>4
    <3>2. (j - 1) * p.step = (i - 1) * p.step + (j - i) * p.step
      BY <1>1
    <3>3. (j - i) * p.step >= p.step
      <4>1. \A a, b \in Nat : a >= 1 => a * b >= b
        OBVIOUS
      <4> QED
        BY <1>1, <2>4, <4>1
    <3> HIDE DEF p
    <3> QED
      BY <1>1, <3>1, <3>2, <3>3
  <2>5. ASSUME NEW i \in 1..n, NEW j \in 1..n, i < j, DaysOf(Windows[c][i]) \cap DaysOf(Windows[c][j]) # {}
        PROVE  p.step < p.test
    <3>1. PICK d \in TradingDays : d <= To(i) /\ From(j) <= d
      BY <2>2, <2>5 DEF DaysOf
    <3>2. d \in Int
      BY WorkAssumption
    <3> QED
      BY <2>4, <2>5, <3>1, <3>2
  <2> QED
    BY <2>1, <2>3, <2>5
<1> QED
  BY <1>3, <1>4

-----------------------------------------------------------------------------
(* The invariant *)

Pcs == {"start", "fold", "equity", "trades", "except", "combo", "persist", "settle", "count",
        "done", "raised", "killed"}
Cfgs == {Work[c].cfgs[i] : c \in Commands, i \in Nat}
RowType == [cfg: Cfgs, by: Commands, status: {"running", "completed", "failed"},
            passed: {"null", "yes", "no"}, nTrades: Nat, folds: Seq(FoldRec)]
CmdType == [pc: Pcs, item: Nat, run: Nat, fold: Nat, results: Seq(FoldRec), left: Nat,
            error: BOOLEAN, ok: Nat, passed: Nat]

Typed ==
  /\ runs \in Seq(RowType)
  /\ \A r \in 1..Len(runs) : (runs[r].status = "completed") = (runs[r].passed # "null")
  /\ equity \subseteq (1..Len(runs)) \X TradingDays
  /\ features \subseteq (1..Len(runs)) \X TradingDays
  /\ trades \in [0..Len(runs) -> Nat]
  /\ cmd \in [Commands -> CmdType]
  /\ \A c \in Commands : cmd[c].run \in 0..Len(runs)
  /\ faults \in Nat

(* The days of the first n windows of a command's plan, those of them with *)
(* features, and whether these windows share no day.                       *)
DaysUpTo(c, n) == UNION {DaysOf(Windows[c][i]) : i \in 1..n}
FeaturesUpTo(c, n) == UNION {FeatureDays(c, Windows[c][i]) : i \in 1..n}
Apart(c, n) ==
  \A i, j \in 1..n : i < j => DaysOf(Windows[c][i]) \cap DaysOf(Windows[c][j]) = {}
(* What fails the run of a command without a fault.                        *)
Excused(c) == ~Runnable(Work[c].plan) \/ Clashing(c)

Backtesting == {"fold", "equity", "trades"}

(* What the tables hold of the row a backtest is working on.               *)
Behind(c, l) ==
  /\ Runnable(Work[c].plan)
  /\ l.fold \in 1..(Len(Windows[c]) + 1)
  /\ l.pc # "fold" => l.fold <= Len(Windows[c])
  /\ l.pc = "fold" => l.left = 0
  /\ trades[l.run] + l.left = SumTrades(l.results)
  /\ LET n == IF l.pc = "trades" THEN l.fold ELSE l.fold - 1 IN
       /\ DaysIn(equity, l.run) = DaysUpTo(c, n)
       /\ Apart(c, n)
  /\ DaysIn(features, l.run) = FeaturesUpTo(c, l.fold - 1)

LocalsOK(c, l) ==
  /\ l.pc = "start" => l = Fresh
  /\ l.pc \in Backtesting \cup {"except"} =>
       ~IsGrid(c) /\ l.run # NoRun /\ runs[l.run].by = c /\ runs[l.run].status = "running"
  /\ l.pc \in Backtesting => Behind(c, l)
  /\ l.pc = "except" => faults # 0 \/ Excused(c)
  /\ l.pc \in {"combo", "persist", "settle", "count"} => IsGrid(c)
  /\ l.pc \in {"persist", "settle"} =>
       IF l.error THEN faults # 0 \/ Excused(c) ELSE Runnable(Work[c].plan)
  /\ l.pc = "settle" => l.run # NoRun /\ runs[l.run].by = c /\ runs[l.run].status = "running"

RowOK(r) ==
  LET c == runs[r].by IN
  /\ ~IsGrid(c) /\ runs[r].status = "completed" =>
       /\ DaysIn(equity, r) = DaysUpTo(c, Len(Windows[c]))
       /\ DaysIn(features, r) = FeaturesUpTo(c, Len(Windows[c]))
       /\ trades[r] = runs[r].nTrades
       /\ Apart(c, Len(Windows[c]))
  /\ runs[r].status = "completed" => Runnable(Work[c].plan)
  /\ runs[r].status = "failed" => faults # 0 \/ Excused(c)

RunInv ==
  /\ Typed
  /\ \A c \in Commands : LocalsOK(c, cmd[c])
  /\ \A r \in 1..Len(runs) : RowOK(r)

LEMMA InitRunInv == Init => RunInv
<1> SUFFICES ASSUME Init PROVE RunInv
  OBVIOUS
<1>1. runs \in Seq(RowType) /\ Len(runs) = 0 /\ <<>> \in Seq(FoldRec)
  BY EmptySeq DEF Init
<1>2. Fresh \in CmdType
  BY <1>1 DEF Fresh, CmdType, Pcs, NoRun
<1>3. \A c \in Commands : cmd[c] = Fresh
  BY DEF Init
<1>4. trades \in [0..Len(runs) -> Nat]
  BY <1>1 DEF Init, NoRun
<1>5. Typed
  BY <1>1, <1>2, <1>3, <1>4 DEF Init, Typed, Fresh, NoRun
<1>6. \A c \in Commands : LocalsOK(c, cmd[c])
  <2>1. Fresh.pc = "start"
    BY DEF Fresh
  <2> QED
    BY <1>3, <2>1 DEF LocalsOK, Backtesting
<1> QED
  BY <1>1, <1>5, <1>6 DEF RunInv

(* A command writes to its own run only, or adds one.                      *)
SameRow(r) ==
  /\ runs'[r] = runs[r] /\ trades'[r] = trades[r]
  /\ DaysIn(equity', r) = DaysIn(equity, r) /\ DaysIn(features', r) = DaysIn(features, r)

Minds(c) ==
  /\ Len(runs) <= Len(runs') /\ Len(runs') <= Len(runs) + 1
  /\ \A r \in 1..Len(runs) : r # cmd[c].run => SameRow(r)
  /\ \A r \in 1..Len(runs) : runs'[r].by = runs[r].by
  /\ faults # 0 => faults' # 0

LEMMA OtherLocals ==
  ASSUME NEW c \in Commands, NEW i \in Commands, i # c, Typed,
         LocalsOK(i, cmd[i]), cmd'[i] = cmd[i], Minds(c),
         cmd[c].run \in 1..Len(runs) => \/ runs[cmd[c].run].by = c
                                        \/ \A r \in 1..Len(runs) : SameRow(r)
  PROVE  LocalsOK(i, cmd[i])'
<1> DEFINE l == cmd[i]
<1>1. l.run \in 0..Len(runs)
  BY DEF Typed
<1>2. ASSUME l.run # NoRun, runs[l.run].by = i PROVE SameRow(l.run)
  BY <1>1, <1>2 DEF Minds, NoRun
<1>3. ASSUME l.pc \in Backtesting PROVE Behind(i, l)'
  <2>1. SameRow(l.run) /\ Behind(i, l)
    BY <1>2, <1>3 DEF LocalsOK
  <2> QED
    BY <2>1 DEF Behind, SameRow
<1> QED
  BY <1>2, <1>3 DEF LocalsOK, SameRow, Minds

LEMMA StepShape ==
  ASSUME RunInv, NEW c \in Commands, NEW new \in CmdType, cmd' = [cmd EXCEPT ![c] = new],
         Typed', Minds(c), LocalsOK(c, cmd[c])',
         cmd[c].run \in 1..Len(runs) => \/ runs[cmd[c].run].by = c
                                        \/ \A r \in 1..Len(runs) : SameRow(r),
         \A r \in 1..Len(runs') : r = cmd[c].run \/ r \notin 1..Len(runs) => RowOK(r)'
  PROVE  RunInv'
<1>1. cmd \in [Commands -> CmdType]
  BY DEF RunInv, Typed
<1>2. ASSUME NEW i \in Commands PROVE LocalsOK(i, cmd[i])'
  <2>1. CASE i = c
    BY <2>1
  <2>2. CASE i # c
    <3>1. cmd'[i] = cmd[i]
      BY <1>1, <2>2
    <3> QED
      BY <2>2, <3>1, OtherLocals DEF RunInv
  <2> QED
    BY <2>1, <2>2
<1>3. ASSUME NEW r \in 1..Len(runs') PROVE RowOK(r)'
  <2>1. CASE r = cmd[c].run \/ r \notin 1..Len(runs)
    BY <2>1
  <2>2. CASE r # cmd[c].run /\ r \in 1..Len(runs)
    BY <2>2 DEF RunInv, RowOK, Minds, SameRow
  <2> QED
    BY <2>1, <2>2
<1> QED
  BY <1>2, <1>3 DEF RunInv

(* A step in memory.                                                       *)
LEMMA MemoryKeeps ==
  ASSUME RunInv, NEW c \in Commands, NEW new \in CmdType, cmd' = [cmd EXCEPT ![c] = new],
         new.run \in 0..Len(runs), UNCHANGED <<runs, equity, features, trades>>,
         faults' \in Nat, faults # 0 => faults' # 0, LocalsOK(c, cmd[c])'
  PROVE  RunInv'
<1>1. cmd \in [Commands -> CmdType]
  BY DEF RunInv, Typed
<1>2. Typed'
  <2>1. \A i \in Commands : cmd'[i].run \in 0..Len(runs)
    BY <1>1 DEF RunInv, Typed
  <2> QED
    BY <1>1, <2>1 DEF RunInv, Typed
<1>3. Len(runs) \in Nat
  BY LenProperties DEF RunInv, Typed
<1>4. Minds(c) /\ \A r \in 1..Len(runs) : SameRow(r)
  BY <1>3 DEF Minds, SameRow
<1>5. \A r \in 1..Len(runs') : RowOK(r)'
  BY <1>4 DEF RunInv, RowOK, SameRow, Minds
<1> QED
  BY <1>2, <1>4, <1>5, StepShape

-----------------------------------------------------------------------------
(* Days and keys *)

LEMMA DaysInKeys ==
  ASSUME NEW R, NEW keys, keys \subseteq R \X TradingDays, NEW r
  PROVE  DaysIn(keys, r) = {d \in TradingDays : <<r, d>> \in keys}
<1>1. \A k \in keys : k = <<k[1], k[2]>> /\ k[2] \in TradingDays
  OBVIOUS
<1>2. ASSUME NEW d, d \in DaysIn(keys, r) PROVE d \in TradingDays /\ <<r, d>> \in keys
  BY <1>1, <1>2 DEF DaysIn
<1>3. ASSUME NEW d \in TradingDays, <<r, d>> \in keys PROVE d \in DaysIn(keys, r)
  <2>1. <<r, d>> \in {x \in keys : x[1] = r} /\ <<r, d>>[2] = d
    BY <1>3
  <2> QED
    BY <2>1, Zenon DEF DaysIn
<1> QED
  BY <1>2, <1>3

LEMMA DaysUpToNext ==
  ASSUME NEW c, NEW n \in Nat \ {0}
  PROVE  /\ DaysUpTo(c, n) = DaysUpTo(c, n - 1) \cup DaysOf(Windows[c][n])
         /\ Apart(c, n - 1) /\ DaysOf(Windows[c][n]) \cap DaysUpTo(c, n - 1) = {} => Apart(c, n)
<1>1. 1..n = 1..(n - 1) \cup {n}
  OBVIOUS
<1>2. DaysUpTo(c, n) = DaysUpTo(c, n - 1) \cup DaysOf(Windows[c][n])
  BY <1>1 DEF DaysUpTo
<1>3. ASSUME Apart(c, n - 1), DaysOf(Windows[c][n]) \cap DaysUpTo(c, n - 1) = {},
             NEW i \in 1..n, NEW j \in 1..n, i < j
      PROVE  DaysOf(Windows[c][i]) \cap DaysOf(Windows[c][j]) = {}
  <2>1. CASE j = n
    <3>1. i \in 1..(n - 1)
      BY <1>3, <2>1
    <3>2. DaysOf(Windows[c][i]) \subseteq DaysUpTo(c, n - 1)
      BY <3>1 DEF DaysUpTo
    <3> QED
      BY <1>3, <2>1, <3>2
  <2>2. CASE j # n
    BY <1>3, <2>2 DEF Apart
  <2> QED
    BY <2>1, <2>2
<1> QED
  BY <1>2, <1>3 DEF Apart

LEMMA FeaturesUpToNext ==
  ASSUME NEW c, NEW n \in Nat \ {0}
  PROVE  FeaturesUpTo(c, n) = FeaturesUpTo(c, n - 1) \cup FeatureDays(c, Windows[c][n])
<1>1. 1..n = 1..(n - 1) \cup {n}
  OBVIOUS
<1> QED
  BY <1>1 DEF FeaturesUpTo

LEMMA FeatureDaysOfWindow == \A c, w : FeatureDays(c, w) \subseteq DaysOf(w)
BY DEF FeatureDays

-----------------------------------------------------------------------------
(* A backtest *)

(* What a backtest may rely on.                                            *)
LEMMA InBacktest ==
  ASSUME RunInv, NEW c \in Commands, cmd[c].pc \in Backtesting
  PROVE  /\ cmd[c] \in CmdType /\ ~IsGrid(c) /\ Behind(c, cmd[c])
         /\ cmd[c].run \in 1..Len(runs) /\ Len(runs) \in Nat
         /\ runs[cmd[c].run] \in RowType
         /\ runs[cmd[c].run].by = c /\ runs[cmd[c].run].status = "running"
<1>1. cmd[c] \in CmdType /\ cmd[c].run \in 0..Len(runs) /\ runs \in Seq(RowType)
  BY DEF RunInv, Typed
<1>2. /\ ~IsGrid(c) /\ Behind(c, cmd[c]) /\ cmd[c].run # NoRun
      /\ runs[cmd[c].run].by = c /\ runs[cmd[c].run].status = "running"
  BY DEF RunInv, LocalsOK
<1>3. Len(runs) \in Nat /\ cmd[c].run \in 1..Len(runs)
  BY <1>1, <1>2, LenProperties DEF NoRun
<1> QED
  BY <1>1, <1>2, <1>3, ElementOfSeq

(* A step that writes to the tables of the backtest's own run.             *)
LEMMA TableStep ==
  ASSUME RunInv, NEW c \in Commands, cmd[c].pc \in Backtesting,
         NEW new \in CmdType, cmd' = [cmd EXCEPT ![c] = new], new.run = cmd[c].run,
         UNCHANGED <<runs, faults>>,
         equity' \subseteq (1..Len(runs)) \X TradingDays,
         features' \subseteq (1..Len(runs)) \X TradingDays,
         trades' \in [0..Len(runs) -> Nat],
         \A r \in 1..Len(runs) : r # cmd[c].run => SameRow(r),
         LocalsOK(c, cmd[c])'
  PROVE  RunInv'
<1> DEFINE l == cmd[c]
<1>1. /\ l.run \in 1..Len(runs) /\ Len(runs) \in Nat
      /\ runs[l.run].by = c /\ runs[l.run].status = "running"
  BY InBacktest
<1>2. cmd' \in [Commands -> CmdType] /\ \A i \in Commands : cmd'[i].run \in 0..Len(runs)
  BY <1>1 DEF RunInv, Typed
<1>3. Typed'
  BY <1>2 DEF RunInv, Typed
<1>4. Minds(c)
  BY <1>1 DEF Minds
<1>5. ASSUME NEW r \in 1..Len(runs), r = l.run PROVE RowOK(r)'
  <2>1. runs'[r].status = "running"
    BY <1>1, <1>5
  <2> QED
    BY <2>1 DEF RowOK
<1>6. Len(runs') = Len(runs)
  OBVIOUS
<1> QED
  BY <1>1, <1>3, <1>4, <1>5, <1>6, StepShape

LEMMA RunFoldInv ==
  ASSUME RunInv, NEW c \in Commands, RunFold(c)
  PROVE  RunInv'
<1> DEFINE l == cmd[c]
<1> DEFINE D == DaysOf(Windows[c][l.fold])
<1>1. l.pc = "fold" /\ l.pc \in Backtesting /\ l.fold <= Len(Windows[c])
  BY DEF RunFold, At, Backtesting
<1>2. /\ l \in CmdType /\ ~IsGrid(c) /\ Behind(c, l) /\ l.run \in 1..Len(runs) /\ Len(runs) \in Nat
      /\ runs[l.run].by = c /\ runs[l.run].status = "running"
  BY <1>1, InBacktest
<1>3. UNCHANGED <<runs, equity, features, trades, faults>> /\ faults' \in Nat
  BY DEF RunFold, Rows, Quiet, RunInv, Typed
<1>4. /\ l.fold \in Nat \ {0} /\ l.fold + 1 \in Nat /\ Len(Windows[c]) \in Nat /\ l.left = 0
      /\ trades[l.run] + l.left = SumTrades(l.results)
      /\ DaysIn(equity, l.run) = DaysUpTo(c, l.fold - 1) /\ Apart(c, l.fold - 1)
      /\ DaysIn(features, l.run) = FeaturesUpTo(c, l.fold - 1) /\ Runnable(Work[c].plan)
  BY <1>1, <1>2, WindowsShape DEF Behind
<1>5. CASE D = {}
  <2> DEFINE new == [l EXCEPT !.fold = @ + 1, !.results = Append(@, EmptyFold)]
  <2>1. EmptyFold \in FoldRec /\ EmptyFold.trades = 0
    BY DEF EmptyFold, FoldRec
  <2>2. /\ Append(l.results, EmptyFold) \in Seq(FoldRec)
        /\ SumTrades(Append(l.results, EmptyFold)) = SumTrades(l.results)
    BY <1>2, <2>1, SumTradesAppend, AppendProperties DEF CmdType
  <2>3. new \in CmdType
    BY <1>2, <1>4, <2>2 DEF CmdType
  <2>4. /\ DaysUpTo(c, l.fold) = DaysUpTo(c, l.fold - 1) /\ Apart(c, l.fold)
        /\ FeaturesUpTo(c, l.fold) = FeaturesUpTo(c, l.fold - 1)
    <3>1. DaysOf(Windows[c][l.fold]) = {} /\ l.fold \in Nat \ {0} /\ Apart(c, l.fold - 1)
      BY <1>4, <1>5
    <3>2. FeatureDays(c, Windows[c][l.fold]) = {}
      BY <3>1, FeatureDaysOfWindow
    <3> HIDE DEF l
    <3>3. DaysUpTo(c, l.fold) = DaysUpTo(c, l.fold - 1) /\ Apart(c, l.fold)
      BY <3>1, DaysUpToNext
    <3>4. FeaturesUpTo(c, l.fold) = FeaturesUpTo(c, l.fold - 1) \cup FeatureDays(c, Windows[c][l.fold])
      BY <3>1, FeaturesUpToNext
    <3> QED
      BY <3>2, <3>3, <3>4
  <2>5. new.pc = "fold" /\ new.run = l.run /\ new.fold = l.fold + 1 /\ new.left = l.left
        /\ new.results = Append(l.results, EmptyFold)
    BY <1>1, <1>2 DEF CmdType
  <2>6. cmd' = [cmd EXCEPT ![c] = new] /\ cmd'[c] = new
    BY <1>5 DEF RunFold, Update, RunInv, Typed
  <2> HIDE DEF new
  <2>7. Behind(c, cmd[c])'
    <3>1. /\ cmd'[c].pc = "fold" /\ cmd'[c].fold = l.fold + 1 /\ cmd'[c].left = 0
          /\ cmd'[c].run = l.run /\ cmd'[c].results = Append(l.results, EmptyFold)
      BY <1>4, <2>5, <2>6
    <3>2. cmd'[c].fold \in 1..(Len(Windows[c]) + 1) /\ cmd'[c].fold - 1 = l.fold
      BY <1>1, <1>4, <3>1
    <3>3. trades'[l.run] + 0 = SumTrades(Append(l.results, EmptyFold))
      BY <1>3, <1>4, <2>2
    <3>4. /\ DaysIn(equity', l.run) = DaysUpTo(c, l.fold) /\ Apart(c, l.fold)
          /\ DaysIn(features', l.run) = FeaturesUpTo(c, l.fold) /\ Runnable(Work[c].plan)
      BY <1>3, <1>4, <2>4
    <3> HIDE DEF l
    <3> QED
      BY <3>1, <3>2, <3>3, <3>4 DEF Behind
  <2>8. LocalsOK(c, cmd[c])'
    BY <1>2, <1>3, <2>5, <2>6, <2>7 DEF LocalsOK, NoRun
  <2> QED
    <3>1. new.run \in 0..Len(runs) /\ (faults # 0 => faults' # 0)
      BY <1>2, <1>3, <2>5
    <3> QED
      BY <1>3, <2>3, <2>6, <2>8, <3>1, MemoryKeeps
<1>6. CASE D # {}
  <2>1. PICK r \in FoldResults[c] :
          cmd' = [cmd EXCEPT ![c] = [l EXCEPT !.pc = "equity", !.left = r.trades, !.results = Append(@, r)]]
    BY <1>6 DEF RunFold, Update
  <2> DEFINE new == [l EXCEPT !.pc = "equity", !.left = r.trades, !.results = Append(@, r)]
  <2>2. r \in FoldRec /\ r.trades \in Nat
    BY WorkAssumption DEF FoldRec
  <2>3. /\ Append(l.results, r) \in Seq(FoldRec) /\ SumTrades(l.results) \in Nat
        /\ SumTrades(Append(l.results, r)) = SumTrades(l.results) + r.trades
    BY <1>2, <2>2, SumTradesAppend, AppendProperties DEF CmdType
  <2>4. new \in CmdType
    BY <1>2, <2>2, <2>3 DEF CmdType, Pcs
  <2>5. new.pc = "equity" /\ new.run = l.run /\ new.fold = l.fold /\ new.left = r.trades
        /\ new.results = Append(l.results, r)
    BY <1>2 DEF CmdType
  <2>6. trades[l.run] \in Nat /\ cmd'[c] = new
    BY <1>2, <2>1 DEF RunInv, Typed
  <2> HIDE DEF new
  <2>7. Behind(c, cmd[c])'
    <3>1. /\ cmd'[c].pc = "equity" /\ cmd'[c].fold = l.fold /\ cmd'[c].left = r.trades
          /\ cmd'[c].run = l.run /\ cmd'[c].results = Append(l.results, r)
      BY <2>5, <2>6
    <3>2. l.fold \in 1..(Len(Windows[c]) + 1)
      BY <1>1, <1>4
    <3>3. trades'[l.run] + r.trades = SumTrades(Append(l.results, r))
      BY <1>3, <1>4, <2>3, <2>6
    <3>4. /\ DaysIn(equity', l.run) = DaysUpTo(c, l.fold - 1) /\ Apart(c, l.fold - 1)
          /\ DaysIn(features', l.run) = FeaturesUpTo(c, l.fold - 1) /\ Runnable(Work[c].plan)
      BY <1>3, <1>4
    <3> HIDE DEF l
    <3> QED
      BY <1>1, <3>1, <3>2, <3>3, <3>4 DEF Behind
  <2>8. LocalsOK(c, cmd[c])'
    BY <1>2, <1>3, <2>5, <2>6, <2>7 DEF LocalsOK, Backtesting, NoRun
  <2> QED
    <3>1. new.run \in 0..Len(runs) /\ (faults # 0 => faults' # 0) /\ cmd' = [cmd EXCEPT ![c] = new]
      BY <1>2, <1>3, <2>1, <2>5 DEF new
    <3> QED
      BY <1>3, <2>4, <2>8, <3>1, MemoryKeeps
<1> QED
  BY <1>5, <1>6

LEMMA WriteEquityInv ==
  ASSUME RunInv, NEW c \in Commands, WriteEquity(c)
  PROVE  RunInv'
<1> DEFINE l == cmd[c]
<1> DEFINE D == DaysOf(Windows[c][l.fold])
<1>1. l.pc = "equity" /\ l.pc \in Backtesting
  BY DEF WriteEquity, At, Backtesting
<1>2. /\ l \in CmdType /\ ~IsGrid(c) /\ Behind(c, l) /\ l.run \in 1..Len(runs) /\ Len(runs) \in Nat
      /\ runs[l.run].by = c /\ runs[l.run].status = "running" /\ runs[l.run] \in RowType
  BY <1>1, InBacktest
<1>3. UNCHANGED <<runs, features, trades, faults>> /\ faults' \in Nat
  BY DEF WriteEquity, Quiet, RunInv, Typed
<1>4. l.fold \in Nat \ {0} /\ Len(Windows[c]) \in Nat /\ l.fold <= Len(Windows[c])
  BY <1>1, <1>2, WindowsShape DEF Behind
<1>5. /\ CurveKeys(c) = {<<l.run, d>> : d \in D} /\ D \subseteq TradingDays
      /\ equity \subseteq (1..Len(runs)) \X TradingDays
  BY DEF CurveKeys, DaysOf, RunInv, Typed
<1>6. DaysIn(equity, l.run) = {d \in TradingDays : <<l.run, d>> \in equity}
  BY <1>5, DaysInKeys
<1>7. DaysIn(equity, l.run) = DaysUpTo(c, l.fold - 1) /\ Apart(c, l.fold - 1)
  BY <1>1, <1>2 DEF Behind
<1>8. CASE CurveKeys(c) \cap equity = {}
  <2> DEFINE new == [l EXCEPT !.pc = "trades"]
  <2>1. cmd' = [cmd EXCEPT ![c] = new] /\ cmd'[c] = new /\ equity' = equity \cup {<<l.run, d>> : d \in D}
    BY <1>5, <1>8 DEF WriteEquity, Go, Update, RunInv, Typed
  <2>2. new \in CmdType
    BY <1>2 DEF CmdType, Pcs
  <2>3. new.pc = "trades" /\ new.run = l.run /\ new.fold = l.fold /\ new.left = l.left
        /\ new.results = l.results
    BY <1>2 DEF CmdType
  <2>4. /\ equity' \subseteq (1..Len(runs)) \X TradingDays
        /\ DaysIn(equity', l.run) = DaysIn(equity, l.run) \cup D
        /\ \A r : r # l.run => DaysIn(equity', r) = DaysIn(equity, r)
    <3>1. /\ l.run \in 1..Len(runs) /\ D \subseteq TradingDays
          /\ equity \subseteq (1..Len(runs)) \X TradingDays
          /\ equity' = equity \cup {<<l.run, d>> : d \in D}
      BY <1>2, <1>5, <2>1
    <3>2. equity' \subseteq (1..Len(runs)) \X TradingDays
      BY <3>1
    <3>3. \A r : DaysIn(equity', r) = {d \in TradingDays : <<r, d>> \in equity'}
      BY <3>2, DaysInKeys
    <3>4. \A r : DaysIn(equity, r) = {d \in TradingDays : <<r, d>> \in equity}
      BY <3>1, DaysInKeys
    <3>5. \A r, d : <<r, d>> \in equity' <=> <<r, d>> \in equity \/ (r = l.run /\ d \in D)
      BY <3>1
    <3> HIDE DEF l, D
    <3>6. DaysIn(equity', l.run) = DaysIn(equity, l.run) \cup D
      BY <3>1, <3>3, <3>4, <3>5
    <3>7. \A r : r # l.run => DaysIn(equity', r) = DaysIn(equity, r)
      BY <3>3, <3>4, <3>5
    <3> QED
      BY <3>2, <3>6, <3>7
  <2>5. D \cap DaysUpTo(c, l.fold - 1) = {}
    BY <1>5, <1>6, <1>7, <1>8
  <2>6. DaysIn(equity', l.run) = DaysUpTo(c, l.fold) /\ Apart(c, l.fold)
    BY <1>4, <1>7, <2>4, <2>5, DaysUpToNext
  <2> HIDE DEF new
  <2>7. Behind(c, cmd[c])'
    BY <1>1, <1>2, <1>3, <1>4, <2>1, <2>3, <2>6 DEF Behind
  <2>8. LocalsOK(c, cmd[c])'
    BY <1>2, <1>3, <2>1, <2>3, <2>7 DEF LocalsOK, NoRun
  <2>9. \A r \in 1..Len(runs) : r # l.run => SameRow(r)
    BY <1>3, <2>4 DEF SameRow
  <2>10. features' \subseteq (1..Len(runs)) \X TradingDays /\ trades' \in [0..Len(runs) -> Nat]
    BY <1>3 DEF RunInv, Typed
  <2> QED
    BY <1>1, <1>3, <2>1, <2>2, <2>3, <2>4, <2>8, <2>9, <2>10, TableStep
<1>9. CASE CurveKeys(c) \cap equity # {}
  <2> DEFINE new == [l EXCEPT !.pc = "except"]
  <2>1. cmd' = [cmd EXCEPT ![c] = new] /\ cmd'[c] = new /\ equity' = equity
    BY <1>9 DEF WriteEquity, Go, Update, RunInv, Typed
  <2>2. new \in CmdType /\ new.pc = "except" /\ new.run = l.run
    BY <1>2 DEF CmdType, Pcs
  <2>3. PICK d \in D : d \in DaysUpTo(c, l.fold - 1)
    BY <1>5, <1>6, <1>7, <1>9
  <2>4. PICK i \in 1..(l.fold - 1) : d \in DaysOf(Windows[c][i])
    BY <2>3 DEF DaysUpTo
  <2>5. Excused(c)
    <3>1. i \in 1..Len(Windows[c]) /\ l.fold \in 1..Len(Windows[c]) /\ i < l.fold
      BY <1>4
    <3>2. DaysOf(Windows[c][i]) \cap DaysOf(Windows[c][l.fold]) # {}
      BY <2>3, <2>4
    <3>3. Overlapping(c)
      BY <3>1, <3>2, WindowsShape DEF Overlapping
    <3> QED
      BY <1>2, <3>3 DEF Excused, Clashing
  <2> HIDE DEF new
  <2>6. LocalsOK(c, cmd[c])'
    BY <1>2, <1>3, <2>1, <2>2, <2>5 DEF LocalsOK, Backtesting, NoRun
  <2> QED
    <3>1. new.run \in 0..Len(runs) /\ (faults # 0 => faults' # 0)
      BY <1>2, <1>3, <2>2
    <3> QED
      BY <1>3, <2>1, <2>2, <2>6, <3>1, MemoryKeeps
<1> QED
  BY <1>8, <1>9


LEMMA WriteTradeInv ==
  ASSUME RunInv, NEW c \in Commands, WriteTrade(c)
  PROVE  RunInv'
<1> DEFINE l == cmd[c]
<1> DEFINE new == [l EXCEPT !.left = @ - 1]
<1>1. l.pc = "trades" /\ l.pc \in Backtesting /\ l.left > 0
  BY DEF WriteTrade, At, Backtesting
<1>2. /\ l \in CmdType /\ ~IsGrid(c) /\ Behind(c, l) /\ l.run \in 1..Len(runs) /\ Len(runs) \in Nat
      /\ runs[l.run].by = c /\ runs[l.run].status = "running"
  BY <1>1, InBacktest
<1>3. /\ UNCHANGED <<runs, equity, features, faults>> /\ cmd' = [cmd EXCEPT ![c] = new]
      /\ trades' = [trades EXCEPT ![l.run] = @ + 1]
  BY DEF WriteTrade, Quiet, Update
<1>4. /\ trades \in [0..Len(runs) -> Nat] /\ l.run \in 0..Len(runs) /\ l.left \in Nat
      /\ cmd'[c] = new
  BY <1>2, <1>3 DEF RunInv, Typed, CmdType
<1>5. /\ trades' \in [0..Len(runs) -> Nat] /\ trades'[l.run] = trades[l.run] + 1
      /\ \A r : r # l.run => trades'[r] = trades[r]
  BY <1>3, <1>4
<1>6. new \in CmdType
  <2>1. l.left - 1 \in Nat
    BY <1>1, <1>4
  <2> QED
    BY <1>2, <2>1 DEF CmdType
<1>7. new.pc = "trades" /\ new.run = l.run /\ new.fold = l.fold /\ new.left = l.left - 1
      /\ new.results = l.results
  BY <1>1, <1>2 DEF CmdType
<1> HIDE DEF new
<1>8. Behind(c, cmd[c])'
  <2>1. trades'[l.run] + (l.left - 1) = SumTrades(l.results)
    <3>1. trades[l.run] \in Nat /\ trades[l.run] + l.left = SumTrades(l.results)
      BY <1>2, <1>4 DEF Behind
    <3>2. l.left \in Nat /\ trades'[l.run] = trades[l.run] + 1
      BY <1>4, <1>5
    <3>3. \A a, b \in Nat : a + 1 + (b - 1) = a + b
      OBVIOUS
    <3> HIDE DEF l
    <3> QED
      BY <3>1, <3>2, <3>3
  <2> QED
    BY <1>1, <1>2, <1>3, <1>4, <1>7, <2>1 DEF Behind
<1>9. LocalsOK(c, cmd[c])'
  BY <1>2, <1>3, <1>4, <1>7, <1>8 DEF LocalsOK, NoRun
<1>10. \A r \in 1..Len(runs) : r # l.run => SameRow(r)
  BY <1>3, <1>5 DEF SameRow
<1>11. equity' \subseteq (1..Len(runs)) \X TradingDays /\ features' \subseteq (1..Len(runs)) \X TradingDays
  BY <1>3 DEF RunInv, Typed
<1> QED
  BY <1>1, <1>3, <1>5, <1>6, <1>7, <1>9, <1>10, <1>11, TableStep

LEMMA WriteFeaturesInv ==
  ASSUME RunInv, NEW c \in Commands, WriteFeatures(c)
  PROVE  RunInv'
<1> DEFINE l == cmd[c]
<1> DEFINE D == FeatureDays(c, Windows[c][l.fold])
<1> DEFINE new == [l EXCEPT !.pc = "fold", !.fold = @ + 1]
<1>1. l.pc = "trades" /\ l.pc \in Backtesting /\ l.left = 0
  BY DEF WriteFeatures, At, Backtesting
<1>2. /\ l \in CmdType /\ ~IsGrid(c) /\ Behind(c, l) /\ l.run \in 1..Len(runs) /\ Len(runs) \in Nat
      /\ runs[l.run].by = c /\ runs[l.run].status = "running"
  BY <1>1, InBacktest
<1>3. /\ UNCHANGED <<runs, equity, trades, faults>> /\ cmd' = [cmd EXCEPT ![c] = new]
      /\ features' = features \cup {<<l.run, d>> : d \in D} /\ D \subseteq TradingDays
  BY FeatureDaysOfWindow DEF WriteFeatures, Quiet, Update, DaysOf
<1>4. /\ l.fold \in Nat \ {0} /\ l.fold + 1 \in Nat /\ Len(Windows[c]) \in Nat
      /\ l.fold <= Len(Windows[c]) /\ cmd'[c] = new
      /\ features \subseteq (1..Len(runs)) \X TradingDays
  BY <1>1, <1>2, <1>3, WindowsShape DEF Behind, RunInv, Typed
<1>5. /\ trades[l.run] = SumTrades(l.results)
      /\ DaysIn(equity, l.run) = DaysUpTo(c, l.fold) /\ Apart(c, l.fold)
      /\ DaysIn(features, l.run) = FeaturesUpTo(c, l.fold - 1) /\ Runnable(Work[c].plan)
  <2>1. trades[l.run] \in Nat /\ trades[l.run] + l.left = SumTrades(l.results)
    BY <1>2 DEF Behind, RunInv, Typed
  <2> QED
    BY <1>1, <1>2, <2>1 DEF Behind
<1>6. new \in CmdType
  BY <1>2, <1>4 DEF CmdType, Pcs
<1>7. new.pc = "fold" /\ new.run = l.run /\ new.fold = l.fold + 1 /\ new.left = 0
      /\ new.results = l.results
  BY <1>1, <1>2 DEF CmdType
<1> HIDE DEF new
<1>8. /\ features' \subseteq (1..Len(runs)) \X TradingDays
      /\ DaysIn(features', l.run) = DaysIn(features, l.run) \cup D
      /\ \A r : r # l.run => DaysIn(features', r) = DaysIn(features, r)
  <2>1. features' \subseteq (1..Len(runs)) \X TradingDays
    BY <1>2, <1>3, <1>4
  <2>2. \A r : DaysIn(features', r) = {d \in TradingDays : <<r, d>> \in features'}
    BY <2>1, DaysInKeys
  <2>3. \A r : DaysIn(features, r) = {d \in TradingDays : <<r, d>> \in features}
    BY <1>4, DaysInKeys
  <2>4. \A r, d : <<r, d>> \in features' <=> <<r, d>> \in features \/ (r = l.run /\ d \in D)
    BY <1>3
  <2>5. D \subseteq TradingDays
    BY <1>3
  <2> HIDE DEF l, D
  <2>6. DaysIn(features', l.run) = DaysIn(features, l.run) \cup D
    BY <2>2, <2>3, <2>4, <2>5
  <2>7. \A r : r # l.run => DaysIn(features', r) = DaysIn(features, r)
    BY <2>2, <2>3, <2>4
  <2> QED
    BY <2>1, <2>6, <2>7
<1>9. DaysIn(features', l.run) = FeaturesUpTo(c, l.fold)
  BY <1>4, <1>5, <1>8, FeaturesUpToNext
<1>10. Behind(c, cmd[c])'
  <2>1. /\ cmd'[c].pc = "fold" /\ cmd'[c].fold = l.fold + 1 /\ cmd'[c].left = 0
        /\ cmd'[c].run = l.run /\ cmd'[c].results = l.results
    BY <1>4, <1>7
  <2>2. cmd'[c].fold \in 1..(Len(Windows[c]) + 1) /\ cmd'[c].fold - 1 = l.fold
    BY <1>4, <2>1
  <2>3. trades'[l.run] + 0 = SumTrades(l.results)
    BY <1>2, <1>3, <1>5 DEF RunInv, Typed
  <2>4. DaysIn(equity', l.run) = DaysUpTo(c, l.fold) /\ Apart(c, l.fold) /\ Runnable(Work[c].plan)
    BY <1>3, <1>5
  <2> HIDE DEF l
  <2> QED
    BY <1>9, <2>1, <2>2, <2>3, <2>4 DEF Behind
<1>11. LocalsOK(c, cmd[c])'
  BY <1>2, <1>3, <1>4, <1>7, <1>10 DEF LocalsOK, NoRun
<1>12. \A r \in 1..Len(runs) : r # l.run => SameRow(r)
  BY <1>3, <1>8 DEF SameRow
<1>13. equity' \subseteq (1..Len(runs)) \X TradingDays /\ trades' \in [0..Len(runs) -> Nat]
  BY <1>3 DEF RunInv, Typed
<1> QED
  BY <1>1, <1>3, <1>6, <1>7, <1>8, <1>11, <1>12, <1>13, TableStep

-----------------------------------------------------------------------------
(* The rows of backtest_runs *)

(* A new row is empty: no key of any table carries its run_id yet.         *)
LEMMA InsertRowShape ==
  ASSUME RunInv, NEW c \in Commands, InsertRow(c)
  PROVE  /\ runs' \in Seq(RowType) /\ Len(runs') = Len(runs) + 1 /\ Len(runs) \in Nat
         /\ \A r \in 1..Len(runs) : runs'[r] = runs[r]
         /\ runs'[Len(runs) + 1] = NewRow(c, Item(c))
         /\ trades' \in [0..Len(runs') -> Nat] /\ trades'[Len(runs) + 1] = 0
         /\ \A r \in 0..Len(runs) : trades'[r] = trades[r]
         /\ UNCHANGED <<equity, features>>
         /\ DaysIn(equity, Len(runs) + 1) = {} /\ DaysIn(features, Len(runs) + 1) = {}
<1>1. /\ runs \in Seq(RowType) /\ trades \in [0..Len(runs) -> Nat] /\ cmd[c] \in CmdType
      /\ equity \subseteq (1..Len(runs)) \X TradingDays
      /\ features \subseteq (1..Len(runs)) \X TradingDays
  BY DEF RunInv, Typed
<1>2. Len(runs) \in Nat
  BY <1>1, LenProperties
<1>3. NewRow(c, Item(c)) \in RowType
  <2>1. cmd[c].item \in Nat
    BY <1>1 DEF CmdType
  <2>2. Item(c) \in Cfgs /\ <<>> \in Seq(FoldRec)
    BY <2>1, EmptySeq DEF Item, Cfgs
  <2> QED
    BY <2>2 DEF NewRow, RowType
<1>4. runs' = Append(runs, NewRow(c, Item(c))) /\ UNCHANGED <<equity, features>>
  BY DEF InsertRow
<1>5. /\ runs' \in Seq(RowType) /\ Len(runs') = Len(runs) + 1
      /\ \A r \in 1..Len(runs) : runs'[r] = runs[r]
      /\ runs'[Len(runs) + 1] = NewRow(c, Item(c))
  BY <1>1, <1>3, <1>4, AppendProperties
<1>6. trades' = [r \in 0..Len(runs) + 1 |-> IF r \in 0..Len(runs) THEN trades[r] ELSE 0]
  BY <1>1 DEF InsertRow
<1>7. /\ trades' \in [0..Len(runs') -> Nat] /\ trades'[Len(runs) + 1] = 0
      /\ \A r \in 0..Len(runs) : trades'[r] = trades[r]
  BY <1>1, <1>2, <1>5, <1>6
<1>8. Len(runs) + 1 \notin 1..Len(runs)
  BY <1>2
<1>9. \A d : <<Len(runs) + 1, d>> \notin equity /\ <<Len(runs) + 1, d>> \notin features
  BY <1>1, <1>8
<1>10. /\ DaysIn(equity, Len(runs) + 1) = {d \in TradingDays : <<Len(runs) + 1, d>> \in equity}
       /\ DaysIn(features, Len(runs) + 1) = {d \in TradingDays : <<Len(runs) + 1, d>> \in features}
  BY <1>1, DaysInKeys
<1> QED
  BY <1>2, <1>4, <1>5, <1>7, <1>9, <1>10

LEMMA InsertStep ==
  ASSUME RunInv, NEW c \in Commands, InsertRow(c), NEW new \in CmdType,
         cmd' = [cmd EXCEPT ![c] = new], new.run = Len(runs) + 1, UNCHANGED faults,
         LocalsOK(c, cmd[c])'
  PROVE  RunInv'
<1>1. /\ runs' \in Seq(RowType) /\ Len(runs') = Len(runs) + 1 /\ Len(runs) \in Nat
      /\ \A r \in 1..Len(runs) : runs'[r] = runs[r]
      /\ runs'[Len(runs) + 1] = NewRow(c, Item(c))
      /\ trades' \in [0..Len(runs') -> Nat]
      /\ \A r \in 0..Len(runs) : trades'[r] = trades[r]
      /\ UNCHANGED <<equity, features>>
  BY InsertRowShape
<1>2. /\ runs'[Len(runs) + 1].status = "running" /\ runs'[Len(runs) + 1].passed = "null"
  BY <1>1 DEF NewRow
<1>3. cmd' \in [Commands -> CmdType] /\ \A i \in Commands : cmd'[i].run \in 0..Len(runs')
  BY <1>1 DEF RunInv, Typed
<1>4. Typed'
  <2>1. \A r \in 1..Len(runs') : (runs'[r].status = "completed") = (runs'[r].passed # "null")
    <3>1. ASSUME NEW r \in 1..Len(runs') PROVE r \in 1..Len(runs) \/ r = Len(runs) + 1
      BY <1>1
    <3>2. \A r \in 1..Len(runs) : (runs[r].status = "completed") = (runs[r].passed # "null")
      BY DEF RunInv, Typed
    <3>3. (runs'[Len(runs) + 1].status = "completed") = (runs'[Len(runs) + 1].passed # "null")
      BY <1>2
    <3> QED
      BY <1>1, <3>1, <3>2, <3>3
  <2>2. /\ equity' \subseteq (1..Len(runs')) \X TradingDays
        /\ features' \subseteq (1..Len(runs')) \X TradingDays
    BY <1>1 DEF RunInv, Typed
  <2> QED
    BY <1>1, <1>3, <2>1, <2>2 DEF RunInv, Typed
<1>5. \A r \in 1..Len(runs) : SameRow(r)
  BY <1>1 DEF SameRow
<1>6. Minds(c)
  BY <1>1, <1>5 DEF Minds
<1>7. ASSUME NEW r \in 1..Len(runs') PROVE RowOK(r)'
  <2>1. CASE r \in 1..Len(runs)
    <3>1. RowOK(r) /\ SameRow(r)
      BY <1>5, <2>1 DEF RunInv
    <3> QED
      BY <3>1 DEF RowOK, SameRow
  <2>2. CASE r \notin 1..Len(runs)
    <3>1. r = Len(runs) + 1
      BY <1>1, <2>2
    <3> QED
      BY <1>2, <3>1 DEF RowOK
  <2> QED
    BY <2>1, <2>2
<1> QED
  BY <1>4, <1>5, <1>6, <1>7, StepShape

LEMMA CreateRunInv ==
  ASSUME RunInv, NEW c \in Commands, CreateRun(c)
  PROVE  RunInv'
<1> DEFINE n == Len(runs) + 1
<1> DEFINE pc == IF Runnable(Work[c].plan) THEN "fold" ELSE "except"
<1> DEFINE new == [cmd[c] EXCEPT !.pc = pc, !.run = n]
<1>1. ~IsGrid(c) /\ cmd[c].pc = "start" /\ InsertRow(c) /\ UNCHANGED faults
      /\ cmd' = [cmd EXCEPT ![c] = new]
  BY DEF CreateRun, At, Update, Quiet
<1>2. cmd[c] = Fresh /\ cmd[c] \in CmdType /\ cmd'[c] = new
  BY <1>1 DEF RunInv, LocalsOK, Typed
<1>3. /\ Len(runs) \in Nat /\ runs'[n] = NewRow(c, Item(c)) /\ trades'[n] = 0
      /\ DaysIn(equity', n) = {} /\ DaysIn(features', n) = {}
  BY <1>1, InsertRowShape
<1>4. new \in CmdType
  <2>1. n \in Nat /\ pc \in Pcs
    BY <1>3 DEF Pcs
  <2> HIDE DEF n, pc
  <2> QED
    BY <1>2, <2>1 DEF CmdType
<1>5. /\ cmd'[c].pc = pc /\ cmd'[c].run = n /\ cmd'[c].fold = 1 /\ cmd'[c].left = 0
      /\ cmd'[c].results = <<>> /\ new.run = n
  BY <1>2 DEF Fresh
<1> HIDE DEF new
<1>6. ASSUME Runnable(Work[c].plan) PROVE Behind(c, cmd[c])'
  <2>1. DaysUpTo(c, 0) = {} /\ FeaturesUpTo(c, 0) = {} /\ Apart(c, 0) /\ Len(Windows[c]) \in Nat
    BY WindowsShape DEF DaysUpTo, FeaturesUpTo, Apart
  <2>2. trades'[n] + 0 = SumTrades(<<>>) /\ 1 - 1 = 0
    BY <1>3, SumTradesEmpty
  <2>3. 1 \in 1..(Len(Windows[c]) + 1) /\ pc = "fold"
    BY <1>6, <2>1
  <2> HIDE DEF n, pc
  <2> QED
    BY <1>3, <1>5, <1>6, <2>1, <2>2, <2>3 DEF Behind
<1>7. LocalsOK(c, cmd[c])'
  <2>1. n # NoRun /\ runs'[n].by = c /\ runs'[n].status = "running"
    BY <1>3 DEF NoRun, NewRow
  <2>2. (pc = "fold" /\ Runnable(Work[c].plan)) \/ (pc = "except" /\ Excused(c))
    BY DEF Excused
  <2> HIDE DEF n, pc
  <2>3. CASE pc = "fold" /\ Runnable(Work[c].plan)
    BY <1>1, <1>5, <1>6, <2>1, <2>3 DEF LocalsOK, IsGrid
  <2>4. CASE pc = "except" /\ Excused(c)
    BY <1>1, <1>5, <2>1, <2>4 DEF LocalsOK, IsGrid, Backtesting
  <2> QED
    BY <2>2, <2>3, <2>4
<1> QED
  BY <1>1, <1>4, <1>5, <1>7, InsertStep

LEMMA PersistRowInv ==
  ASSUME RunInv, NEW c \in Commands, PersistRow(c)
  PROVE  RunInv'
<1> DEFINE n == Len(runs) + 1
<1> DEFINE new == [cmd[c] EXCEPT !.pc = "settle", !.run = n]
<1>1. cmd[c].pc = "persist" /\ InsertRow(c) /\ UNCHANGED faults /\ cmd' = [cmd EXCEPT ![c] = new]
  BY DEF PersistRow, At, Update, Quiet
<1>2. /\ IsGrid(c) /\ cmd[c] \in CmdType /\ cmd'[c] = new
      /\ IF cmd[c].error THEN faults # 0 \/ Excused(c) ELSE Runnable(Work[c].plan)
  BY <1>1 DEF RunInv, LocalsOK, Typed
<1>3. Len(runs) \in Nat /\ runs'[n] = NewRow(c, Item(c))
  BY <1>1, InsertRowShape
<1>4. new \in CmdType /\ new.pc = "settle" /\ new.run = n /\ new.error = cmd[c].error
  <2>1. n \in Nat
    BY <1>3
  <2> HIDE DEF n
  <2> QED
    BY <1>2, <2>1 DEF CmdType, Pcs
<1> HIDE DEF new
<1>5. LocalsOK(c, cmd[c])'
  <2>1. n # NoRun /\ runs'[n].by = c /\ runs'[n].status = "running"
    BY <1>3 DEF NoRun, NewRow
  <2> HIDE DEF n
  <2> QED
    BY <1>1, <1>2, <1>4, <2>1 DEF LocalsOK, IsGrid, Backtesting
<1> QED
  BY <1>1, <1>4, <1>5, InsertStep

(* The end of a row: its command writes a verdict and moves on.            *)
LEMMA RowStep ==
  ASSUME RunInv, NEW c \in Commands, NEW new \in CmdType, cmd' = [cmd EXCEPT ![c] = new],
         new.run \in 0..Len(runs), cmd[c].run \in 1..Len(runs), runs[cmd[c].run].by = c,
         NEW row \in RowType, row.by = c, (row.status = "completed") = (row.passed # "null"),
         SetRow(cmd[c].run, row), UNCHANGED <<equity, features, trades, faults>>,
         LocalsOK(c, cmd[c])', \A r \in 1..Len(runs) : r = cmd[c].run => RowOK(r)'
  PROVE  RunInv'
<1> DEFINE l == cmd[c]
<1>1. runs \in Seq(RowType) /\ Len(runs) \in Nat
  BY LenProperties DEF RunInv, Typed
<1>2. runs' \in Seq(RowType) /\ Len(runs') = Len(runs) /\ runs'[l.run] = row
      /\ \A r \in 1..Len(runs) : r # l.run => runs'[r] = runs[r]
  BY <1>1, ExceptSeq DEF SetRow
<1>3. cmd' \in [Commands -> CmdType] /\ \A i \in Commands : cmd'[i].run \in 0..Len(runs)
  BY DEF RunInv, Typed
<1>4. Typed'
  <2>1. \A r \in 1..Len(runs) : (runs'[r].status = "completed") = (runs'[r].passed # "null")
    BY <1>2 DEF RunInv, Typed
  <2> QED
    BY <1>2, <1>3, <2>1 DEF RunInv, Typed
<1>5. \A r \in 1..Len(runs) : r # l.run => SameRow(r)
  BY <1>2 DEF SameRow
<1>6. Minds(c)
  BY <1>1, <1>2, <1>5 DEF Minds
<1> QED
  BY <1>2, <1>4, <1>6, StepShape

LEMMA EndShape ==
  ASSUME RunInv, NEW c \in Commands, NEW pc \in Ended
  PROVE  LET new == [Fresh EXCEPT !.pc = pc, !.run = cmd[c].run,
                                  !.ok = cmd[c].ok, !.passed = cmd[c].passed]
         IN new \in CmdType /\ new.pc = pc /\ new.run = cmd[c].run
<1>1. cmd[c].run \in Nat /\ cmd[c].ok \in Nat /\ cmd[c].passed \in Nat /\ <<>> \in Seq(FoldRec)
  BY EmptySeq DEF RunInv, Typed, CmdType
<1> QED
  BY <1>1 DEF Fresh, CmdType, Pcs, Ended, NoRun

LEMMA EndedLocals ==
  ASSUME NEW c, NEW l, l.pc \in Ended
  PROVE  LocalsOK(c, l)
BY DEF LocalsOK, Ended, Backtesting

LEMMA FinalizeRunInv ==
  ASSUME RunInv, NEW c \in Commands, FinalizeRun(c)
  PROVE  RunInv'
<1> DEFINE l == cmd[c]
<1> DEFINE n == Len(Windows[c])
<1> DEFINE row == Completed(runs[l.run], l.results)
<1> DEFINE new == [Fresh EXCEPT !.pc = "done", !.run = l.run, !.ok = l.ok, !.passed = l.passed]
<1>1. l.pc = "fold" /\ l.pc \in Backtesting /\ ~(l.fold <= n)
  <2>1. l.fold \in Nat /\ n \in Nat
    BY WindowsShape DEF RunInv, Typed, CmdType
  <2> QED
    BY <2>1 DEF FinalizeRun, At, Backtesting
<1>2. /\ l \in CmdType /\ ~IsGrid(c) /\ Behind(c, l) /\ l.run \in 1..Len(runs) /\ Len(runs) \in Nat
      /\ runs[l.run] \in RowType /\ runs[l.run].by = c
  BY <1>1, InBacktest
<1>3. /\ SetRow(l.run, row) /\ cmd' = [cmd EXCEPT ![c] = new]
      /\ UNCHANGED <<equity, features, trades, faults>>
  BY DEF FinalizeRun, End, Update, Quiet
<1>4. new \in CmdType /\ new.pc = "done" /\ new.run = l.run
  BY EndShape DEF Ended
<1> HIDE DEF new
<1>5. /\ l.fold = n + 1 /\ trades[l.run] = SumTrades(l.results) /\ SumTrades(l.results) \in Nat
      /\ DaysIn(equity, l.run) = DaysUpTo(c, n) /\ DaysIn(features, l.run) = FeaturesUpTo(c, n)
      /\ Apart(c, n) /\ Runnable(Work[c].plan)
  <2>1. l.fold = n + 1 /\ l.fold - 1 = n
    <3>1. l.fold \in 1..(n + 1) /\ n \in Nat
      BY <1>2, WindowsShape DEF Behind
    <3> QED
      BY <1>1, <3>1
  <2>2. trades[l.run] \in Nat /\ trades[l.run] + l.left = SumTrades(l.results) /\ l.left = 0
    BY <1>1, <1>2 DEF Behind, RunInv, Typed
  <2>3. DaysIn(equity, l.run) = DaysUpTo(c, l.fold - 1) /\ Apart(c, l.fold - 1)
        /\ DaysIn(features, l.run) = FeaturesUpTo(c, l.fold - 1) /\ Runnable(Work[c].plan)
    BY <1>1, <1>2 DEF Behind
  <2> QED
    BY <2>1, <2>2, <2>3
<1>6. /\ row \in RowType /\ row.by = c /\ row.status = "completed" /\ row.passed # "null"
      /\ row.nTrades = trades[l.run]
  BY <1>2, <1>5 DEF Completed, RowType, CmdType
<1> HIDE DEF row
<1>7. LocalsOK(c, cmd[c])'
  <2>1. cmd'[c] = new
    BY <1>3 DEF RunInv, Typed
  <2> QED
    BY <1>4, <2>1 DEF LocalsOK, Backtesting
<1>8. ASSUME NEW r \in 1..Len(runs), r = l.run PROVE RowOK(r)'
  <2>1. runs'[r] = row
    BY <1>2, <1>3, <1>8 DEF SetRow, RunInv, Typed
  <2> HIDE DEF n
  <2>2. /\ runs'[r].by = c /\ runs'[r].status = "completed" /\ runs'[r].nTrades = trades'[r]
        /\ DaysIn(equity', r) = DaysUpTo(c, n) /\ DaysIn(features', r) = FeaturesUpTo(c, n)
        /\ Apart(c, n) /\ Runnable(Work[c].plan)
    BY <1>3, <1>5, <1>6, <1>8, <2>1
  <2> QED
    BY <2>2 DEF RowOK, n
<1> QED
  <2>1. new.run \in 0..Len(runs)
    BY <1>2, <1>4
  <2> QED
    BY <1>2, <1>3, <1>4, <1>6, <1>7, <1>8, <2>1, RowStep

LEMMA FailRunInv ==
  ASSUME RunInv, NEW c \in Commands, FailRun(c)
  PROVE  RunInv'
<1> DEFINE l == cmd[c]
<1> DEFINE row == Failed(runs[l.run])
<1> DEFINE new == [Fresh EXCEPT !.pc = "raised", !.run = l.run, !.ok = l.ok, !.passed = l.passed]
<1>1. /\ l.pc = "except" /\ SetRow(l.run, row) /\ cmd' = [cmd EXCEPT ![c] = new]
      /\ UNCHANGED <<equity, features, trades, faults>>
  BY DEF FailRun, At, End, Update, Quiet
<1>2. /\ l \in CmdType /\ l.run # NoRun /\ runs[l.run].by = c
      /\ runs[l.run].status = "running" /\ (faults # 0 \/ Excused(c))
      /\ runs \in Seq(RowType) /\ l.run \in 0..Len(runs)
  BY <1>1 DEF RunInv, LocalsOK, Typed
<1>3. l.run \in 1..Len(runs) /\ Len(runs) \in Nat /\ runs[l.run] \in RowType
  BY <1>2, LenProperties, ElementOfSeq DEF NoRun
<1>4. new \in CmdType /\ new.pc = "raised" /\ new.run = l.run
  BY EndShape DEF Ended
<1> HIDE DEF new
<1>5. /\ row \in RowType /\ row.by = c /\ row.status = "failed" /\ row.passed = "null"
  BY <1>2, <1>3 DEF Failed, RowType, RunInv, Typed
<1> HIDE DEF row
<1>6. LocalsOK(c, cmd[c])'
  <2>1. cmd'[c] = new
    BY <1>1 DEF RunInv, Typed
  <2> QED
    BY <1>4, <2>1 DEF LocalsOK, Backtesting
<1>7. ASSUME NEW r \in 1..Len(runs), r = l.run PROVE RowOK(r)'
  <2>1. runs'[r] = row
    BY <1>1, <1>2, <1>3, <1>7 DEF SetRow
  <2>2. faults' # 0 \/ Excused(c)
    BY <1>1, <1>2
  <2> QED
    BY <1>5, <2>1, <2>2 DEF RowOK
<1> QED
  <2>1. new.run \in 0..Len(runs)
    BY <1>3, <1>4
  <2> QED
    BY <1>1, <1>2, <1>3, <1>4, <1>5, <1>6, <1>7, <2>1, RowStep

LEMMA SettleRowInv ==
  ASSUME RunInv, NEW c \in Commands, SettleRow(c)
  PROVE  RunInv'
<1> DEFINE l == cmd[c]
<1> DEFINE row == IF l.error THEN Failed(runs[l.run]) ELSE Completed(runs[l.run], l.results)
<1> DEFINE new == [l EXCEPT !.pc = "count"]
<1>1. /\ l.pc = "settle" /\ SetRow(l.run, row) /\ cmd' = [cmd EXCEPT ![c] = new]
      /\ UNCHANGED <<equity, features, trades, faults>>
  BY DEF SettleRow, At, Go, Update, Quiet
<1>2. /\ l \in CmdType /\ l.run # NoRun /\ runs[l.run].by = c /\ IsGrid(c)
      /\ runs[l.run].status = "running" /\ runs \in Seq(RowType) /\ l.run \in 0..Len(runs)
      /\ IF l.error THEN faults # 0 \/ Excused(c) ELSE Runnable(Work[c].plan)
  BY <1>1 DEF RunInv, LocalsOK, Typed
<1>3. l.run \in 1..Len(runs) /\ Len(runs) \in Nat /\ runs[l.run] \in RowType
  BY <1>2, LenProperties, ElementOfSeq DEF NoRun
<1>4. new \in CmdType /\ new.pc = "count" /\ new.run = l.run
  BY <1>2 DEF CmdType, Pcs
<1> HIDE DEF new
<1>5. /\ row \in RowType /\ row.by = c /\ (row.status = "completed") = (row.passed # "null")
      /\ IF l.error THEN row.status = "failed" ELSE row.status = "completed"
  <2>1. EmptyFold \in FoldRec /\ l.results \in Seq(FoldRec)
    BY <1>2 DEF EmptyFold, FoldRec, CmdType
  <2>2. SumTrades(l.results) \in Nat
    BY <2>1, SumTradesAppend
  <2>3. runs[l.run].passed = "null"
    BY <1>2, <1>3 DEF RowType, RunInv, Typed
  <2>4. CASE l.error
    BY <1>2, <1>3, <2>3, <2>4 DEF Failed, RowType
  <2>5. CASE ~l.error
    BY <1>2, <1>3, <2>1, <2>2, <2>5 DEF Completed, RowType
  <2> QED
    BY <2>4, <2>5
<1> HIDE DEF row
<1>6. LocalsOK(c, cmd[c])'
  <2>1. cmd'[c] = new
    BY <1>1 DEF RunInv, Typed
  <2> QED
    BY <1>2, <1>4, <2>1 DEF LocalsOK, Backtesting, IsGrid
<1>7. ASSUME NEW r \in 1..Len(runs), r = l.run PROVE RowOK(r)'
  <2>1. runs'[r] = row
    BY <1>1, <1>2, <1>3, <1>7 DEF SetRow
  <2>2. IF runs'[r].status = "failed" THEN faults' # 0 \/ Excused(c)
        ELSE runs'[r].status = "completed" /\ Runnable(Work[c].plan)
    BY <1>1, <1>2, <1>5, <2>1
  <2> QED
    BY <1>2, <1>5, <2>1, <2>2 DEF RowOK, IsGrid
<1> QED
  <2>1. new.run \in 0..Len(runs)
    BY <1>2, <1>4
  <2> QED
    BY <1>1, <1>2, <1>3, <1>4, <1>5, <1>6, <1>7, <2>1, RowStep

-----------------------------------------------------------------------------
(* Steps in memory, faults and live orders *)

LEMMA GridInMemory ==
  ASSUME RunInv, NEW c \in Commands, OpenGrid(c) \/ RunCombo(c) \/ NextCombo(c) \/ CloseGrid(c)
  PROVE  RunInv'
<1> DEFINE l == cmd[c]
<1>1. UNCHANGED <<runs, equity, features, trades>> /\ faults' = faults
  BY DEF OpenGrid, RunCombo, NextCombo, CloseGrid, Rows, Quiet
<1>2. /\ l \in CmdType /\ l.run \in 0..Len(runs) /\ faults' \in Nat /\ Len(runs) \in Nat
      /\ 0 \in 0..Len(runs)
  BY <1>1, LenProperties DEF RunInv, Typed
<1>3. /\ LocalsOK(c, l) /\ \A new : cmd' = [cmd EXCEPT ![c] = new] => cmd'[c] = new
  BY DEF RunInv, Typed
<1>4. CASE OpenGrid(c)
  <2> DEFINE pc == IF \A i \in DOMAIN Work[c].cfgs : Work[c].cfgs[i] \in ValidConfigs
                   THEN "combo" ELSE "raised"
  <2> DEFINE new == [l EXCEPT !.pc = pc]
  <2>1. cmd' = [cmd EXCEPT ![c] = new] /\ IsGrid(c)
    BY <1>4 DEF OpenGrid, Go, Update
  <2>2. pc \in {"combo", "raised"}
    OBVIOUS
  <2> HIDE DEF pc
  <2>3. new \in CmdType /\ new.run = l.run /\ new.pc \in {"combo", "raised"}
    BY <1>2, <2>2 DEF CmdType, Pcs
  <2> HIDE DEF new
  <2>4. LocalsOK(c, cmd[c])'
    BY <1>3, <2>1, <2>3 DEF LocalsOK, Backtesting, IsGrid
  <2> QED
    BY <1>1, <1>2, <2>1, <2>3, <2>4, MemoryKeeps
<1>5. CASE RunCombo(c)
  <2>1. PICK rs \in FoldOutcomes(c) :
          cmd' = [cmd EXCEPT ![c] = [l EXCEPT !.pc = "persist", !.results = rs,
                                              !.error = ~Runnable(Work[c].plan)]]
    BY <1>5 DEF RunCombo, Update
  <2> DEFINE new == [l EXCEPT !.pc = "persist", !.results = rs, !.error = ~Runnable(Work[c].plan)]
  <2>2. rs \in Seq(FoldRec)
    <3>1. EmptyFold \in FoldRec /\ FoldResults[c] \subseteq FoldRec
      BY WorkAssumption DEF EmptyFold, FoldRec
    <3>2. rs \in [1..Len(Windows[c]) -> FoldRec] /\ Len(Windows[c]) \in Nat
      BY <3>1, WindowsShape DEF FoldOutcomes
    <3> QED
      BY <3>2, SeqDef
  <2>3. /\ new \in CmdType /\ new.run = l.run /\ new.pc = "persist"
        /\ new.error = ~Runnable(Work[c].plan)
    BY <1>2, <2>2 DEF CmdType, Pcs
  <2>4. cmd' = [cmd EXCEPT ![c] = new]
    BY <2>1
  <2> HIDE DEF new
  <2>5. l.pc = "combo" /\ IsGrid(c)
    BY <1>3, <1>5 DEF RunCombo, At, LocalsOK
  <2>6. LocalsOK(c, cmd[c])'
    BY <1>3, <2>3, <2>4, <2>5 DEF LocalsOK, Backtesting, IsGrid, Excused
  <2> QED
    BY <1>1, <1>2, <2>3, <2>4, <2>6, MemoryKeeps
<1>6. CASE NextCombo(c)
  <2>1. PICK ok, passed :
          /\ ok \in {l.ok, l.ok + 1} /\ passed \in {l.passed, l.passed + 1}
          /\ cmd' = [cmd EXCEPT ![c] = [l EXCEPT !.pc = "combo", !.item = @ + 1, !.run = NoRun,
                       !.results = <<>>, !.error = FALSE, !.ok = ok, !.passed = passed]]
    BY <1>6 DEF NextCombo, Update
  <2> DEFINE new == [l EXCEPT !.pc = "combo", !.item = @ + 1, !.run = NoRun,
                       !.results = <<>>, !.error = FALSE, !.ok = ok, !.passed = passed]
  <2>2. l.item + 1 \in Nat /\ ok \in Nat /\ passed \in Nat /\ <<>> \in Seq(FoldRec)
    <3>1. l.item \in Nat /\ l.ok \in Nat /\ l.passed \in Nat
      BY <1>2 DEF CmdType
    <3>2. ok \in {l.ok, l.ok + 1} /\ passed \in {l.passed, l.passed + 1}
      BY <2>1
    <3> HIDE DEF l
    <3>3. l.item + 1 \in Nat /\ ok \in Nat /\ passed \in Nat
      BY <3>1, <3>2
    <3> QED
      BY <3>3, EmptySeq
  <2>3. new \in CmdType /\ new.run = 0 /\ new.pc = "combo"
    BY <1>2, <2>2 DEF CmdType, Pcs, NoRun
  <2>4. cmd' = [cmd EXCEPT ![c] = new]
    BY <2>1
  <2> HIDE DEF new
  <2>5. l.pc = "count" /\ IsGrid(c)
    BY <1>3, <1>6 DEF NextCombo, At, LocalsOK
  <2>6. LocalsOK(c, cmd[c])'
    BY <1>3, <2>3, <2>4, <2>5 DEF LocalsOK, Backtesting, IsGrid
  <2> QED
    BY <1>1, <1>2, <2>3, <2>4, <2>6, MemoryKeeps
<1>7. CASE CloseGrid(c)
  <2> DEFINE new == [Fresh EXCEPT !.pc = "done", !.run = l.run, !.ok = l.ok, !.passed = l.passed]
  <2>1. cmd' = [cmd EXCEPT ![c] = new]
    BY <1>7 DEF CloseGrid, End, Update
  <2>2. new \in CmdType /\ new.pc = "done" /\ new.run = l.run
    BY EndShape DEF Ended
  <2> HIDE DEF new
  <2>3. LocalsOK(c, cmd[c])'
    BY <1>3, <2>1, <2>2 DEF LocalsOK, Backtesting
  <2> QED
    BY <1>1, <1>2, <2>1, <2>2, <2>3, MemoryKeeps
<1> QED
  BY <1>4, <1>5, <1>6, <1>7

LEMMA FaultInv ==
  ASSUME RunInv, NEW c \in Commands, Raise(c) \/ Kill(c)
  PROVE  RunInv'
<1> DEFINE l == cmd[c]
<1>1. UNCHANGED <<runs, equity, features, trades>> /\ faults' = faults + 1 /\ faults \in Nat
  BY DEF Raise, Kill, Rows, RunInv, Typed
<1>2. /\ l \in CmdType /\ l.run \in 0..Len(runs) /\ faults' \in Nat /\ faults' # 0
  BY <1>1 DEF RunInv, Typed
<1>3. /\ LocalsOK(c, l) /\ \A new : cmd' = [cmd EXCEPT ![c] = new] => cmd'[c] = new
  BY DEF RunInv, Typed
<1>4. ASSUME NEW pc \in {"raised", "killed"}, End(c, pc) PROVE RunInv'
  <2> DEFINE new == [Fresh EXCEPT !.pc = pc, !.run = l.run, !.ok = l.ok, !.passed = l.passed]
  <2>1. cmd' = [cmd EXCEPT ![c] = new]
    BY <1>4 DEF End, Update
  <2>2. new \in CmdType /\ new.pc = pc /\ new.run = l.run
    BY <1>4, EndShape DEF Ended
  <2> HIDE DEF new
  <2>3. LocalsOK(c, cmd[c])'
    BY <1>3, <1>4, <2>1, <2>2 DEF LocalsOK, Backtesting
  <2> QED
    BY <1>1, <1>2, <2>1, <2>2, <2>3, MemoryKeeps
<1>5. ASSUME NEW to \in {"except", "persist", "count"}, Handler(c, to),
             Update(c, [l EXCEPT !.pc = to, !.error = TRUE])
      PROVE  RunInv'
  <2> DEFINE new == [l EXCEPT !.pc = to, !.error = TRUE]
  <2>1. cmd' = [cmd EXCEPT ![c] = new]
    BY <1>5 DEF Update
  <2>2. new \in CmdType /\ new.pc = to /\ new.run = l.run /\ new.error
    BY <1>2, <1>5 DEF CmdType, Pcs
  <2> HIDE DEF new
  <2>3. LocalsOK(c, cmd[c])'
    <3>1. cmd'[c] = new
      BY <1>3, <2>1
    <3>2. CASE to = "except"
      <4>1. l.pc \in Backtesting
        BY <1>5, <3>2 DEF Handler, Backtesting
      <4>2. ~IsGrid(c) /\ l.run # NoRun /\ runs[l.run].by = c /\ runs[l.run].status = "running"
        BY <1>3, <4>1 DEF LocalsOK
      <4> QED
        BY <1>1, <1>2, <2>2, <3>1, <3>2, <4>2 DEF LocalsOK, Backtesting, IsGrid
    <3>3. CASE to # "except"
      <4>1. IsGrid(c)
        BY <1>3, <1>5, <3>3 DEF Handler, LocalsOK, At
      <4> QED
        BY <1>1, <1>2, <1>5, <2>2, <3>1, <3>3, <4>1 DEF LocalsOK, Backtesting, IsGrid
    <3> QED
      BY <3>2, <3>3
  <2> QED
    BY <1>1, <1>2, <2>1, <2>2, <2>3, MemoryKeeps
<1>6. CASE Raise(c)
  BY <1>4, <1>5, <1>6 DEF Raise
<1>7. CASE Kill(c)
  BY <1>4, <1>7 DEF Kill
<1> QED
  BY <1>6, <1>7

LEMMA SameTables ==
  ASSUME RunInv, UNCHANGED <<runs, equity, features, trades, cmd, faults>>
  PROVE  RunInv'
<1>1. Typed'
  BY DEF RunInv, Typed
<1>2. \A c \in Commands : LocalsOK(c, cmd[c])'
  BY DEF RunInv, LocalsOK, Behind
<1>3. \A r \in 1..Len(runs') : RowOK(r)'
  BY DEF RunInv, RowOK
<1> QED
  BY <1>1, <1>2, <1>3 DEF RunInv

LEMMA NextRunInv == RunInv /\ [Next]_vars => RunInv'
<1> SUFFICES ASSUME RunInv, [Next]_vars PROVE RunInv'
  OBVIOUS
<1>1. ASSUME NEW c \in Commands, Step(c) PROVE RunInv'
  BY <1>1, CreateRunInv, RunFoldInv, WriteEquityInv, WriteTradeInv, WriteFeaturesInv,
     FinalizeRunInv, FailRunInv, PersistRowInv, SettleRowInv, GridInMemory DEF Step
<1>2. ASSUME NEW c \in Commands, Raise(c) \/ Kill(c) PROVE RunInv'
  BY <1>2, FaultInv
<1>3. ASSUME NEW cfg \in LiveConfigs, NEW rid \in DOMAIN runs, TradeLive(cfg, rid) PROVE RunInv'
  BY <1>3, SameTables DEF TradeLive, Rows
<1>4. CASE UNCHANGED vars
  BY <1>4, SameTables DEF vars
<1> QED
  BY <1>1, <1>2, <1>3, <1>4 DEF Next

LEMMA RunInvAlways == Spec => []RunInv
BY InitRunInv, NextRunInv, PTL DEF Spec

-----------------------------------------------------------------------------
(* Theorems *)

(* Every row, key and program counter has its type, and only a completed   *)
(* row carries a verdict (storage/schema.py, storage/writers.py).          *)
THEOREM RunsTypesAlways == Spec => []RunsTypeOK
<1>1. RunInv => RunsTypeOK
  <2> SUFFICES ASSUME RunInv PROVE RunsTypeOK
    OBVIOUS
  <2>1. runs \in Seq(RowType) /\ Len(runs) \in Nat /\ RunIds = 1..Len(runs)
    BY LenProperties DEF RunInv, Typed, RunIds
  <2>2. ASSUME NEW r \in RunIds PROVE runs[r] \in RowType
    BY <2>1, ElementOfSeq
  <2>3. RunIds \cup {NoRun} = 0..Len(runs)
    BY <2>1 DEF NoRun
  <2> QED
    BY <2>1, <2>2, <2>3 DEF RunInv, Typed, RunsTypeOK, RowType
<1> QED
  BY <1>1, RunInvAlways, PTL

LEMMA PlanIsDaysUpTo ==
  ASSUME NEW c \in Commands
  PROVE  /\ PlanDays[c] = DaysUpTo(c, Len(Windows[c]))
         /\ PlanFeatureDays[c] = FeaturesUpTo(c, Len(Windows[c]))
         /\ Apart(c, Len(Windows[c])) <=> ~Overlapping(c)
         /\ Overlapping(c) => Work[c].plan.step < Work[c].plan.test
<1>1. DOMAIN Windows[c] = 1..Len(Windows[c])
  BY WindowsShape
<1>2. PlanDays[c] = UNION {DaysOf(Windows[c][i]) : i \in DOMAIN Windows[c]}
  BY DEF PlanDays
<1>3. PlanFeatureDays[c] = UNION {FeatureDays(c, Windows[c][i]) : i \in DOMAIN Windows[c]}
  BY DEF PlanFeatureDays
<1>4. PlanDays[c] = DaysUpTo(c, Len(Windows[c])) /\ PlanFeatureDays[c] = FeaturesUpTo(c, Len(Windows[c]))
  BY <1>1, <1>2, <1>3 DEF DaysUpTo, FeaturesUpTo
<1>5. Overlapping(c) => Work[c].plan.step < Work[c].plan.test
  BY <1>1, WindowsShape DEF Overlapping
<1>6. Apart(c, Len(Windows[c])) <=> ~Overlapping(c)
  BY <1>1 DEF Apart, Overlapping
<1> QED
  BY <1>4, <1>5, <1>6

(* A backtest row that reads completed has an equity point for every       *)
(* trading day of its plan, features for its rebalancing days on which a   *)
(* symbol had bars enough, and as many trades rows as it counts, for any   *)
(* plan and wherever commands are killed or calls raise (cli.py backtest,  *)
(* backtest/engine.py _run_fold, _persist_fold).                           *)
THEOREM CompletedWholeAlways == Spec => []CompletedRunsWhole
<1>1. RunInv => CompletedRunsWhole
  <2> SUFFICES ASSUME RunInv, NEW r \in RunIds, runs[r].status = "completed", ~IsGrid(runs[r].by)
               PROVE  /\ DaysIn(equity, r) = PlanDays[runs[r].by]
                      /\ DaysIn(features, r) = PlanFeatureDays[runs[r].by]
                      /\ trades[r] = runs[r].nTrades
    BY DEF CompletedRunsWhole
  <2>1. runs \in Seq(RowType) /\ r \in 1..Len(runs)
    BY LenProperties DEF RunInv, Typed, RunIds
  <2>2. runs[r] \in RowType
    BY <2>1, ElementOfSeq
  <2>3. runs[r].by \in Commands /\ RowOK(r)
    BY <2>1, <2>2 DEF RunInv, RowType
  <2> QED
    BY <2>3, PlanIsDaysUpTo DEF RowOK
<1> QED
  BY <1>1, RunInvAlways, PTL

(* Without a raising call only a period that is none or, in a backtest,    *)
(* folds that step by less than they test and share a trading day fail a   *)
(* run, and such a run never completes (backtest/engine.py run,            *)
(* backtest/walk_forward.py, the key of schema.equity_curve).              *)
THEOREM FailedExplainedAlways == Spec => []FailedRunsExplained
<1>1. RunInv => FailedRunsExplained
  <2> SUFFICES ASSUME RunInv, NEW r \in RunIds
               PROVE  LET c == runs[r].by
                          p == Work[c].plan
                      IN /\ runs[r].status = "failed" /\ faults = 0 =>
                              ~Runnable(p) \/ (Clashing(c) /\ p.step < p.test)
                         /\ runs[r].status = "completed" => Runnable(p) /\ ~Clashing(c)
    BY DEF FailedRunsExplained
  <2>1. runs \in Seq(RowType) /\ r \in 1..Len(runs)
    BY LenProperties DEF RunInv, Typed, RunIds
  <2>2. runs[r] \in RowType
    BY <2>1, ElementOfSeq
  <2>3. runs[r].by \in Commands /\ RowOK(r)
    BY <2>1, <2>2 DEF RunInv, RowType
  <2>4. \A c \in Commands : Clashing(c) => Work[c].plan.step < Work[c].plan.test
    BY PlanIsDaysUpTo DEF Clashing
  <2>5. runs[r].status = "completed" => ~Clashing(runs[r].by)
    BY <2>3, PlanIsDaysUpTo DEF RowOK, Clashing
  <2> QED
    BY <2>3, <2>4, <2>5 DEF RowOK, Excused
<1> QED
  BY <1>1, RunInvAlways, PTL

-----------------------------------------------------------------------------
(* Medians.  The elements of a sequence in the order of their values, ties *)
(* by position: every rank below the length is taken, at least half of the *)
(* elements are not below the upper middle one, and half not above the     *)
(* lower.                                                                  *)
Ahead(V, i) == {j \in DOMAIN V : V[j] < V[i] \/ (V[j] = V[i] /\ j < i)}
Rank(V, i) == Cardinality(Ahead(V, i))

LEMMA AheadFinite ==
  ASSUME NEW n \in Nat, NEW V \in [1..n -> Int], NEW i \in 1..n
  PROVE  /\ Ahead(V, i) \subseteq (1..n) \ {i} /\ IsFiniteSet(Ahead(V, i))
         /\ Rank(V, i) \in 0..(n - 1)
<1>1. Ahead(V, i) \subseteq (1..n) \ {i}
  BY DEF Ahead
<1>2. IsFiniteSet(1..n) /\ Cardinality(1..n) = n /\ n > 0
  BY FS_Interval
<1>3. IsFiniteSet((1..n) \ {i}) /\ Cardinality((1..n) \ {i}) = n - 1
  BY <1>2, FS_RemoveElement
<1>4. IsFiniteSet(Ahead(V, i)) /\ Cardinality(Ahead(V, i)) <= n - 1
  BY <1>1, <1>3, FS_Subset
<1>5. Cardinality(Ahead(V, i)) \in Nat
  BY <1>4, FS_CardinalityType
<1> QED
  BY <1>1, <1>2, <1>4, <1>5 DEF Rank

LEMMA AheadOrdered ==
  ASSUME NEW n \in Nat, NEW V \in [1..n -> Int], NEW i \in 1..n, NEW j \in 1..n, i \in Ahead(V, j)
  PROVE  Rank(V, i) < Rank(V, j)
<1>1. V[i] \in Int /\ V[j] \in Int /\ DOMAIN V = 1..n
  OBVIOUS
<1>2. Ahead(V, i) \cup {i} \subseteq Ahead(V, j)
  BY <1>1 DEF Ahead
<1>3. i \notin Ahead(V, i) /\ IsFiniteSet(Ahead(V, i)) /\ IsFiniteSet(Ahead(V, j))
      /\ Rank(V, i) \in Nat /\ Rank(V, j) \in Nat
  BY AheadFinite
<1>4. Cardinality(Ahead(V, i) \cup {i}) = Rank(V, i) + 1
  BY <1>3, FS_AddElement DEF Rank
<1>5. Cardinality(Ahead(V, i) \cup {i}) <= Rank(V, j)
  BY <1>2, <1>3, FS_Subset DEF Rank
<1> QED
  BY <1>3, <1>4, <1>5

LEMMA RankTaken ==
  ASSUME NEW n \in Nat, NEW V \in [1..n -> Int], NEW k \in 0..(n - 1)
  PROVE  \E i \in 1..n : Rank(V, i) = k
<1> DEFINE S == 1..n
           T == 0..(n - 1)
           f == [i \in S |-> Rank(V, i)]
<1>1. f \in [S -> T]
  BY AheadFinite
<1>2. ASSUME NEW i \in S, NEW j \in S, i # j PROVE f[i] # f[j]
  <2>1. V[i] \in Int /\ V[j] \in Int /\ i \in Int /\ j \in Int /\ DOMAIN V = S
    OBVIOUS
  <2> HIDE DEF S
  <2>2. i \in Ahead(V, j) \/ j \in Ahead(V, i)
    <3>1. \/ V[i] < V[j]
          \/ V[j] < V[i]
          \/ V[i] = V[j] /\ i < j
          \/ V[i] = V[j] /\ j < i
      BY <1>2, <2>1
    <3> QED
      BY <2>1, <3>1 DEF Ahead
  <2>3. Rank(V, i) \in Nat /\ Rank(V, j) \in Nat
    BY AheadFinite DEF S
  <2>4. Rank(V, i) # Rank(V, j)
    BY <2>2, <2>3, AheadOrdered DEF S
  <2> QED
    BY <2>4
<1>3. /\ IsFiniteSet(S) /\ IsFiniteSet(T) /\ Cardinality(S) = n /\ Cardinality(T) = n
  BY FS_Interval
<1> HIDE DEF f, S, T
<1>4. f \in Injection(S, T)
  BY <1>1, <1>2 DEF Injection, IsInjective
<1>5. f \in Surjection(S, T)
  BY <1>3, <1>4, FS_Injection
<1>6. \E i \in S : f[i] = k
  BY <1>5 DEF Surjection, T
<1> QED
  BY <1>6 DEF f, S

LEMMA HalfNotBelow ==
  ASSUME NEW n \in Nat \ {0}, NEW V \in [1..n -> Int], NEW i \in 1..n, Rank(V, i) = n \div 2,
         NEW b \in Int, V[i] >= b
  PROVE  2 * Cardinality({j \in 1..n : V[j] >= b}) >= n
<1> DEFINE A == Ahead(V, i)
           B == {j \in 1..n : V[j] >= b}
           S == 1..n
<1>1. IsFiniteSet(S) /\ Cardinality(S) = n
  BY FS_Interval
<1>2. A \subseteq S /\ B \subseteq S /\ S = A \cup B
  <2>1. DOMAIN V = S /\ A \subseteq S /\ B \subseteq S
    BY DEF Ahead
  <2>2. ASSUME NEW j \in S PROVE j \in A \/ j \in B
    <3>1. V[j] \in Int /\ V[i] \in Int
      OBVIOUS
    <3>2. V[j] < V[i] => j \in A
      BY <2>1 DEF Ahead
    <3>3. ~(V[j] < V[i]) => V[j] >= b
      BY <3>1
    <3> QED
      BY <3>2, <3>3
  <2> QED
    BY <2>1, <2>2
<1>3. Cardinality(A) = n \div 2
  BY DEF Rank
<1> HIDE DEF A, B, S
<1>4. IsFiniteSet(A) /\ IsFiniteSet(B)
  BY <1>1, <1>2, FS_Subset
<1>5. n = Cardinality(A) + Cardinality(B) - Cardinality(A \cap B)
  BY <1>1, <1>2, <1>4, FS_Union
<1>6. Cardinality(A) \in Nat /\ Cardinality(B) \in Nat /\ Cardinality(A \cap B) \in Nat
  BY <1>4, FS_Intersection, FS_CardinalityType
<1>7. \A a, x, y \in Nat : a = n \div 2 /\ n = a + x - y => 2 * x >= n
  OBVIOUS
<1>8. 2 * Cardinality(B) >= n
  BY <1>3, <1>5, <1>6, <1>7
<1> QED
  BY <1>8 DEF B

LEMMA HalfNotAbove ==
  ASSUME NEW n \in Nat \ {0}, NEW V \in [1..n -> Int], NEW i \in 1..n, Rank(V, i) = (n - 1) \div 2,
         NEW b \in Int, V[i] <= b
  PROVE  2 * Cardinality({j \in 1..n : V[j] <= b}) >= n
<1> DEFINE A == Ahead(V, i)
           B == {j \in 1..n : V[j] <= b}
           S == 1..n
<1>1. IsFiniteSet(S) /\ B \subseteq S
  BY FS_Interval
<1>2. A \cup {i} \subseteq B
  <2>1. V[i] \in Int /\ \A j \in S : V[j] \in Int
    OBVIOUS
  <2>2. A \subseteq S /\ \A j \in A : V[j] <= V[i]
    BY <2>1 DEF Ahead
  <2> QED
    BY <2>1, <2>2
<1>3. i \notin A /\ IsFiniteSet(A) /\ Cardinality(A) = (n - 1) \div 2
  BY AheadFinite DEF Rank
<1> HIDE DEF A, B, S
<1>4. Cardinality(A \cup {i}) = (n - 1) \div 2 + 1
  BY <1>3, FS_AddElement
<1>5. IsFiniteSet(B) /\ Cardinality(A \cup {i}) <= Cardinality(B)
  BY <1>1, <1>2, FS_Subset
<1>6. Cardinality(B) \in Nat
  BY <1>5, FS_CardinalityType
<1>7. \A x \in Nat : (n - 1) \div 2 + 1 <= x => 2 * x >= n
  OBVIOUS
<1>8. 2 * Cardinality(B) >= n
  BY <1>4, <1>5, <1>6, <1>7
<1> QED
  BY <1>8 DEF B

(* The position of the k-th value of field f, as Median2 chooses it.       *)
BelowIn(rs, f, i) == Cardinality({j \in DOMAIN rs : \/ rs[j][f] < rs[i][f]
                                                    \/ rs[j][f] = rs[i][f] /\ j < i})
Mid(rs, f, k) == CHOOSE i \in DOMAIN rs : BelowIn(rs, f, i) = k

LEMMA MedianOfMids ==
  \A rs, f : Median2(rs, f) = rs[Mid(rs, f, (Len(rs) - 1) \div 2)][f] + rs[Mid(rs, f, Len(rs) \div 2)][f]
BY DEF Median2, Mid, BelowIn

LEMMA BelowIsRank ==
  ASSUME NEW n \in Nat, NEW rs, DOMAIN rs = 1..n, NEW f, NEW V \in [1..n -> Int],
         \A i \in 1..n : V[i] = rs[i][f], NEW i \in 1..n
  PROVE  BelowIn(rs, f, i) = Rank(V, i)
<1> DEFINE B == {j \in DOMAIN rs : \/ rs[j][f] < rs[i][f]
                                   \/ rs[j][f] = rs[i][f] /\ j < i}
<1>1. \A j \in 1..n : j \in B <=> j \in Ahead(V, i)
  BY DEF Ahead
<1>2. B \subseteq 1..n /\ Ahead(V, i) \subseteq 1..n
  BY DEF Ahead
<1>3. B = Ahead(V, i)
  <2> HIDE DEF B
  <2> QED
    BY <1>1, <1>2
<1> QED
  BY <1>3 DEF BelowIn, Rank

TwoMids(rs, f, n, V) ==
  \E lo, hi \in 1..n : /\ Median2(rs, f) = V[lo] + V[hi] /\ V[lo] <= V[hi]
                       /\ Rank(V, lo) = (n - 1) \div 2 /\ Rank(V, hi) = n \div 2

LEMMA MidsOrdered ==
  ASSUME NEW n \in Nat \ {0}, NEW rs, DOMAIN rs = 1..n, Len(rs) = n, NEW f, NEW V \in [1..n -> Int],
         \A i \in 1..n : V[i] = rs[i][f]
  PROVE  TwoMids(rs, f, n, V)
<1> DEFINE a == (n - 1) \div 2
           b == n \div 2
           lo == Mid(rs, f, a)
           hi == Mid(rs, f, b)
<1>1. a \in 0..(n - 1) /\ b \in 0..(n - 1) /\ a <= b
  OBVIOUS
<1>2. ASSUME NEW k \in 0..(n - 1) PROVE Mid(rs, f, k) \in 1..n /\ Rank(V, Mid(rs, f, k)) = k
  <2>1. PICK i \in 1..n : Rank(V, i) = k
    BY RankTaken
  <2>2. \A m \in 1..n : BelowIn(rs, f, m) = Rank(V, m)
    BY BelowIsRank
  <2>3. \E m \in DOMAIN rs : BelowIn(rs, f, m) = k
    BY <2>1, <2>2
  <2>4. Mid(rs, f, k) \in DOMAIN rs /\ BelowIn(rs, f, Mid(rs, f, k)) = k
    BY <2>3 DEF Mid
  <2> QED
    BY <2>2, <2>4
<1> HIDE DEF a, b
<1>3. lo \in 1..n /\ hi \in 1..n /\ Rank(V, lo) = a /\ Rank(V, hi) = b
  BY <1>1, <1>2
<1>4. Median2(rs, f) = V[lo] + V[hi]
  BY <1>3, MedianOfMids DEF a, b
<1> HIDE DEF lo, hi
<1>5. V[lo] <= V[hi]
  <2>1. V[lo] \in Int /\ V[hi] \in Int /\ a \in Int /\ b \in Int
    BY <1>1, <1>3
  <2>2. V[hi] < V[lo] => hi \in Ahead(V, lo)
    BY <1>3 DEF Ahead
  <2>3. hi \in Ahead(V, lo) => b < a
    BY <1>3, AheadOrdered
  <2> QED
    BY <1>1, <2>1, <2>2, <2>3
<1> QED
  BY <1>3, <1>4, <1>5 DEF a, b, TwoMids

(* A median that keeps to a bound: at least half of the folds keep to it.  *)
LEMMA FoldValues ==
  ASSUME NEW rs \in Seq(FoldRec), NEW f \in {"alpha", "sharpe", "dd"}
  PROVE  /\ Len(rs) \in Nat /\ DOMAIN rs = 1..Len(rs)
         /\ [i \in 1..Len(rs) |-> rs[i][f]] \in [1..Len(rs) -> Int]
<1>1. Len(rs) \in Nat /\ DOMAIN rs = 1..Len(rs)
  BY LenProperties
<1>2. ASSUME NEW i \in 1..Len(rs) PROVE rs[i][f] \in Int
  <2>1. rs[i] \in FoldRec
    BY ElementOfSeq
  <2>2. CASE f = "alpha"
    BY <2>1, <2>2 DEF FoldRec
  <2>3. CASE f = "sharpe"
    BY <2>1, <2>3 DEF FoldRec
  <2>4. CASE f = "dd"
    BY <2>1, <2>4 DEF FoldRec
  <2> QED
    BY <2>2, <2>3, <2>4
<1> QED
  BY <1>1, <1>2

LEMMA MedianHalf ==
  ASSUME NEW rs \in Seq(FoldRec), NEW f \in {"alpha", "sharpe", "dd"}, NEW b \in Int
  PROVE  /\ Median2(rs, f) >= 2 * b => HalfReach(rs, f, b)
         /\ Median2(rs, f) <= 2 * b => HalfWithin(rs, f, b)
<1> DEFINE n == Len(rs)
           V == [i \in 1..n |-> rs[i][f]]
<1>1. n \in Nat /\ DOMAIN rs = 1..n /\ V \in [1..n -> Int]
  BY FoldValues
<1>2. \A i \in 1..n : V[i] = rs[i][f]
  OBVIOUS
<1>3. CASE n = 0
  <2>1. {i \in DOMAIN rs : rs[i][f] >= b} = {} /\ {i \in DOMAIN rs : rs[i][f] <= b} = {}
    BY <1>1, <1>3
  <2> QED
    BY <1>3, <2>1, FS_EmptySet DEF HalfReach, HalfWithin
<1>4. CASE n # 0
  <2> HIDE DEF V, n
  <2>1. n \in Nat \ {0} /\ Len(rs) = n
    BY <1>1, <1>4 DEF n
  <2>2. PICK lo, hi \in 1..n : /\ Median2(rs, f) = V[lo] + V[hi] /\ V[lo] <= V[hi]
                               /\ Rank(V, lo) = (n - 1) \div 2 /\ Rank(V, hi) = n \div 2
    <3>1. DOMAIN rs = 1..n
      BY <1>1
    <3>2. V \in [1..n -> Int]
      BY <1>1
    <3>3. \A i \in 1..n : V[i] = rs[i][f]
      BY <1>2
    <3>4. TwoMids(rs, f, n, V)
      BY <2>1, <3>1, <3>2, <3>3, MidsOrdered
    <3> QED
      BY <3>4 DEF TwoMids
  <2>3. V[lo] \in Int /\ V[hi] \in Int
    BY <1>1, <2>2
  <2>4. ASSUME Median2(rs, f) >= 2 * b PROVE HalfReach(rs, f, b)
    <3>1. V[hi] >= b
      BY <2>2, <2>3, <2>4
    <3>2. 2 * Cardinality({j \in 1..n : V[j] >= b}) >= n
      BY <1>1, <2>1, <2>2, <3>1, HalfNotBelow
    <3>3. {j \in 1..n : V[j] >= b} = {i \in DOMAIN rs : rs[i][f] >= b}
      BY <1>1, <1>2
    <3> QED
      BY <2>1, <3>2, <3>3 DEF HalfReach
  <2>5. ASSUME Median2(rs, f) <= 2 * b PROVE HalfWithin(rs, f, b)
    <3>1. V[lo] <= b
      BY <2>2, <2>3, <2>5
    <3>2. 2 * Cardinality({j \in 1..n : V[j] <= b}) >= n
      BY <1>1, <2>1, <2>2, <3>1, HalfNotAbove
    <3>3. {j \in 1..n : V[j] <= b} = {i \in DOMAIN rs : rs[i][f] <= b}
      BY <1>1, <1>2
    <3> QED
      BY <2>1, <3>2, <3>3 DEF HalfWithin
  <2> QED
    BY <2>4, <2>5
<1> QED
  BY <1>3, <1>4

-----------------------------------------------------------------------------
(* What a step does to the rows: nothing, one more running row, or the end *)
(* of a row that runs.                                                     *)
Opened(c) == runs' = Append(runs, NewRow(c, Item(c)))
Closed(c, rid, row) ==
  /\ rid \in 1..Len(runs) /\ runs[rid].by = c /\ runs[rid].status = "running"
  /\ runs[rid].passed = "null" /\ SetRow(rid, row)

LEMMA RunningRow ==
  ASSUME RunInv, NEW c \in Commands, cmd[c].pc \in {"fold", "except", "settle"}
  PROVE  /\ cmd[c].run \in 1..Len(runs) /\ runs[cmd[c].run].by = c
         /\ runs[cmd[c].run].status = "running" /\ runs[cmd[c].run].passed = "null"
         /\ cmd[c].results \in Seq(FoldRec)
<1>1. /\ LocalsOK(c, cmd[c]) /\ cmd[c].run \in 0..Len(runs) /\ runs \in Seq(RowType)
      /\ cmd[c] \in CmdType
  BY DEF RunInv, Typed
<1>2. cmd[c].run # 0 /\ runs[cmd[c].run].by = c /\ runs[cmd[c].run].status = "running"
  BY <1>1 DEF LocalsOK, Backtesting, NoRun
<1>3. cmd[c].run \in 1..Len(runs)
  BY <1>1, <1>2, LenProperties
<1>4. runs[cmd[c].run] \in RowType
  BY <1>1, <1>3, ElementOfSeq
<1>5. runs[cmd[c].run].passed = "null"
  BY <1>2, <1>3, <1>4 DEF RunInv, Typed, RowType
<1> QED
  BY <1>1, <1>2, <1>3, <1>5 DEF CmdType

LEMMA RowsMove ==
  ASSUME RunInv, NEW c \in Commands, Step(c)
  PROVE  /\ orders' = orders
         /\ \/ runs' = runs
            \/ Opened(c)
            \/ \E rid : Closed(c, rid, Failed(runs[rid]))
            \/ \E rid, rs : rs \in Seq(FoldRec) /\ Closed(c, rid, Completed(runs[rid], rs))
<1>1. CASE CreateRun(c) \/ PersistRow(c)
  BY <1>1 DEF CreateRun, PersistRow, InsertRow, Opened, Quiet
<1>2. CASE RunFold(c) \/ OpenGrid(c) \/ RunCombo(c) \/ NextCombo(c) \/ CloseGrid(c)
  BY <1>2 DEF RunFold, OpenGrid, RunCombo, NextCombo, CloseGrid, Rows, Quiet
<1>3. CASE WriteEquity(c) \/ WriteTrade(c) \/ WriteFeatures(c)
  BY <1>3 DEF WriteEquity, WriteTrade, WriteFeatures, Quiet
<1>4. CASE FinalizeRun(c)
  <2>1. cmd[c].pc = "fold" /\ orders' = orders
        /\ SetRow(cmd[c].run, Completed(runs[cmd[c].run], cmd[c].results))
    BY <1>4 DEF FinalizeRun, At, Quiet
  <2>2. Closed(c, cmd[c].run, Completed(runs[cmd[c].run], cmd[c].results))
    BY <2>1, RunningRow DEF Closed
  <2>3. cmd[c].results \in Seq(FoldRec)
    BY <2>1, RunningRow
  <2> QED
    BY <2>1, <2>2, <2>3
<1>5. CASE FailRun(c)
  <2>1. cmd[c].pc = "except" /\ orders' = orders /\ SetRow(cmd[c].run, Failed(runs[cmd[c].run]))
    BY <1>5 DEF FailRun, At, Quiet
  <2>2. Closed(c, cmd[c].run, Failed(runs[cmd[c].run]))
    BY <2>1, RunningRow DEF Closed
  <2> QED
    BY <2>1, <2>2
<1>6. CASE SettleRow(c)
  <2> DEFINE row == runs[cmd[c].run]
             end == IF cmd[c].error THEN Failed(row) ELSE Completed(row, cmd[c].results)
  <2>1. cmd[c].pc = "settle" /\ orders' = orders /\ SetRow(cmd[c].run, end)
    BY <1>6 DEF SettleRow, At, Quiet
  <2>2. Closed(c, cmd[c].run, end) /\ cmd[c].results \in Seq(FoldRec)
    BY <2>1, RunningRow DEF Closed
  <2>3. CASE cmd[c].error
    BY <2>1, <2>2, <2>3
  <2>4. CASE ~cmd[c].error
    BY <2>1, <2>2, <2>4
  <2> QED
    BY <2>3, <2>4
<1> QED
  BY <1>1, <1>2, <1>3, <1>4, <1>5, <1>6 DEF Step

(* The rows after such a move.                                             *)
LEMMA OpenedRows ==
  ASSUME RunInv, NEW c \in Commands, Opened(c)
  PROVE  /\ Len(runs') = Len(runs) + 1 /\ Len(runs) \in Nat
         /\ \A r \in 1..Len(runs) : runs'[r] = runs[r]
         /\ LET row == runs'[Len(runs) + 1] IN
              row.by = c /\ row.status = "running" /\ row.passed = "null"
<1>1. runs \in Seq(RowType) /\ Len(runs) \in Nat
  BY LenProperties DEF RunInv, Typed
<1>2. runs \in Seq(RowType \cup {NewRow(c, Item(c))})
  <2>1. DOMAIN runs = 1..Len(runs) /\ runs \in [1..Len(runs) -> RowType]
    BY <1>1, LenProperties
  <2>2. runs \in [1..Len(runs) -> RowType \cup {NewRow(c, Item(c))}]
    BY <2>1
  <2> QED
    BY <1>1, <2>2, SeqDef
<1>3. Len(runs') = Len(runs) + 1 /\ runs'[Len(runs) + 1] = NewRow(c, Item(c))
      /\ \A r \in 1..Len(runs) : runs'[r] = runs[r]
  BY <1>2, AppendProperties DEF Opened
<1> QED
  BY <1>1, <1>3 DEF NewRow

LEMMA ClosedRows ==
  ASSUME RunInv, NEW c \in Commands, NEW rid, NEW row, Closed(c, rid, row)
  PROVE  /\ Len(runs') = Len(runs) /\ Len(runs) \in Nat /\ rid \in 1..Len(runs)
         /\ \A r \in 1..Len(runs) : runs'[r] = IF r = rid THEN row ELSE runs[r]
<1>1. runs \in Seq(RowType) /\ Len(runs) \in Nat /\ DOMAIN runs = 1..Len(runs)
  BY LenProperties DEF RunInv, Typed
<1>2. runs' = [runs EXCEPT ![rid] = row] /\ rid \in 1..Len(runs)
  BY DEF Closed, SetRow
<1>3. runs \in Seq(RowType \cup {row})
  <2>1. runs \in [1..Len(runs) -> RowType \cup {row}]
    BY <1>1, LenProperties
  <2> QED
    BY <1>1, <2>1, SeqDef
<1>4. Len(runs') = Len(runs)
  BY <1>2, <1>3, ExceptSeq
<1> QED
  BY <1>1, <1>2, <1>4

-----------------------------------------------------------------------------
(* The live gate.  A verdict is computed from the folds it is stored with  *)
(* and no step touches a row that has one.                                 *)
Judged == \A r \in 1..Len(runs) : runs[r].passed = "yes" => Accepts(runs[r].folds)
Followed == \A o \in orders : o.run \in 1..Len(runs) /\ runs[o.run].passed = "yes"
LiveInv == Judged /\ Followed

LEMMA LiveInvRows == ASSUME LiveInv, UNCHANGED <<runs, orders>> PROVE LiveInv'
BY DEF LiveInv, Judged, Followed

LEMMA NextLiveInv ==
  ASSUME RunInv, LiveInv, [Next]_vars
  PROVE  LiveInv'
<1>1. ASSUME NEW c \in Commands, Step(c) PROVE LiveInv'
  <2>1. orders' = orders
    BY <1>1, RowsMove
  <2>2. CASE runs' = runs
    BY <2>1, <2>2, LiveInvRows
  <2>3. CASE Opened(c)
    <3>1. \A r \in 1..Len(runs') : r \in 1..Len(runs) \/ runs'[r].passed = "null"
      BY <2>3, OpenedRows
    <3> QED
      BY <2>1, <2>3, <3>1, OpenedRows DEF LiveInv, Judged, Followed
  <2>4. CASE \E rid : Closed(c, rid, Failed(runs[rid]))
    <3>1. PICK rid : Closed(c, rid, Failed(runs[rid]))
      BY <2>4
    <3>2. Failed(runs[rid]).passed = "null"
      <4>1. runs \in Seq(RowType) /\ rid \in 1..Len(runs) /\ runs[rid].passed = "null"
        BY <3>1 DEF Closed, RunInv, Typed
      <4>2. runs[rid] \in RowType
        BY <4>1, ElementOfSeq
      <4> QED
        BY <4>1, <4>2 DEF Failed, RowType
    <3>3. runs[rid].passed = "null"
      BY <3>1 DEF Closed
    <3> QED
      BY <2>1, <3>1, <3>2, <3>3, ClosedRows DEF LiveInv, Judged, Followed
  <2>5. CASE \E rid, rs : rs \in Seq(FoldRec) /\ Closed(c, rid, Completed(runs[rid], rs))
    <3>1. PICK rid, rs : rs \in Seq(FoldRec) /\ Closed(c, rid, Completed(runs[rid], rs))
      BY <2>5
    <3> DEFINE row == Completed(runs[rid], rs)
    <3>2. row.passed = "yes" => Accepts(row.folds)
      <4>1. runs \in Seq(RowType) /\ rid \in 1..Len(runs)
        BY <3>1 DEF Closed, RunInv, Typed
      <4>2. runs[rid] \in RowType
        BY <4>1, ElementOfSeq
      <4> QED
        BY <4>1, <4>2 DEF Completed, RowType
    <3>3. runs[rid].passed = "null"
      BY <3>1 DEF Closed
    <3>4. Closed(c, rid, row)
      BY <3>1
    <3> HIDE DEF row
    <3> QED
      BY <2>1, <3>2, <3>3, <3>4, ClosedRows DEF LiveInv, Judged, Followed
  <2> QED
    BY <1>1, <2>2, <2>3, <2>4, <2>5, RowsMove
<1>2. ASSUME NEW c \in Commands, Raise(c) \/ Kill(c) PROVE LiveInv'
  BY <1>2, LiveInvRows DEF Raise, Kill, Rows
<1>3. ASSUME NEW cfg \in LiveConfigs, NEW rid \in DOMAIN runs, TradeLive(cfg, rid) PROVE LiveInv'
  <2>1. runs' = runs /\ orders' = orders \cup {[cfg |-> cfg, run |-> rid]} /\ runs[rid].passed = "yes"
    BY <1>3 DEF TradeLive, Rows, Promotable
  <2>2. rid \in 1..Len(runs)
    BY LenProperties DEF RunInv, Typed
  <2> QED
    BY <2>1, <2>2 DEF LiveInv, Judged, Followed
<1>4. CASE UNCHANGED vars
  BY <1>4, LiveInvRows DEF vars
<1> QED
  BY <1>1, <1>2, <1>3, <1>4 DEF Next

(* Live money follows a row that is and stays completed, that has the      *)
(* folds asked for, and at least half of whose folds meet each of the      *)
(* three criteria, for any criteria and fold results (cli.py trade_live,   *)
(* backtest/acceptance.py).                                                *)
THEOREM LiveAlwaysBehindGate == Spec => []LiveBehindGate
<1>1. Init => LiveInv
  BY EmptySeq DEF Init, LiveInv, Judged, Followed
<1>2. RunInv /\ LiveInv => LiveBehindGate
  <2> SUFFICES ASSUME RunInv, LiveInv, NEW o \in orders
               PROVE  LET row == runs[o.run] IN
                      /\ row.status = "completed"
                      /\ Len(row.folds) >= Criteria.folds
                      /\ \A f \in {"alpha", "sharpe"} : HalfReach(row.folds, f, Criteria[f])
                      /\ HalfWithin(row.folds, "dd", Criteria.dd)
    BY DEF LiveBehindGate
  <2> DEFINE row == runs[o.run]
  <2>1. runs \in Seq(RowType) /\ o.run \in 1..Len(runs) /\ row.passed = "yes" /\ Accepts(row.folds)
    BY DEF RunInv, Typed, LiveInv, Judged, Followed
  <2>2. row.status = "completed"
    BY <2>1 DEF RunInv, Typed
  <2>3. row.folds \in Seq(FoldRec)
    <3>1. row \in RowType
      BY <2>1, ElementOfSeq
    <3> QED
      BY <3>1 DEF RowType
  <2> HIDE DEF row
  <2>4. Criteria.alpha \in Int /\ Criteria.sharpe \in Int /\ Criteria.dd \in Int
    BY WorkAssumption
  <2>5. HalfReach(row.folds, "alpha", Criteria.alpha)
    BY <2>1, <2>3, <2>4, MedianHalf DEF Accepts
  <2>6. HalfReach(row.folds, "sharpe", Criteria.sharpe)
    BY <2>1, <2>3, <2>4, MedianHalf DEF Accepts
  <2>7. Len(row.folds) >= Criteria.folds
    BY <2>1 DEF Accepts
  <2>8. HalfWithin(row.folds, "dd", Criteria.dd)
    BY <2>1, <2>3, <2>4, MedianHalf DEF Accepts
  <2> QED
    BY <2>2, <2>5, <2>6, <2>7, <2>8 DEF row
<1> QED
  BY <1>1, <1>2, NextLiveInv, RunInvAlways, PTL DEF Spec

-----------------------------------------------------------------------------
(* The report of a grid.  While a grid goes on, its two counts are those   *)
(* of the rows it has completed and of those it has accepted, but for the  *)
(* combination between its last write and NextCombo, which has its row and *)
(* not yet its count when the write did not raise.                         *)
WholeRows(c) == {r \in 1..Len(runs) : runs[r].by = c /\ runs[r].status = "completed"}
PassedRows(c) == {r \in 1..Len(runs) : runs[r].by = c /\ runs[r].passed = "yes"}
One(test) == IF test THEN 1 ELSE 0

Reported(c, l) ==
  LET owed == l.pc = "count" /\ ~l.error IN
  IsGrid(c) /\ l.pc \in {"start", "combo", "persist", "settle", "count", "done"} =>
    /\ Cardinality(WholeRows(c)) = l.ok + One(owed)
    /\ Cardinality(PassedRows(c)) = l.passed + One(owed /\ Accepts(l.results))

GridInv == \A c \in Commands : Reported(c, cmd[c])

LEMMA SameCounts ==
  ASSUME NEW c, WholeRows(c)' = WholeRows(c), PassedRows(c)' = PassedRows(c),
         cmd'[c] = cmd[c], Reported(c, cmd[c])
  PROVE  Reported(c, cmd[c])'
BY DEF Reported, One, IsGrid

(* The rows completed and accepted move with the row a step closes only.   *)
LEMMA CountsKept ==
  ASSUME RunInv, NEW c \in Commands,
         \/ runs' = runs
         \/ Opened(c)
         \/ \E rid : Closed(c, rid, Failed(runs[rid])),
         NEW i
  PROVE  WholeRows(i)' = WholeRows(i) /\ PassedRows(i)' = PassedRows(i)
<1>1. CASE runs' = runs
  BY <1>1 DEF WholeRows, PassedRows
<1>2. CASE Opened(c)
  <2>1. 1..Len(runs') = (1..Len(runs)) \cup {Len(runs) + 1}
    BY <1>2, OpenedRows
  <2>2. \A r \in 1..Len(runs) : runs'[r] = runs[r]
    BY <1>2, OpenedRows
  <2>3. runs'[Len(runs) + 1].status # "completed" /\ runs'[Len(runs) + 1].passed # "yes"
    BY <1>2, OpenedRows
  <2> QED
    BY <2>1, <2>2, <2>3 DEF WholeRows, PassedRows
<1>3. CASE \E rid : Closed(c, rid, Failed(runs[rid]))
  <2>1. PICK rid : Closed(c, rid, Failed(runs[rid]))
    BY <1>3
  <2>2. runs \in Seq(RowType) /\ rid \in 1..Len(runs) /\ runs[rid].passed = "null"
        /\ runs[rid].status = "running"
    BY <2>1 DEF Closed, RunInv, Typed
  <2>3. runs[rid] \in RowType
    BY <2>2, ElementOfSeq
  <2>4. Failed(runs[rid]).passed = "null" /\ Failed(runs[rid]).status = "failed"
    BY <2>2, <2>3 DEF Failed, RowType
  <2>5. 1..Len(runs') = 1..Len(runs) /\ \A r \in 1..Len(runs) : r # rid => runs'[r] = runs[r]
    BY <2>1, ClosedRows
  <2>6. runs'[rid] = Failed(runs[rid])
    BY <2>1, ClosedRows
  <2> QED
    BY <2>2, <2>4, <2>5, <2>6 DEF WholeRows, PassedRows
<1> QED
  BY <1>1, <1>2, <1>3

LEMMA CountsGrow ==
  ASSUME RunInv, NEW c \in Commands, NEW rid, NEW rs, Closed(c, rid, Completed(runs[rid], rs))
  PROVE  /\ WholeRows(c)' = WholeRows(c) \cup {rid} /\ rid \notin WholeRows(c)
         /\ PassedRows(c)' = PassedRows(c) \cup (IF Accepts(rs) THEN {rid} ELSE {})
         /\ rid \notin PassedRows(c)
         /\ \A i : i # c => WholeRows(i)' = WholeRows(i) /\ PassedRows(i)' = PassedRows(i)
<1> DEFINE row == Completed(runs[rid], rs)
<1>1. runs \in Seq(RowType) /\ rid \in 1..Len(runs) /\ runs[rid].passed = "null"
      /\ runs[rid].status = "running" /\ runs[rid].by = c
  BY DEF Closed, RunInv, Typed
<1>2. runs[rid] \in RowType
  BY <1>1, ElementOfSeq
<1>3. row.by = c /\ row.status = "completed" /\ (row.passed = "yes" <=> Accepts(rs))
  BY <1>1, <1>2 DEF Completed, RowType
<1>4. /\ Len(runs') = Len(runs)
      /\ \A r \in 1..Len(runs) : runs'[r] = IF r = rid THEN row ELSE runs[r]
  BY ClosedRows
<1> HIDE DEF row
<1>5. rid \notin WholeRows(c) /\ rid \notin PassedRows(c)
  BY <1>1 DEF WholeRows, PassedRows
<1>6. WholeRows(c)' = WholeRows(c) \cup {rid}
  BY <1>1, <1>3, <1>4 DEF WholeRows
<1>7. PassedRows(c)' = PassedRows(c) \cup (IF Accepts(rs) THEN {rid} ELSE {})
  BY <1>1, <1>3, <1>4 DEF PassedRows
<1>8. ASSUME NEW i, i # c PROVE WholeRows(i)' = WholeRows(i) /\ PassedRows(i)' = PassedRows(i)
  BY <1>1, <1>3, <1>4, <1>8 DEF WholeRows, PassedRows
<1> QED
  BY <1>5, <1>6, <1>7, <1>8

LEMMA CountsAreNumbers ==
  ASSUME RunInv, NEW i
  PROVE  /\ IsFiniteSet(WholeRows(i)) /\ IsFiniteSet(PassedRows(i))
         /\ Cardinality(WholeRows(i)) \in Nat /\ Cardinality(PassedRows(i)) \in Nat
<1>1. WholeRows(i) \subseteq 1..Len(runs) /\ PassedRows(i) \subseteq 1..Len(runs)
  BY DEF WholeRows, PassedRows
<1>2. IsFiniteSet(1..Len(runs))
  BY LenProperties, FS_Interval DEF RunInv, Typed
<1>3. IsFiniteSet(WholeRows(i)) /\ IsFiniteSet(PassedRows(i))
  BY <1>1, <1>2, FS_Subset
<1> QED
  BY <1>3, FS_CardinalityType

(* A step of c moves the counts of c only, and its local state decides     *)
(* about its report.                                                       *)
LEMMA GridStep ==
  ASSUME RunInv, GridInv, NEW c \in Commands, NEW new, cmd' = [cmd EXCEPT ![c] = new],
         \A i \in Commands : i # c => WholeRows(i)' = WholeRows(i) /\ PassedRows(i)' = PassedRows(i),
         cmd'[c] = new => Reported(c, cmd[c])'
  PROVE  GridInv'
<1>1. cmd'[c] = new /\ \A i \in Commands : i # c => cmd'[i] = cmd[i]
  BY DEF RunInv, Typed
<1>2. ASSUME NEW i \in Commands PROVE Reported(i, cmd[i])'
  <2>1. CASE i = c
    BY <1>1, <2>1
  <2>2. CASE i # c
    <3>1. Reported(i, cmd[i])
      BY DEF GridInv
    <3> QED
      BY <1>1, <2>2, <3>1, SameCounts
  <2> QED
    BY <2>1, <2>2
<1> QED
  BY <1>2 DEF GridInv

(* A step of c that completes no row.                                      *)
LEMMA GridQuiet ==
  ASSUME RunInv, GridInv, NEW c \in Commands, NEW new, cmd' = [cmd EXCEPT ![c] = new],
         \/ runs' = runs
         \/ Opened(c)
         \/ \E rid : Closed(c, rid, Failed(runs[rid])),
         \/ ~IsGrid(c)
         \/ new.pc \in {"raised", "killed", "fold", "equity", "trades", "except"}
         \/ /\ cmd[c].pc \in {"start", "combo", "persist", "settle", "count"}
            /\ new.ok = cmd[c].ok + One(cmd[c].pc = "count" /\ ~cmd[c].error)
            /\ new.passed = cmd[c].passed
                            + One(cmd[c].pc = "count" /\ ~cmd[c].error /\ Accepts(cmd[c].results))
            /\ new.pc = "count" => new.error
  PROVE  GridInv'
<1>1. \A i : WholeRows(i)' = WholeRows(i) /\ PassedRows(i)' = PassedRows(i)
  BY CountsKept
<1>2. Reported(c, cmd[c])
  BY DEF GridInv
<1>3. ASSUME cmd'[c] = new PROVE Reported(c, cmd[c])'
  <2>1. CASE ~IsGrid(c)
    BY <2>1 DEF Reported, IsGrid
  <2>2. CASE new.pc \in {"raised", "killed", "fold", "equity", "trades", "except"}
    BY <1>3, <2>2 DEF Reported
  <2>3. CASE /\ IsGrid(c)
             /\ cmd[c].pc \in {"start", "combo", "persist", "settle", "count"}
             /\ new.ok = cmd[c].ok + One(cmd[c].pc = "count" /\ ~cmd[c].error)
             /\ new.passed = cmd[c].passed
                             + One(cmd[c].pc = "count" /\ ~cmd[c].error /\ Accepts(cmd[c].results))
             /\ new.pc = "count" => new.error
    <3>1. /\ Cardinality(WholeRows(c)) = new.ok
          /\ Cardinality(PassedRows(c)) = new.passed
      BY <1>2, <2>3 DEF Reported
    <3>2. new.ok \in Nat /\ new.passed \in Nat
      BY <3>1, CountsAreNumbers
    <3>3. new.ok + One(new.pc = "count" /\ ~new.error) = new.ok
          /\ new.passed + One(new.pc = "count" /\ ~new.error /\ Accepts(new.results)) = new.passed
      BY <2>3, <3>2 DEF One
    <3>4. /\ Cardinality(WholeRows(c)') = new.ok + One(new.pc = "count" /\ ~new.error)
          /\ Cardinality(PassedRows(c)')
               = new.passed + One(new.pc = "count" /\ ~new.error /\ Accepts(new.results))
      BY <1>1, <3>1, <3>3
    <3> QED
      BY <1>3, <3>4 DEF Reported
  <2> QED
    BY <2>1, <2>2, <2>3
<1> QED
  BY <1>1, <1>3, GridStep

LEMMA SettleCounts ==
  ASSUME RunInv, GridInv, NEW c \in Commands, SettleRow(c)
  PROVE  GridInv'
<1> DEFINE l == cmd[c]
           row == runs[l.run]
           new == [l EXCEPT !.pc = "count"]
<1>1. /\ l.pc = "settle" /\ cmd' = [cmd EXCEPT ![c] = new]
      /\ SetRow(l.run, IF l.error THEN Failed(row) ELSE Completed(row, l.results))
  BY DEF SettleRow, At, Go, Update
<1>2. l \in CmdType
  BY DEF RunInv, Typed
<1>3. new.pc = "count" /\ new.error = l.error /\ new.ok = l.ok /\ new.passed = l.passed
      /\ new.results = l.results
  BY <1>2 DEF CmdType
<1> HIDE DEF new
<1>4. CASE l.error
  <2>1. Closed(c, l.run, Failed(runs[l.run]))
    BY <1>1, <1>4, RunningRow DEF Closed
  <2>2. l.ok \in Nat /\ l.passed \in Nat
    BY <1>2 DEF CmdType
  <2>3. new.ok = l.ok + One(FALSE) /\ new.passed = l.passed + One(FALSE)
    BY <1>3, <2>2 DEF One
  <2>4. One(FALSE) = One(l.pc = "count" /\ ~l.error)
        /\ One(FALSE) = One(l.pc = "count" /\ ~l.error /\ Accepts(l.results))
    BY <1>1 DEF One
  <2> QED
    BY <1>1, <1>3, <1>4, <2>1, <2>3, <2>4, GridQuiet
<1>5. CASE ~l.error
  <2>1. Closed(c, l.run, Completed(runs[l.run], l.results))
    BY <1>1, <1>5, RunningRow DEF Closed
  <2>2. /\ WholeRows(c)' = WholeRows(c) \cup {l.run} /\ l.run \notin WholeRows(c)
        /\ PassedRows(c)' = PassedRows(c) \cup (IF Accepts(l.results) THEN {l.run} ELSE {})
        /\ l.run \notin PassedRows(c)
        /\ \A i : i # c => WholeRows(i)' = WholeRows(i) /\ PassedRows(i)' = PassedRows(i)
    BY <2>1, CountsGrow
  <2>3. ASSUME cmd'[c] = new PROVE Reported(c, cmd[c])'
    <3>1. CASE ~IsGrid(c)
      BY <3>1 DEF Reported, IsGrid
    <3>2. CASE IsGrid(c)
      <4>1. Cardinality(WholeRows(c)) = l.ok /\ Cardinality(PassedRows(c)) = l.passed
        <5>1. Reported(c, l)
          BY DEF GridInv
        <5>2. l.ok \in Nat /\ l.passed \in Nat
          BY <1>2 DEF CmdType
        <5> QED
          BY <1>1, <3>2, <5>1, <5>2 DEF Reported, One
      <4> DEFINE W == WholeRows(c)
                 P == PassedRows(c)
      <4>2. IsFiniteSet(W) /\ IsFiniteSet(P)
        BY CountsAreNumbers
      <4>3. /\ Cardinality(W \cup {l.run}) = Cardinality(W) + 1
            /\ Cardinality(P \cup {l.run}) = Cardinality(P) + 1
        <5> HIDE DEF W, P
        <5>1. l.run \notin W /\ l.run \notin P
          BY <2>2 DEF W, P
        <5> QED
          BY <4>2, <5>1, FS_AddElement
      <4>4. Cardinality(WholeRows(c)') = l.ok + 1
        BY <2>2, <4>1, <4>3
      <4>5. Cardinality(PassedRows(c)') = l.passed + One(Accepts(l.results))
        <5>1. CASE Accepts(l.results)
          <6>1. PassedRows(c)' = PassedRows(c) \cup {l.run}
            BY <2>2, <5>1
          <6>2. Cardinality(PassedRows(c)') = l.passed + 1
            BY <4>1, <4>3, <6>1
          <6> QED
            BY <5>1, <6>2 DEF One
        <5>2. CASE ~Accepts(l.results)
          <6>1. PassedRows(c)' = PassedRows(c)
            BY <2>2, <5>2
          <6>2. l.passed \in Nat
            BY <1>2 DEF CmdType
          <6> QED
            BY <4>1, <5>2, <6>1, <6>2 DEF One
        <5> QED
          BY <5>1, <5>2
      <4>6. /\ One(new.pc = "count" /\ ~new.error) = 1
            /\ One(new.pc = "count" /\ ~new.error /\ Accepts(new.results)) = One(Accepts(l.results))
        BY <1>3, <1>5 DEF One
      <4>7. /\ Cardinality(WholeRows(c)') = new.ok + One(new.pc = "count" /\ ~new.error)
            /\ Cardinality(PassedRows(c)')
                 = new.passed + One(new.pc = "count" /\ ~new.error /\ Accepts(new.results))
        BY <1>3, <4>4, <4>5, <4>6
      <4> QED
        BY <2>3, <4>7 DEF Reported
    <3> QED
      BY <3>1, <3>2
  <2> QED
    BY <1>1, <2>2, <2>3, GridStep
<1> QED
  BY <1>4, <1>5

LEMMA NextComboCounts ==
  ASSUME RunInv, GridInv, NEW c \in Commands, NextCombo(c)
  PROVE  GridInv'
<1> DEFINE l == cmd[c]
           new == [l EXCEPT !.pc = "combo", !.item = @ + 1, !.run = NoRun, !.results = <<>>,
                     !.error = FALSE,
                     !.ok = IF Counts(c) THEN @ + 1 ELSE @,
                     !.passed = IF Counts(c) /\ Accepts(l.results) THEN @ + 1 ELSE @]
<1>1. l.pc = "count" /\ cmd' = [cmd EXCEPT ![c] = new] /\ runs' = runs
  BY DEF NextCombo, At, Update, Rows
<1>2. l \in CmdType
  BY DEF RunInv, Typed
<1>3. /\ new.pc = "combo"
      /\ new.ok = IF ~l.error THEN l.ok + 1 ELSE l.ok
      /\ new.passed = IF ~l.error /\ Accepts(l.results) THEN l.passed + 1 ELSE l.passed
  BY <1>2 DEF CmdType, Counts
<1> HIDE DEF new
<1>4. l.ok \in Nat /\ l.passed \in Nat
  BY <1>2 DEF CmdType
<1>5. /\ new.ok = l.ok + One(~l.error)
      /\ new.passed = l.passed + One(~l.error /\ Accepts(l.results))
  BY <1>3, <1>4 DEF One
<1>6. /\ One(l.pc = "count" /\ ~l.error) = One(~l.error)
      /\ One(l.pc = "count" /\ ~l.error /\ Accepts(l.results)) = One(~l.error /\ Accepts(l.results))
  BY <1>1 DEF One
<1>7. /\ new.ok = l.ok + One(l.pc = "count" /\ ~l.error)
      /\ new.passed = l.passed + One(l.pc = "count" /\ ~l.error /\ Accepts(l.results))
      /\ new.pc # "count"
  BY <1>3, <1>5, <1>6
<1> QED
  BY <1>1, <1>7, GridQuiet

LEMMA NextGridInv ==
  ASSUME RunInv, GridInv, [Next]_vars
  PROVE  GridInv'
<1> DEFINE Same(c) == One(cmd[c].pc = "count" /\ ~cmd[c].error) = 0
                      /\ One(cmd[c].pc = "count" /\ ~cmd[c].error /\ Accepts(cmd[c].results)) = 0
<1>1. ASSUME NEW c \in Commands
      PROVE  /\ cmd[c] \in CmdType /\ cmd[c].ok \in Nat /\ cmd[c].passed \in Nat
             /\ cmd[c].pc # "count" => Same(c)
  BY DEF RunInv, Typed, CmdType, One
<1>2. ASSUME NEW c \in Commands, NEW new, cmd' = [cmd EXCEPT ![c] = new],
             runs' = runs \/ Opened(c), new.ok = cmd[c].ok, new.passed = cmd[c].passed,
             cmd[c].pc \in {"start", "combo", "persist", "settle"}, new.pc = "count" => new.error
      PROVE  GridInv'
  <2>1. Same(c)
    BY <1>1, <1>2
  <2> HIDE DEF Same
  <2>2. /\ new.ok = cmd[c].ok + One(cmd[c].pc = "count" /\ ~cmd[c].error)
        /\ new.passed = cmd[c].passed
                        + One(cmd[c].pc = "count" /\ ~cmd[c].error /\ Accepts(cmd[c].results))
    <3>1. cmd[c].ok \in Nat /\ cmd[c].passed \in Nat
      BY <1>1
    <3> QED
      BY <1>2, <2>1, <3>1 DEF Same
  <2> QED
    BY <1>2, <2>2, GridQuiet
<1> HIDE DEF Same
<1>3. ASSUME NEW c \in Commands, NEW pc \in {"raised", "killed"}, End(c, pc), runs' = runs
      PROVE  GridInv'
  <2> DEFINE new == [Fresh EXCEPT !.pc = pc, !.run = cmd[c].run,
                                  !.ok = cmd[c].ok, !.passed = cmd[c].passed]
  <2>1. cmd' = [cmd EXCEPT ![c] = new]
    BY <1>3 DEF End, Update
  <2>2. new.pc = pc
    BY DEF Fresh
  <2> HIDE DEF new
  <2> QED
    BY <1>3, <2>1, <2>2, GridQuiet
<1>4. ASSUME NEW c \in Commands, Step(c) PROVE GridInv'
  <2> DEFINE l == cmd[c]
  <2>1. ASSUME NEW new, cmd' = [cmd EXCEPT ![c] = new], runs' = runs \/ Opened(c), ~IsGrid(c)
        PROVE  GridInv'
    BY <2>1, GridQuiet
  <2>2. CASE CreateRun(c)
    BY <2>1, <2>2 DEF CreateRun, InsertRow, Opened, Update
  <2>3. CASE RunFold(c)
    BY <2>1, <2>3 DEF RunFold, Rows, Update
  <2>4. CASE WriteEquity(c) \/ WriteTrade(c) \/ WriteFeatures(c)
    <3>1. ~IsGrid(c)
      BY <2>4 DEF WriteEquity, WriteTrade, WriteFeatures, At, RunInv, LocalsOK, Backtesting
    <3>2. runs' = runs
      BY <2>4 DEF WriteEquity, WriteTrade, WriteFeatures
    <3> QED
      BY <2>1, <2>4, <3>1, <3>2 DEF WriteEquity, WriteTrade, WriteFeatures, Go, Update
  <2>5. CASE FinalizeRun(c)
    <3> DEFINE new == [Fresh EXCEPT !.pc = "done", !.run = l.run, !.ok = l.ok, !.passed = l.passed]
    <3>1. /\ l.pc = "fold" /\ ~IsGrid(c) /\ cmd' = [cmd EXCEPT ![c] = new]
          /\ SetRow(l.run, Completed(runs[l.run], l.results))
      BY <2>5 DEF FinalizeRun, At, End, Update
    <3> HIDE DEF new
    <3>2. Closed(c, l.run, Completed(runs[l.run], l.results))
      BY <3>1, RunningRow DEF Closed
    <3>3. \A i : i # c => WholeRows(i)' = WholeRows(i) /\ PassedRows(i)' = PassedRows(i)
      BY <3>2, CountsGrow
    <3>4. Reported(c, cmd[c])'
      BY <3>1 DEF Reported, IsGrid
    <3> QED
      BY <3>1, <3>3, <3>4, GridStep
  <2>6. CASE FailRun(c)
    <3> DEFINE new == [Fresh EXCEPT !.pc = "raised", !.run = l.run, !.ok = l.ok, !.passed = l.passed]
    <3>1. l.pc = "except" /\ cmd' = [cmd EXCEPT ![c] = new] /\ SetRow(l.run, Failed(runs[l.run]))
      BY <2>6 DEF FailRun, At, End, Update
    <3>2. new.pc = "raised"
      BY DEF Fresh
    <3> HIDE DEF new
    <3>3. Closed(c, l.run, Failed(runs[l.run]))
      BY <3>1, RunningRow DEF Closed
    <3> QED
      BY <3>1, <3>2, <3>3, GridQuiet
  <2>7. CASE OpenGrid(c)
    <3> DEFINE pc == IF \A i \in DOMAIN Work[c].cfgs : Work[c].cfgs[i] \in ValidConfigs
                     THEN "combo" ELSE "raised"
               new == [l EXCEPT !.pc = pc]
    <3>1. l.pc = "start" /\ cmd' = [cmd EXCEPT ![c] = new] /\ runs' = runs
      BY <2>7 DEF OpenGrid, At, Go, Update, Rows
    <3>2. pc # "count"
      OBVIOUS
    <3> HIDE DEF pc
    <3>3. new.ok = l.ok /\ new.passed = l.passed /\ new.pc = pc
      BY <1>1 DEF CmdType
    <3> HIDE DEF new
    <3> QED
      BY <1>2, <3>1, <3>2, <3>3
  <2>8. CASE RunCombo(c)
    <3>1. PICK rs : cmd' = [cmd EXCEPT ![c] = [l EXCEPT !.pc = "persist", !.results = rs,
                                                        !.error = ~Runnable(Work[c].plan)]]
      BY <2>8 DEF RunCombo, Update
    <3> DEFINE new == [l EXCEPT !.pc = "persist", !.results = rs,
                              !.error = ~Runnable(Work[c].plan)]
    <3>2. l.pc = "combo" /\ cmd' = [cmd EXCEPT ![c] = new] /\ runs' = runs
      BY <2>8, <3>1 DEF RunCombo, At, Rows
    <3>3. new.ok = l.ok /\ new.passed = l.passed /\ new.pc = "persist"
      BY <1>1 DEF CmdType
    <3> HIDE DEF new
    <3> QED
      BY <1>2, <3>2, <3>3
  <2>9. CASE PersistRow(c)
    <3> DEFINE new == [l EXCEPT !.pc = "settle", !.run = Len(runs) + 1]
    <3>1. l.pc = "persist" /\ cmd' = [cmd EXCEPT ![c] = new] /\ Opened(c)
      BY <2>9 DEF PersistRow, At, Update, InsertRow, Opened
    <3>2. new.ok = l.ok /\ new.passed = l.passed /\ new.pc = "settle"
      BY <1>1 DEF CmdType
    <3> HIDE DEF new
    <3> QED
      BY <1>2, <3>1, <3>2
  <2>10. CASE CloseGrid(c)
    <3> DEFINE new == [Fresh EXCEPT !.pc = "done", !.run = l.run, !.ok = l.ok, !.passed = l.passed]
    <3>1. l.pc = "combo" /\ cmd' = [cmd EXCEPT ![c] = new] /\ runs' = runs
      BY <2>10 DEF CloseGrid, At, End, Update, Rows
    <3>2. new.ok = l.ok /\ new.passed = l.passed /\ new.pc = "done"
      BY DEF Fresh
    <3> HIDE DEF new
    <3> QED
      BY <1>2, <3>1, <3>2
  <2> QED
    BY <1>4, <2>2, <2>3, <2>4, <2>5, <2>6, <2>7, <2>8, <2>9, <2>10, SettleCounts, NextComboCounts
       DEF Step
<1>5. ASSUME NEW c \in Commands, Raise(c) PROVE GridInv'
  <2> DEFINE l == cmd[c]
  <2>1. PICK to \in {"raised", "except", "persist", "count"} :
          /\ Handler(c, to)
          /\ IF to = "raised" THEN End(c, to)
             ELSE Update(c, [l EXCEPT !.pc = to, !.error = TRUE])
    BY <1>5 DEF Raise
  <2>2. runs' = runs
    BY <1>5 DEF Raise, Rows
  <2>3. CASE to = "raised"
    BY <1>3, <2>1, <2>2, <2>3
  <2>4. CASE to # "raised"
    <3> DEFINE new == [l EXCEPT !.pc = to, !.error = TRUE]
    <3>1. cmd' = [cmd EXCEPT ![c] = new]
      BY <2>1, <2>4 DEF Update
    <3>2. new.ok = l.ok /\ new.passed = l.passed /\ new.pc = to /\ new.error
      BY <1>1 DEF CmdType
    <3>3. to = "except" \/ l.pc \in {"start", "combo", "persist", "settle"}
      BY <2>1, <2>4 DEF Handler, At
    <3> HIDE DEF new
    <3>4. CASE to = "except"
      BY <2>2, <3>1, <3>2, <3>4, GridQuiet
    <3>5. CASE l.pc \in {"start", "combo", "persist", "settle"}
      BY <1>2, <2>2, <3>1, <3>2, <3>5
    <3> QED
      BY <3>3, <3>4, <3>5
  <2> QED
    BY <2>3, <2>4
<1>6. ASSUME NEW c \in Commands, Kill(c) PROVE GridInv'
  BY <1>3, <1>6 DEF Kill, Rows
<1>7. CASE UNCHANGED <<runs, cmd>>
  BY <1>7 DEF GridInv, Reported, WholeRows, PassedRows
<1> QED
  BY <1>4, <1>5, <1>6, <1>7 DEF Next, TradeLive, Rows, vars

(* The counts a grid prints at its end are those of the rows it left       *)
(* behind, whichever of its backtests and writes raised on the way and     *)
(* whatever other commands wrote meanwhile (cli.py grid_run,               *)
(* backtest/grid.py run_grid).                                             *)
THEOREM GridReportAlwaysAgrees == Spec => []GridReportAgrees
<1>1. Init => GridInv
  <2> SUFFICES ASSUME Init PROVE GridInv
    OBVIOUS
  <2>1. Len(runs) = 0 /\ \A c \in Commands : cmd[c] = Fresh
    BY EmptySeq DEF Init
  <2>2. \A c : WholeRows(c) = {} /\ PassedRows(c) = {}
    BY <2>1 DEF WholeRows, PassedRows
  <2>3. Fresh.ok = 0 /\ Fresh.passed = 0 /\ Fresh.pc = "start"
    BY DEF Fresh
  <2>4. ASSUME NEW c \in Commands PROVE Reported(c, cmd[c])
    <3>1. cmd[c].ok = 0 /\ cmd[c].passed = 0 /\ cmd[c].pc # "count"
      BY <2>1, <2>3
    <3>2. Cardinality(WholeRows(c)) = 0 /\ Cardinality(PassedRows(c)) = 0
      BY <2>2, FS_EmptySet
    <3> QED
      BY <3>1, <3>2 DEF Reported, One
  <2> QED
    BY <2>4 DEF GridInv
<1>2. RunInv /\ GridInv => GridReportAgrees
  <2> SUFFICES ASSUME RunInv, GridInv, NEW c \in Commands, IsGrid(c), At(c, "done")
               PROVE  LET mine(p) == Cardinality({r \in RunIds : runs[r].by = c /\ p[r]}) IN
                      /\ cmd[c].ok = mine([r \in RunIds |-> runs[r].status = "completed"])
                      /\ cmd[c].passed = mine([r \in RunIds |-> runs[r].passed = "yes"])
    BY DEF GridReportAgrees
  <2>1. RunIds = 1..Len(runs)
    BY LenProperties DEF RunInv, Typed, RunIds
  <2> DEFINE whole == [r \in RunIds |-> runs[r].status = "completed"]
             passed == [r \in RunIds |-> runs[r].passed = "yes"]
  <2>2. {r \in RunIds : runs[r].by = c /\ whole[r]} = WholeRows(c)
        /\ {r \in RunIds : runs[r].by = c /\ passed[r]} = PassedRows(c)
    BY <2>1 DEF WholeRows, PassedRows
  <2>3. cmd[c].ok \in Nat /\ cmd[c].passed \in Nat
    BY DEF RunInv, Typed, CmdType
  <2>4. cmd[c].ok = Cardinality(WholeRows(c)) /\ cmd[c].passed = Cardinality(PassedRows(c))
    BY <2>3 DEF GridInv, Reported, One, At
  <2> QED
    BY <2>2, <2>4
<1> QED
  BY <1>1, <1>2, NextGridInv, RunInvAlways, PTL DEF Spec
=============================================================================
