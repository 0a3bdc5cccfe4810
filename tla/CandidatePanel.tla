--------------------------- MODULE CandidatePanel ---------------------------
(***************************************************************************)
(* From prefetched data to scored candidates, in the backtest and live.    *)
(*                                                                         *)
(* Each trading day brings closes and filings.  After it the paper command *)
(* prefetches a short window ending that day and scores the last bar's     *)
(* cross-section; a backtest run later prefetches a longer window and      *)
(* scores the same days again, with everything filed since in its panel.   *)
(* `live` keeps what the paper command computed when it ran.               *)
(***************************************************************************)
EXTENDS Scorers, Sequences

CONSTANTS
  Symbols,        \* tickers, as numbers in the order of the universe file
  Configs,        \* the scorer configurations tried, each a record
  DaysOf(_),      \* the days the market can bring under a scorer type
  HorizonOf(_),   \* bound on the number of days under a scorer type
  BtStart,        \* first day of the backtest's window
  LiveDays,       \* --days of the paper command
  Warmup,         \* days of bars fetched before a window
  ActivitySlack,  \* days of Form 4 and 8-K filings before a window
  RecentBlock,    \* filing days in the `recent` block, all list_filings reads
  TextSlack,      \* days of 10-K filings before a window
  TextCap,        \* newest 10-K filings read per symbol
  EarningsLimit,  \* newest announcements fetched per symbol
  StatementLag,   \* days from the end of a fiscal year to its statement
  MinBars,        \* MIN_BARS_FOR_FEATURES
  Lookback, Skip, \* the momentum window, in bars
  VolWindow,      \* the volatility window, in bars
  SpyPeriod       \* the trend's moving average, in bars

TextTypes == {"edgar_textdiff", "edgar_textdiff_jt_intersect"}
ActivityTypes == {"insider_cluster", "form_8k_event"}
EarningsTypes == {"pead", "pead_jt_intersect"}
StatementTypes == {"fundamental_llm", "fundamental_llm_jt_intersect"}
ScorerTypes ==
  {"rule", "ml", "jt_momentum"} \cup TextTypes \cup ActivityTypes \cup EarningsTypes
    \cup StatementTypes

\* The ranges the schema validates; the multipliers it does not.
ScorerConfig ==
  [type: ScorerTypes, continuous: BOOLEAN, pct: 1..100, entry: 0..100, vol_scale: BOOLEAN,
   window: Nat \ {0}, mode: {"cosine", "length", "blend"}, rolling: Nat \ {0}, lag: Nat,
   z_cap: Nat \ {0}, weights: [CompositeNames -> Nat],
   multipliers: [Regimes -> [CompositeNames -> Int]]]

DayType == [close: [Symbols -> Nat], filed: [Symbols -> Int], vix: Nat, spy: Nat]

ASSUME PanelAssumption ==
  /\ Symbols \subseteq Nat /\ IsFiniteSet(Symbols) /\ BtStart \in Nat \ {0}
  /\ {LiveDays, Warmup, ActivitySlack, RecentBlock, TextSlack, TextCap, EarningsLimit, StatementLag,
      Skip} \subseteq Nat
  /\ {MinBars, Lookback, VolWindow, SpyPeriod} \subseteq Nat \ {0}
  /\ Configs \subseteq ScorerConfig /\ \A c \in Configs : DaysOf(c.type) \subseteq DayType

VARIABLES
  config,  \* the strategy's scorer configuration
  feed,    \* what each day brought: [close, filed, vix, spy]
  live     \* what the paper command computed each day: [ran, at, scores]

vars == <<config, feed, live>>

Init == config \in Configs /\ feed = <<>> /\ live = <<>>

-----------------------------------------------------------------------------
(* Prefetch: the panel of a window, as the days on which data exists *)

Newest(n, S) == {x \in S : Cardinality({y \in S : y > x}) < n}
BarDays(h, s) == {x \in 1..Len(h) : h[x].close[s] > 0}
FilingDays(h, s) == {x \in 1..Len(h) : h[x].filed[s] # 0}

\* A 10-K whose risk factors cannot be extracted takes a place and gives no text.
Readable(h, s, S) == {x \in S : h[x].filed[s] > 0}

FilingsIn(c, h, s, start, end) ==
  LET since(slack) == FilingDays(h, s) \cap (start - slack)..end IN
  CASE c.type \in TextTypes -> Readable(h, s, Newest(TextCap, since(TextSlack)))
    [] c.type \in ActivityTypes -> Newest(RecentBlock, FilingDays(h, s)) \cap since(ActivitySlack)
    [] c.type \in EarningsTypes -> Newest(EarningsLimit, FilingDays(h, s))
    [] OTHER -> FilingDays(h, s)

Prefetch(c, h, start, end) ==
  LET bars == [s \in Symbols |-> BarDays(h, s) \cap (start - Warmup)..end]
      fetched == {s \in Symbols : bars[s] # {}}
  IN [h |-> h, symbols |-> fetched,
      bars |-> [s \in fetched |-> bars[s]],
      filings |-> [s \in fetched |-> FilingsIn(c, h, s, start, end)],
      market |-> (1..Len(h)) \cap (start - Warmup)..end]

-----------------------------------------------------------------------------
(* Features of one day *)

\* Mutant: the panel is read without slicing it at the day.
UpToEnd(S, d) == S
UpTo(S, d) == {x \in S : x <= d}

\* The k-th last member of S, from 0.
Back(S, k) == CHOOSE x \in S : Cardinality({y \in S : y > x}) = k

Momentum(P, d, lookback, skip) ==
  LET days(s) == UpTo(P.bars[s], d)
      base(s) == P.h[Back(days(s), lookback + skip)].close[s]
      top(s) == P.h[Back(days(s), skip)].close[s]
  IN [s \in {x \in P.symbols : Cardinality(days(x)) >= lookback + skip + 1} |->
        (100 * (top(s) - base(s))) \div base(s)]

\* The sum of the absolute moves stands for the deviation of the returns.
Volatility(P, d) ==
  LET days(s) == UpTo(P.bars[s], d)
      close(s, k) == P.h[Back(days(s), k)].close[s]
  IN [s \in {x \in P.symbols : Cardinality(days(x)) >= VolWindow + 1} |->
        SumOf([k \in 0..VolWindow - 1 |-> Abs(close(s, k) - close(s, k + 1))])]

\* Texts are represented by their length; equal texts are identical.
Cosine(a, b) == IF a = b THEN 100 ELSE 100 - 20 * Abs(a - b)
LengthChange(cur, prior) == (100 * (cur - prior)) \div prior

\* The filings far enough in the past to have been public.
Public(c, P, s, d) == UpTo(P.filings[s], d - c.lag)

CosineOfTexts(c, P, d) ==
  LET text(s, k) == P.h[Back(Public(c, P, s, d), k)].filed[s]
      pairs(s) == Min({c.rolling, Cardinality(Public(c, P, s, d)) - 1})
  IN [s \in {x \in P.symbols : Cardinality(Public(c, P, x, d)) >= 2} |->
        SumOf([k \in 0..pairs(s) - 1 |-> Cosine(text(s, k), text(s, k + 1))]) \div pairs(s)]

LengthOfTexts(c, P, d) ==
  LET text(s, k) == P.h[Back(Public(c, P, s, d), k)].filed[s]
  IN [s \in {x \in P.symbols : Cardinality(Public(c, P, x, d)) >= 2} |->
        LengthChange(text(s, 0), text(s, 1))]

\* A symbol without a filing in the whole panel has no count; with one, in any
\* part of it, the count of the window ending at d, which can be 0.
FilingCounts(c, P, d) ==
  LET inWindow(s) == {x \in UpTo(P.filings[s], d) : x >= d - c.window} IN
  [s \in {x \in P.symbols : P.filings[x] # {}} |->
     SumOf([x \in inWindow(s) |-> P.h[x].filed[s]])]

\* The last filing of a symbol among those dated before or at a day.
LastFiling(P, day) ==
  [s \in {x \in P.symbols : UpTo(P.filings[x], day) # {}} |-> Max(UpTo(P.filings[s], day))]
ValueOf(P, last) == [s \in DOMAIN last |-> P.h[last[s]].filed[s]]

Nobody == [s \in {} |-> 0]
Within(f, syms) == [s \in DOMAIN f \cap syms |-> f[s]]

\* -1 is a day before the first bar of the series, or before the average exists.
Vix(P, d) == LET days == {x \in UpTo(P.market, d) : P.h[x].vix > 0} IN
             IF days = {} THEN -1 ELSE P.h[Max(days)].vix
SpyAbove(P, d) ==
  LET days == UpTo(P.market, d)
      total == SumOf([x \in Newest(SpyPeriod, days) |-> P.h[x].spy])
  IN IF Cardinality(days) < SpyPeriod THEN -1
     ELSE IF SpyPeriod * P.h[Max(days)].spy > total THEN 1 ELSE 0

Measured(P, d) == {s \in P.symbols : Cardinality(UpTo(P.bars[s], d)) >= MinBars}

\* Only the features the configuration's scorer reads have data in its panel.
Features(c, P, d) ==
  LET syms == Measured(P, d)
      only(types, f) == IF c.type \in types THEN Within(f, syms) ELSE Nobody
      announced == LastFiling(P, d - 1)
      stated == LastFiling(P, d - StatementLag)
      mom == Within(Momentum(P, d, Lookback, Skip), syms)
  IN [symbols |-> syms,
      momentum |-> mom,
      short_momentum |-> Within(Momentum(P, d, 1, 0), syms),
      volatility |-> Within(Volatility(P, d), syms),
      fundamental |-> Nobody,
      prediction |-> [s \in syms |-> IF s \in DOMAIN mom THEN mom[s] ELSE 0],
      surprise |-> only(EarningsTypes, ValueOf(P, announced)),
      age |-> only(EarningsTypes, [s \in DOMAIN announced |-> d - announced[s]]),
      llm_score |-> only(StatementTypes, ValueOf(P, stated)),
      cosine |-> only(TextTypes, CosineOfTexts(c, P, d)),
      len_change |-> only(TextTypes, LengthOfTexts(c, P, d)),
      filings |-> only(ActivityTypes, FilingCounts(c, P, d)),
      vix |-> Vix(P, d), spy_above |-> SpyAbove(P, d)]

\* A cross-section of fewer than two symbols gives no candidates.
CandidatesOf(c, F) ==
  IF Cardinality(F.symbols) < 2 THEN Nobody ELSE ScoreCrossSection(c, F)
Candidates(c, P, d) == CandidatesOf(c, Features(c, P, d))

-----------------------------------------------------------------------------
(* The two paths *)

\* A day's closes and filings appear.
TradingDay ==
  /\ Len(live) = Len(feed) /\ Len(feed) < HorizonOf(config.type)
  /\ \E e \in DaysOf(config.type) : feed' = Append(feed, e)
  /\ UNCHANGED <<config, live>>

\* Mutant: the live path scores with the rule scorer whatever the configuration.
LiveScoresByRule(c, P, d) == Candidates([c EXCEPT !.type = "rule"], P, d)
LiveScores(c, P, d) == Candidates(c, P, d)

LivePanel(c, h) == Prefetch(c, h, Len(h) - LiveDays, Len(h))

\* The paper command after the close: it scores the latest bar of the panel,
\* and fails when no symbol has one, or the VIX no close up to it.
RunLive ==
  /\ Len(live) < Len(feed)
  /\ LET P == LivePanel(config, feed)
         latest == Max(UNION {P.bars[s] : s \in P.symbols})
     IN live' = Append(live,
          IF P.symbols = {} \/ Vix(P, latest) < 0 THEN [ran |-> FALSE, at |-> 0, scores |-> Nobody]
          ELSE [ran |-> TRUE, at |-> latest, scores |-> LiveScores(config, P, latest)])
  /\ UNCHANGED <<config, feed>>

\* A backtest of everything so far.
BacktestPanel(c, h) == Prefetch(c, h, BtStart, Len(h))

Next == TradingDay \/ RunLive

Spec == Init /\ [][Next]_vars

-----------------------------------------------------------------------------
(* Properties *)

\* The filings the scorer reads on day d, had it all of the past.
Evidence(c, h, s, d) ==
  LET all == FilingDays(h, s) IN
  CASE c.type \in TextTypes -> Newest(c.rolling + 1, Readable(h, s, UpTo(all, d - c.lag)))
    [] c.type \in ActivityTypes -> {x \in UpTo(all, d) : x >= d - c.window}
    [] c.type \in EarningsTypes -> Newest(1, UpTo(all, d - 1))
    [] OTHER -> {}

BarsRead == Max({MinBars, Lookback + Skip + 1, VolWindow + 1})

\* A panel reaches back far enough for day d: it holds the bars and the filings
\* that the features of d read.
Reaches(c, P, d) ==
  \A s \in Symbols :
    LET bars == Newest(BarsRead, UpTo(BarDays(P.h, s), d))
        read == Evidence(c, P.h, s, d)
    IN IF s \in P.symbols THEN bars \subseteq P.bars[s] /\ read \subseteq P.filings[s]
       ELSE bars = {}

\* What P holds for day d is not pushed out of Q by newer filings.
Kept(c, P, Q, d) ==
  \A s \in P.symbols : Evidence(c, P.h, s, d) \cap P.filings[s] \subseteq Q.filings[s]

\* Two panels agree on who has filed at all: engine.py:485 and :492 give a
\* symbol without a filing in the panel no count, and one whose first filing
\* comes after d the count 0.
SameFilers(c, P, Q) ==
  c.type \in ActivityTypes =>
    \A s \in P.symbols \cap Q.symbols : (P.filings[s] = {}) <=> (Q.filings[s] = {})

\* What the paper command scored on a day is what a later backtest scores for
\* that day, for every scorer that ranks windowed features and whatever was
\* filed since, provided both panels reach back far enough and agree on who
\* has filed (cli.py:1385 "the same scoring pipeline as the backtester").
LiveMatchesBacktest ==
  LET Q == BacktestPanel(config, feed) IN
  \A n \in 1..Len(live) :
    LET d == live[n].at
        P == LivePanel(config, SubSeq(feed, 1, n))
    IN /\ live[n].ran /\ d >= BtStart /\ config.type \notin {"rule", "ml"}
       /\ Reaches(config, P, d) /\ Reaches(config, Q, d) /\ SameFilers(config, P, Q)
       => live[n].scores = Candidates(config, Q, d)

\* A day that passes changes no score of an earlier day: what a backtest
\* computes for a day does not depend on bars or filings after it, provided
\* no newer filing pushes the day's out of the panel (prefetch.py:168, the
\* newest 12) and nobody files for the first time
\* (extractor.py:3 "look-ahead bias becomes a hard fail").
NoRepaint ==
  [][LET P == BacktestPanel(config, feed)
         Q == BacktestPanel(config, feed')
     IN \A d \in BtStart..Len(feed) :
          Kept(config, P, Q, d) /\ SameFilers(config, P, Q) =>
            Candidates(config, P, d) = Candidates(config, Q, d)]_feed

SignalsOf(c, F) ==
  CASE c.type = "jt_momentum" -> {JTSignal(c, F)}
    [] c.type = "ml" -> {F.prediction}
    [] c.type = "pead" -> {PEADSignal(c, F)}
    [] c.type = "fundamental_llm" -> {LLMSignal(F)}
    [] c.type = "edgar_textdiff" -> {EdgarSignal(c, F)}
    [] c.type \in ActivityTypes -> {ActivitySignal(F)}
    [] c.type = "pead_jt_intersect" -> {JTSignal(c, F), PEADSignal(c, F)}
    [] c.type = "edgar_textdiff_jt_intersect" -> {JTSignal(c, F), EdgarSignal(c, F)}
    [] c.type = "fundamental_llm_jt_intersect" -> {JTSignal(c, F), LLMSignal(F)}
    [] OTHER -> {}

RankTypes == {"jt_momentum", "pead", "fundamental_llm", "edgar_textdiff"} \cup ActivityTypes

\* s is at least as good as t on each signal, or better on each.
AtLeast(sigs, s, t) ==
  \A sig \in sigs : IF t \in DOMAIN sig THEN s \in DOMAIN sig /\ sig[s] >= sig[t]
                                        ELSE s \notin DOMAIN sig
Outranks(sigs, s, t) ==
  \A sig \in sigs : s \in DOMAIN sig /\ (t \in DOMAIN sig => sig[s] > sig[t])

RuleFollowsComposites(comps, scores) ==
  \A s, t \in DOMAIN scores :
    AtLeast({comps[n] : n \in CompositeNames}, s, t) => scores[s] >= scores[t]

RankingFollows(c, sigs, scores) ==
  /\ \A s, t \in DOMAIN scores : Outranks(sigs, s, t) => scores[s] >= scores[t]
  /\ \A s \in DOMAIN scores : (\E sig \in sigs : s \notin DOMAIN sig) => scores[s] = 0
  /\ c.type \in RankTypes /\ DOMAIN scores # {} =>
       \A sig \in sigs : DOMAIN sig # {} => \E s \in DOMAIN sig : scores[s] > 0

\* Scores follow the signals: a symbol strictly ahead of another on every
\* signal never scores below it (ties go by position, so an intersection can
\* prefer a symbol that is behind on one leg and level on the other); a symbol
\* without one of the signals cannot be bought; and a ranking of at least one
\* symbol gives someone a positive score.  For the rule scorer, a symbol with
\* the same composites, each at least as good, never scores below, whatever
\* weights the regime's multipliers redistribute (scorer.py:116-131).
ScoresFollowSignals ==
  feed # <<>> =>
    \A F \in {Features(config, BacktestPanel(config, feed), Len(feed))} :
      \A scores \in {CandidatesOf(config, F)} :
        IF config.type = "rule"
        THEN \A comps \in {Composites(config, F)} : RuleFollowsComposites(comps, scores)
        ELSE \A sigs \in {SignalsOf(config, F)} : RankingFollows(config, sigs, scores)
=============================================================================
