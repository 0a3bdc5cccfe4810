------------------------------ MODULE Scorers ------------------------------
(***************************************************************************)
(* The scorers `build_scorer` can return, over one day's cross-section.    *)
(*                                                                         *)
(* A cross-section F is a record: F.symbols, and for each feature a        *)
(* function whose domain is the symbols that have it; a NaN feature is a   *)
(* symbol missing from the domain.  Scores are in percent: 99 is the 0.99  *)
(* of a selected symbol.  Standard deviations are replaced by mean         *)
(* absolute deviations, which order and degenerate alike; `F` gives the    *)
(* features, so this module has no state.                                  *)
(***************************************************************************)
EXTENDS Integers, FiniteSets, FiniteSetsExt

High == 99      \* the score of a selected symbol
Neutral == 50   \* the score of a cross-section that ranks nobody

Abs(x) == IF x < 0 THEN -x ELSE x
Clip(x, cap) == IF x > cap THEN cap ELSE IF x < -cap THEN -cap ELSE x

\* The sum of a column.
SumOf(f) == MapThenSumSet(LAMBDA x : f[x], DOMAIN f)

-----------------------------------------------------------------------------
(* Ranking *)

\* Mutant: the sort is ascending.
AheadAscending(sig, s) ==
  {t \in DOMAIN sig : sig[t] < sig[s] \/ (sig[t] = sig[s] /\ t < s)}

\* The symbols before s in the stable descending sort by signal.
Ahead(sig, s) ==
  {t \in DOMAIN sig : sig[t] > sig[s] \/ (sig[t] = sig[s] /\ t < s)}

\* The symbols before s in the stable ascending sort.
Behind(sig, s) ==
  {t \in DOMAIN sig : sig[t] < sig[s] \/ (sig[t] = sig[s] /\ t < s)}

\* The top pct of the symbols that have a signal, never fewer than one.
Selected(sig, pct) ==
  LET n == Max({1, (Cardinality(DOMAIN sig) * pct) \div 100}) IN
  {s \in DOMAIN sig : Cardinality(Ahead(sig, s)) < n}

BinaryScores(syms, sig, pct) ==
  LET chosen == Selected(sig, pct) IN [s \in syms |-> IF s \in chosen THEN High ELSE 0]

PercentileScores(syms, sig) ==
  LET n == Cardinality(DOMAIN sig) IN
  [s \in syms |-> IF s \notin DOMAIN sig THEN 0
                  ELSE IF n = 1 THEN Neutral
                  ELSE (100 * Cardinality(Behind(sig, s))) \div (n - 1)]

RankScores(c, syms, sig) ==
  IF c.continuous THEN PercentileScores(syms, sig) ELSE BinaryScores(syms, sig, c.pct)

-----------------------------------------------------------------------------
(* Signals: what each scorer ranks by *)

\* Momentum, per unit of volatility when the configuration scales.
JTSignal(c, F) ==
  IF ~c.vol_scale THEN F.momentum
  ELSE [s \in {x \in DOMAIN F.momentum \cap DOMAIN F.volatility : F.volatility[x] > 0} |->
          (100 * F.momentum[s]) \div F.volatility[s]]

\* A positive surprise that is at most drift days old.
PEADSignal(c, F) ==
  LET eligible == {s \in DOMAIN F.surprise : F.surprise[s] > 0 /\ F.age[s] \in 0..c.window} IN
  [s \in eligible |-> F.surprise[s]]

\* The steadier disclosure ranks higher; without the length a blend is the cosine.
EdgarSignal(c, F) ==
  LET change(s) == IF s \in DOMAIN F.len_change THEN Abs(F.len_change[s]) ELSE 0 IN
  CASE c.mode = "cosine" -> F.cosine
    [] c.mode = "length" -> [s \in DOMAIN F.len_change |-> -Abs(F.len_change[s])]
    [] c.mode = "blend"  -> [s \in DOMAIN F.cosine |-> 2 * F.cosine[s] - change(s)]

ActivitySignal(F) == F.filings        \* Form 4 or 8-K filings in the window
LLMSignal(F) == F.llm_score           \* the rating of the last annual statement

-----------------------------------------------------------------------------
(* The rule scorer: z-scores, composites, regime-weighted mean *)

\* Deviation of each value from the mean in hundredths of the mean deviation.
ZScores(col) ==
  LET n == Cardinality(DOMAIN col)
      total == SumOf(col)
      dev(s) == n * col[s] - total
      spread == SumOf([s \in DOMAIN col |-> Abs(dev(s))])
  IN [s \in DOMAIN col |-> IF spread = 0 THEN 0 ELSE (100 * n * dev(s)) \div spread]

\* Clipped, signed and mapped to [0, 100]; a column of equal values is neutral.
Unitized(col, sign, cap) ==
  LET z == ZScores(col) IN
  [s \in DOMAIN col |-> (100 * (sign * Clip(z[s], cap) + cap)) \div (2 * cap)]

\* The composites with data in the engine, and one without: fundamentals = {}.
CompositeSpec ==
  [momentum   |-> {<<"momentum", 1>>, <<"short_momentum", 1>>},
   volatility |-> {<<"volatility", -1>>},
   value      |-> {<<"fundamental", -1>>}]
CompositeNames == DOMAIN CompositeSpec

\* The mean of the constituents a symbol has; without any, no composite.
Composites(c, F) ==
  LET unit == [part \in UNION {CompositeSpec[n] : n \in CompositeNames} |->
                 Unitized(F[part[1]], part[2], c.z_cap)]
      has(s, n) == {part \in CompositeSpec[n] : s \in DOMAIN unit[part]}
  IN [n \in CompositeNames |->
        [s \in {x \in F.symbols : has(x, n) # {}} |->
           SumOf([part \in has(s, n) |-> unit[part][s]]) \div Cardinality(has(s, n))]]

Regimes == {"crisis", "bear", "sideways", "recovery", "bull"}

\* A missing VIX (-1) is read as calm; an unknown trend (-1) as a broken one.
Regime(vix, spyAbove) ==
  CASE vix < 0                      -> "bull"
    [] vix > 40                     -> "crisis"
    [] vix \in 0..40 /\ (vix > 30 \/ spyAbove # 1) -> "bear"
    [] vix \in 21..30 /\ spyAbove = 1 -> "sideways"
    [] vix \in 16..20 /\ spyAbove = 1 -> "recovery"
    [] vix \in 0..15 /\ spyAbove = 1  -> "bull"

Present(comps, s) == {n \in CompositeNames : s \in DOMAIN comps[n]}

\* The weights of the composites a symbol has, under the day's regime.
AdjustedWeights(c, F, comps, s) ==
  [n \in Present(comps, s) |-> c.weights[n] * c.multipliers[Regime(F.vix, F.spy_above)][n]]

RuleScores(c, F) ==
  LET comps == Composites(c, F)
      score(s) ==
        LET w == AdjustedWeights(c, F, comps, s)
            total == SumOf(w)
        IN IF total <= 0 THEN 0
           ELSE SumOf([n \in DOMAIN w |-> w[n] * comps[n][s]]) \div total
  IN [s \in F.symbols |-> score(s)]

-----------------------------------------------------------------------------
(* The other scorers, and the factory *)

\* The model's predictions by their z-score; the normal curve only bends them.
Curve(z) == 50 + (50 * z) \div (100 + Abs(z))
MLScores(F) ==
  LET z == ZScores(F.prediction) IN [s \in F.symbols |-> Curve(z[s])]

\* Every leg must score a symbol above the entry threshold.
Intersect(c, syms, legs) ==
  [s \in syms |-> IF \A leg \in legs : leg[s] > c.entry THEN High ELSE 0]

JTLeg(c, F) == RankScores(c, F.symbols, JTSignal(c, F))

\* build_scorer: PEAD, LLM and plain momentum select, whatever continuous says.
ScoreCrossSection(c, F) ==
  CASE c.type = "rule" -> RuleScores(c, F)
    [] c.type = "ml" -> MLScores(F)
    [] c.type = "jt_momentum" -> BinaryScores(F.symbols, JTSignal(c, F), c.pct)
    [] c.type = "pead" -> BinaryScores(F.symbols, PEADSignal(c, F), c.pct)
    [] c.type = "fundamental_llm" -> BinaryScores(F.symbols, LLMSignal(F), c.pct)
    [] c.type = "edgar_textdiff" -> RankScores(c, F.symbols, EdgarSignal(c, F))
    [] c.type \in {"insider_cluster", "form_8k_event"} ->
         RankScores(c, F.symbols, ActivitySignal(F))
    [] c.type = "pead_jt_intersect" ->
         Intersect(c, F.symbols,
                   {JTLeg(c, F), BinaryScores(F.symbols, PEADSignal(c, F), c.pct)})
    [] c.type = "edgar_textdiff_jt_intersect" ->
         Intersect(c, F.symbols, {JTLeg(c, F), RankScores(c, F.symbols, EdgarSignal(c, F))})
    [] c.type = "fundamental_llm_jt_intersect" ->
         Intersect(c, F.symbols,
                   {JTLeg(c, F), BinaryScores(F.symbols, LLMSignal(F), c.pct)})
=============================================================================
