-------------------------- MODULE MCCandidatePanel --------------------------
(* Every scorer over three symbols and a few days: on each, one symbol      *)
(* moves or misses its bar, and one symbol, or two, file.                   *)
EXTENDS CandidatePanel

Flat == [s \in Symbols |-> 2]
NoFiling == [s \in Symbols |-> 0]
NoTrading == [s \in Symbols |-> 0]
Day(closes, filed) == [close |-> closes, filed |-> filed, vix |-> 10, spy |-> 1]

OneMoves == {Flat, [Flat EXCEPT ![2] = 3]} \cup {[Flat EXCEPT ![1] = v] : v \in {0, 1, 3}}
OneFiles(values) ==
  {NoFiling, [NoFiling EXCEPT ![2] = 2]} \cup {[NoFiling EXCEPT ![1] = v] : v \in values}

FirstOrSecondUp == {[Flat EXCEPT ![s] = 3] : s \in {1, 2}}
BothFile(a, b) == [NoFiling EXCEPT ![1] = a, ![2] = b]

\* Filings on days on which everyone trades, and one on a day without bars.
FilingDaysOf(values) ==
  {Day(Flat, f) : f \in OneFiles(values)}
  \cup {Day(NoTrading, [NoFiling EXCEPT ![1] = 1])}

MCDaysOf(type) ==
  CASE type \in {"jt_momentum", "ml"} -> {Day(c, NoFiling) : c \in OneMoves}
    [] type = "rule" ->
         {[Day(c, NoFiling) EXCEPT !.vix = 45] : c \in OneMoves}
         \cup {[Day(Flat, NoFiling) EXCEPT !.vix = v, !.spy = 2] : v \in {0, 18, 25, 35}}
    [] type \in {"pead", "fundamental_llm", "edgar_textdiff"} -> FilingDaysOf({-1, 1, 2})
    [] type \in ActivityTypes -> FilingDaysOf({1, 2})
    [] type = "edgar_textdiff_jt_intersect" ->
         {Day(c, f) : c \in FirstOrSecondUp, f \in {NoFiling, BothFile(1, 1), BothFile(2, 1)}}
    [] OTHER ->
         {Day(c, f) : c \in FirstOrSecondUp, f \in {NoFiling, BothFile(1, 0), BothFile(0, 2)}}

MCHorizonOf(type) == IF type = "rule" THEN 3 ELSE 4

Ones == [n \in CompositeNames |-> 1]
Base == [type |-> "rule", continuous |-> FALSE, pct |-> 40, entry |-> 65, vol_scale |-> FALSE,
         window |-> 2, mode |-> "cosine", rolling |-> 1, lag |-> 0, z_cap |-> 120,
         weights |-> [Ones EXCEPT !["momentum"] = 2],
         multipliers |-> [r \in Regimes |->
                            IF r = "crisis" THEN [Ones EXCEPT !["momentum"] = 0] ELSE Ones]]
MCConfigs ==
  {[Base EXCEPT !.type = t] : t \in {"rule", "ml", "pead", "fundamental_llm"}}
  \cup {[Base EXCEPT !.type = "jt_momentum", !.vol_scale = b, !.pct = 70] : b \in BOOLEAN}
  \cup {[Base EXCEPT !.type = "edgar_textdiff", !.mode = m, !.rolling = 2,
                     !.continuous = (m = "blend"), !.lag = IF m = "length" THEN 1 ELSE 0] :
        m \in {"cosine", "length", "blend"}}
  \cup {[Base EXCEPT !.type = "insider_cluster", !.continuous = b] : b \in BOOLEAN}
  \cup {[Base EXCEPT !.type = "form_8k_event", !.window = 1]}
  \cup {[Base EXCEPT !.type = t, !.continuous = TRUE, !.pct = 100] :
        t \in {"pead_jt_intersect", "edgar_textdiff_jt_intersect",
               "fundamental_llm_jt_intersect"}}
=============================================================================
