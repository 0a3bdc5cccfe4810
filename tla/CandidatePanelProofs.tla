------------------------ MODULE CandidatePanelProofs ------------------------
(***************************************************************************)
(* Proofs about CandidatePanel, for any symbols, windows, limits, closes   *)
(* and filings, and every scorer: what the paper command scored is what a  *)
(* later backtest scores for that day, a day that passes changes no        *)
(* earlier score, and scores follow the signals they are made from.        *)
(***************************************************************************)
EXTENDS CandidatePanel, SumLemmas

-----------------------------------------------------------------------------
(* Finite sets of days, from the last.  Every rank below the size of a set *)
(* is taken by one day, the one Back finds.                                *)
Above(S, x) == {y \in S : y > x}

LEMMA AboveRank ==
  ASSUME NEW S \in SUBSET Nat, IsFiniteSet(S), NEW x \in S
  PROVE  /\ IsFiniteSet(Above(S, x)) /\ Cardinality(Above(S, x)) \in 0..(Cardinality(S) - 1)
         /\ Cardinality(S) \in Nat
<1>1. Above(S, x) \subseteq S \ {x}
  BY DEF Above
<1>2. IsFiniteSet(S \ {x}) /\ Cardinality(S \ {x}) = Cardinality(S) - 1
  BY FS_RemoveElement
<1>3. IsFiniteSet(Above(S, x)) /\ Cardinality(Above(S, x)) <= Cardinality(S) - 1
  BY <1>1, <1>2, FS_Subset
<1>4. Cardinality(Above(S, x)) \in Nat /\ Cardinality(S) \in Nat
  BY <1>3, FS_CardinalityType
<1> QED
  BY <1>3, <1>4

LEMMA RankFalls ==
  ASSUME NEW S \in SUBSET Nat, IsFiniteSet(S), NEW x \in S, NEW y \in S, x < y
  PROVE  /\ Cardinality(Above(S, y)) < Cardinality(Above(S, x))
         /\ Above(S, y) \subseteq Above(S, x)
<1>1. x \in Nat /\ y \in Nat /\ \A z \in S : z \in Nat
  OBVIOUS
<1>2. Above(S, y) \cup {y} \subseteq Above(S, x) /\ y \notin Above(S, y)
  <2>1. y > x /\ ~(y > y) /\ \A z \in S : z > y => z > x
    BY <1>1
  <2> QED
    BY <2>1 DEF Above
<1>3. /\ IsFiniteSet(Above(S, y)) /\ IsFiniteSet(Above(S, x))
      /\ Cardinality(Above(S, y)) \in Nat /\ Cardinality(Above(S, x)) \in Nat
  BY AboveRank
<1>4. Cardinality(Above(S, y) \cup {y}) = Cardinality(Above(S, y)) + 1
  BY <1>2, <1>3, FS_AddElement
<1>5. Cardinality(Above(S, y) \cup {y}) <= Cardinality(Above(S, x))
  BY <1>2, <1>3, FS_Subset
<1> QED
  BY <1>2, <1>3, <1>4, <1>5

LEMMA RankOnce ==
  ASSUME NEW S \in SUBSET Nat, IsFiniteSet(S), NEW x \in S, NEW y \in S,
         Cardinality(Above(S, x)) = Cardinality(Above(S, y))
  PROVE  x = y
<1>1. x \in Nat /\ y \in Nat
  OBVIOUS
<1>2. Cardinality(Above(S, x)) \in Nat /\ Cardinality(Above(S, y)) \in Nat
  BY AboveRank
<1>3. ~(x < y) /\ ~(y < x)
  BY <1>2, RankFalls
<1> QED
  BY <1>1, <1>3

LEMMA RankTaken ==
  ASSUME NEW S \in SUBSET Nat, IsFiniteSet(S), NEW k \in Nat, k < Cardinality(S)
  PROVE  \E x \in S : Cardinality(Above(S, x)) = k
<1> DEFINE n == Cardinality(S)
           T == 0..(n - 1)
           f == [x \in S |-> Cardinality(Above(S, x))]
<1>1. n \in Nat
  BY FS_CardinalityType
<1>2. f \in [S -> T]
  BY AboveRank
<1>3. ASSUME NEW x \in S, NEW y \in S, f[x] = f[y] PROVE x = y
  BY <1>3, RankOnce
<1>4. IsFiniteSet(T) /\ Cardinality(T) = n /\ k \in T
  <2>1. 0 \in Int /\ n - 1 \in Int /\ ~(0 > n - 1) /\ n - 1 - 0 + 1 = n /\ k \in 0..(n - 1)
    BY <1>1
  <2> QED
    BY <2>1, FS_Interval
<1> HIDE DEF f, T
<1>5. f \in Injection(S, T)
  BY <1>2, <1>3 DEF Injection, IsInjective
<1>6. f \in Surjection(S, T)
  BY <1>4, <1>5, FS_Injection
<1>7. \E x \in S : f[x] = k
  BY <1>4, <1>6 DEF Surjection
<1> QED
  BY <1>7 DEF f

LEMMA BackIs ==
  ASSUME NEW S \in SUBSET Nat, IsFiniteSet(S), NEW k \in Nat
  PROVE  /\ k < Cardinality(S) => Back(S, k) \in S /\ Cardinality(Above(S, Back(S, k))) = k
         /\ \A x \in S : Cardinality(Above(S, x)) = k => x = Back(S, k) /\ k < Cardinality(S)
<1>1. Back(S, k) = CHOOSE x \in S : Cardinality(Above(S, x)) = k
  BY DEF Back, Above
<1>2. (\E x \in S : Cardinality(Above(S, x)) = k)
        => Back(S, k) \in S /\ Cardinality(Above(S, Back(S, k))) = k
  BY <1>1
<1>3. k < Cardinality(S) => \E x \in S : Cardinality(Above(S, x)) = k
  BY RankTaken
<1>4. ASSUME NEW x \in S, Cardinality(Above(S, x)) = k
      PROVE  x = Back(S, k) /\ k < Cardinality(S)
  <2>1. x = Back(S, k)
    BY <1>2, <1>4, RankOnce
  <2>2. Cardinality(Above(S, x)) \in 0..(Cardinality(S) - 1) /\ Cardinality(S) \in Nat
    BY AboveRank
  <2> QED
    BY <1>4, <2>1, <2>2
<1> QED
  BY <1>2, <1>3, <1>4

LEMMA MaxIsBack ==
  ASSUME NEW S \in SUBSET Nat, IsFiniteSet(S), S # {}
  PROVE  /\ Max(S) = Back(S, 0) /\ 0 < Cardinality(S)
         /\ Max(S) \in S /\ \A x \in S : x <= Max(S)
<1>1. 0 < Cardinality(S)
  BY FS_EmptySet, FS_CardinalityType
<1>2. PICK b \in S : b = Back(S, 0) /\ Cardinality(Above(S, b)) = 0
  BY <1>1, BackIs
<1>3. IsFiniteSet(Above(S, b))
  BY AboveRank
<1>4. Above(S, b) = {}
  BY <1>2, <1>3, FS_EmptySet
<1>5. \A x \in S : x \in Nat /\ ~(x > b)
  BY <1>4 DEF Above
<1>6. \A x \in S : b >= x
  BY <1>5
<1>7. Max(S) \in S /\ \A x \in S : Max(S) >= x
  BY <1>6 DEF Max
<1>8. Max(S) = b
  <2>1. PICK m \in S : m = Max(S) /\ m >= b /\ b >= m
    BY <1>6, <1>7
  <2>2. m \in Nat /\ b \in Nat
    OBVIOUS
  <2> QED
    BY <2>1, <2>2
<1> QED
  BY <1>1, <1>2, <1>5, <1>7, <1>8

(* Sets whose k last members are the same.                                 *)
SameTop(X, Y, k) ==
  \A m \in 0..(k - 1) :
    /\ Cardinality(X) > m <=> Cardinality(Y) > m
    /\ Cardinality(X) > m => Back(X, m) = Back(Y, m)

LEMMA TopSame ==
  ASSUME NEW S \in SUBSET Nat, IsFiniteSet(S), NEW X \in SUBSET S, NEW k \in Nat,
         Newest(k, S) \subseteq X
  PROVE  SameTop(X, S, k)
<1> SUFFICES ASSUME NEW m \in 0..(k - 1)
             PROVE  /\ Cardinality(X) > m <=> Cardinality(S) > m
                    /\ Cardinality(X) > m => Back(X, m) = Back(S, m)
  BY DEF SameTop
<1>1. m \in Nat /\ m < k
  OBVIOUS
<1>2. /\ IsFiniteSet(X) /\ Cardinality(X) <= Cardinality(S)
      /\ Cardinality(X) \in Nat /\ Cardinality(S) \in Nat
  BY FS_Subset, FS_CardinalityType
<1>3. ASSUME Cardinality(S) > m
      PROVE  Cardinality(X) > m /\ Back(X, m) = Back(S, m)
  <2>1. PICK b \in S : b = Back(S, m) /\ Cardinality(Above(S, b)) = m
    BY <1>1, <1>2, <1>3, BackIs
  <2>2. \A y \in S : Cardinality(Above(S, y)) < k => y \in X
    BY DEF Newest, Above
  <2>3. b \in X
    BY <1>1, <2>1, <2>2
  <2>4. ASSUME NEW y \in Above(S, b) PROVE y \in X
    <3>1. y \in S /\ b < y
      BY DEF Above
    <3>2. Cardinality(Above(S, y)) < m /\ Cardinality(Above(S, y)) \in Nat
      BY <2>1, <3>1, RankFalls, AboveRank
    <3> QED
      BY <1>1, <2>2, <3>1, <3>2
  <2>5. Above(X, b) = Above(S, b)
    BY <2>4 DEF Above
  <2>6. X \in SUBSET Nat /\ Cardinality(Above(X, b)) = m
    BY <2>1, <2>5
  <2> QED
    BY <1>1, <1>2, <2>1, <2>3, <2>6, BackIs
<1> QED
  BY <1>1, <1>2, <1>3

-----------------------------------------------------------------------------
LEMMA SizesAre ==
  /\ BtStart \in Nat /\ Warmup \in Nat /\ ActivitySlack \in Nat /\ RecentBlock \in Nat
  /\ TextSlack \in Nat /\ TextCap \in Nat /\ EarningsLimit \in Nat /\ StatementLag \in Nat
  /\ Lookback \in Nat /\ Lookback >= 1 /\ Skip \in Nat /\ MinBars \in Nat /\ MinBars >= 1
  /\ VolWindow \in Nat /\ VolWindow >= 1 /\ SpyPeriod \in Nat /\ SpyPeriod >= 1
BY PanelAssumption

(* Features.  Those of a day are computed from the last BarsRead bars of a *)
(* symbol, the filings its scorer reads, and the days themselves.          *)
LEMMA BarsReadIs ==
  /\ BarsRead \in Nat /\ 2 <= BarsRead
  /\ MinBars <= BarsRead /\ Lookback + Skip + 1 <= BarsRead /\ VolWindow + 1 <= BarsRead
<1> DEFINE B == {MinBars, Lookback + Skip + 1, VolWindow + 1}
<1>1. /\ MinBars \in Nat /\ Lookback + Skip + 1 \in Nat /\ VolWindow + 1 \in Nat
      /\ VolWindow >= 1 /\ VolWindow \in Nat
  BY SizesAre
<1>2. B = (({} \cup {MinBars}) \cup {Lookback + Skip + 1}) \cup {VolWindow + 1}
  OBVIOUS
<1>3. IsFiniteSet(({} \cup {MinBars}) \cup {Lookback + Skip + 1})
  BY FS_EmptySet, FS_AddElement
<1>4. IsFiniteSet(B)
  BY <1>2, <1>3, FS_AddElement
<1>5. B \in SUBSET Nat /\ B # {} /\ MinBars \in B /\ Lookback + Skip + 1 \in B /\ VolWindow + 1 \in B
  BY <1>1
<1>6. BarsRead = Max(B)
  BY DEF BarsRead
<1> HIDE DEF B
<1>7. BarsRead \in B /\ \A x \in B : x <= BarsRead
  BY <1>4, <1>5, <1>6, MaxIsBack
<1>8. BarsRead \in Nat /\ VolWindow + 1 <= BarsRead
  BY <1>5, <1>7
<1> QED
  BY <1>1, <1>5, <1>7, <1>8

LEMMA UpToDays ==
  ASSUME NEW S, S \subseteq Nat \ {0}, NEW d \in Int
  PROVE  /\ UpTo(S, d) \in SUBSET Nat /\ IsFiniteSet(UpTo(S, d))
         /\ \A x \in UpTo(S, d) : x \in S /\ x \in 1..d /\ x \in Nat
<1>1. ASSUME NEW x \in UpTo(S, d)
      PROVE  x \in 1..d /\ x \in Nat /\ x \in S
  <2>1. x \in S /\ x <= d
    BY DEF UpTo
  <2>2. x \in Nat /\ x # 0
    BY <2>1
  <2> QED
    BY <2>1, <2>2
<1>2. IsFiniteSet(1..d)
  BY FS_Interval
<1>3. UpTo(S, d) \subseteq 1..d /\ UpTo(S, d) \subseteq Nat
  BY <1>1
<1> QED
  BY <1>1, <1>2, <1>3, FS_Subset

LEMMA WithinSame ==
  ASSUME NEW f, NEW g, NEW M, DOMAIN f \cap M = DOMAIN g \cap M,
         \A s \in DOMAIN f \cap M : f[s] = g[s]
  PROVE  Within(f, M) = Within(g, M)
BY DEF Within

PanelGood(P) ==
  /\ P.symbols \subseteq Symbols /\ P.market \subseteq Nat \ {0}
  /\ \A s \in P.symbols : P.bars[s] \subseteq Nat \ {0} /\ P.filings[s] \subseteq Nat \ {0}

(* The filings of two panels are the same for the scorer on day d.         *)
InWindow(c, P, s, d) == {x \in UpTo(P.filings[s], d) : x >= d - c.window}
SameFilings(c, P, Q, s, d) ==
  /\ c.type \in TextTypes => SameTop(Public(c, P, s, d), Public(c, Q, s, d), c.rolling + 1)
  /\ c.type \in EarningsTypes =>
       SameTop(UpTo(P.filings[s], d - 1), UpTo(Q.filings[s], d - 1), 1)
  /\ c.type \in ActivityTypes =>
       /\ (P.filings[s] = {}) <=> (Q.filings[s] = {})
       /\ InWindow(c, P, s, d) = InWindow(c, Q, s, d)
  /\ c.type \in StatementTypes =>
       UpTo(P.filings[s], d - StatementLag) = UpTo(Q.filings[s], d - StatementLag)

(* Two panels are the same on day d.                                       *)
SameDay(c, P, Q, d) ==
  /\ Measured(P, d) = Measured(Q, d)
  /\ \A x \in 1..d : P.h[x] = Q.h[x]
  /\ \A s \in Measured(P, d) :
       /\ SameTop(UpTo(P.bars[s], d), UpTo(Q.bars[s], d), BarsRead)
       /\ SameFilings(c, P, Q, s, d)

(* A rank that is read is of the same day in both.                         *)
LEMMA SameBack ==
  ASSUME NEW X \in SUBSET Nat, IsFiniteSet(X), NEW Y, NEW k \in Nat, SameTop(X, Y, k),
         NEW m \in Nat, m < k, m < Cardinality(X)
  PROVE  Back(X, m) = Back(Y, m) /\ Back(X, m) \in X
<1>1. m \in 0..(k - 1) /\ Cardinality(X) > m
  BY FS_CardinalityType
<1> QED
  BY <1>1, BackIs DEF SameTop

LEMMA SameSize ==
  ASSUME NEW X, IsFiniteSet(X), NEW Y, IsFiniteSet(Y), NEW k \in Nat, SameTop(X, Y, k),
         NEW m \in Nat, m <= k
  PROVE  Cardinality(X) >= m <=> Cardinality(Y) >= m
<1>1. Cardinality(X) \in Nat /\ Cardinality(Y) \in Nat
  BY FS_CardinalityType
<1>2. CASE m = 0
  BY <1>1, <1>2
<1>3. CASE m # 0
  <2>1. m - 1 \in 0..(k - 1)
    BY <1>3
  <2>2. Cardinality(X) > m - 1 <=> Cardinality(Y) > m - 1
    BY <2>1 DEF SameTop
  <2> QED
    BY <1>1, <2>2
<1> QED
  BY <1>2, <1>3

(* The bars of a measured symbol.                                          *)
LEMMA BarsOf ==
  ASSUME NEW c, NEW P, NEW Q, NEW d \in Nat, PanelGood(P), PanelGood(Q), SameDay(c, P, Q, d),
         NEW s \in Measured(P, d), NEW X, NEW Y, X = UpTo(P.bars[s], d), Y = UpTo(Q.bars[s], d)
  PROVE  /\ s \in P.symbols /\ s \in Q.symbols
         /\ X \in SUBSET Nat /\ IsFiniteSet(X) /\ Y \in SUBSET Nat /\ IsFiniteSet(Y)
         /\ SameTop(X, Y, BarsRead)
         /\ \A x \in X : P.h[x] = Q.h[x]
<1>1. s \in P.symbols /\ s \in Q.symbols
  BY DEF SameDay, Measured
<1>2. P.bars[s] \subseteq Nat \ {0} /\ Q.bars[s] \subseteq Nat \ {0}
  BY <1>1 DEF PanelGood
<1>3. \A x \in X : x \in 1..d
  BY <1>2, UpToDays
<1> QED
  BY <1>1, <1>2, <1>3, UpToDays DEF SameDay

LEMMA MomentumSame ==
  ASSUME NEW c, NEW P, NEW Q, NEW d \in Nat, PanelGood(P), PanelGood(Q), SameDay(c, P, Q, d),
         NEW lb \in Nat, NEW sk \in Nat, lb + sk + 1 <= BarsRead
  PROVE  Within(Momentum(P, d, lb, sk), Measured(P, d)) = Within(Momentum(Q, d, lb, sk), Measured(Q, d))
<1> DEFINE M == Measured(P, d)
           f == Momentum(P, d, lb, sk)
           g == Momentum(Q, d, lb, sk)
<1>1. M = Measured(Q, d)
  BY DEF SameDay
<1>2. /\ DOMAIN f = {x \in P.symbols : Cardinality(UpTo(P.bars[x], d)) >= lb + sk + 1}
      /\ DOMAIN g = {x \in Q.symbols : Cardinality(UpTo(Q.bars[x], d)) >= lb + sk + 1}
  BY DEF Momentum
<1>3. ASSUME NEW s \in M
      PROVE  /\ s \in DOMAIN f <=> s \in DOMAIN g
             /\ s \in DOMAIN f => f[s] = g[s]
  <2>1. PICK X, Y : X = UpTo(P.bars[s], d) /\ Y = UpTo(Q.bars[s], d)
    OBVIOUS
  <2>2. /\ s \in P.symbols /\ s \in Q.symbols
        /\ X \in SUBSET Nat /\ IsFiniteSet(X) /\ Y \in SUBSET Nat /\ IsFiniteSet(Y)
        /\ SameTop(X, Y, BarsRead) /\ \A x \in X : P.h[x] = Q.h[x]
    BY <1>3, <2>1, BarsOf
  <2>3. Cardinality(X) >= lb + sk + 1 <=> Cardinality(Y) >= lb + sk + 1
    BY <2>2, BarsReadIs, SameSize
  <2>4. s \in DOMAIN f <=> s \in DOMAIN g
    BY <1>2, <2>1, <2>2, <2>3
  <2>5. ASSUME s \in DOMAIN f
        PROVE  f[s] = g[s]
    <3>1. Cardinality(X) \in Nat /\ Cardinality(X) >= lb + sk + 1
      BY <1>2, <2>1, <2>2, <2>5, FS_CardinalityType
    <3>2. /\ sk < BarsRead /\ lb + sk < BarsRead /\ sk < Cardinality(X)
          /\ lb + sk < Cardinality(X) /\ lb + sk \in Nat
      BY <3>1, BarsReadIs
    <3>3. /\ Back(X, sk) = Back(Y, sk) /\ Back(X, sk) \in X
          /\ Back(X, lb + sk) = Back(Y, lb + sk) /\ Back(X, lb + sk) \in X
      BY <2>2, <3>2, BarsReadIs, SameBack
    <3>4. /\ P.h[Back(X, sk)] = Q.h[Back(Y, sk)]
          /\ P.h[Back(X, lb + sk)] = Q.h[Back(Y, lb + sk)]
      BY <2>2, <3>3
    <3>5. f[s] = (100 * (P.h[Back(X, sk)].close[s] - P.h[Back(X, lb + sk)].close[s]))
                   \div P.h[Back(X, lb + sk)].close[s]
      BY <1>2, <2>1, <2>5 DEF Momentum
    <3>6. g[s] = (100 * (Q.h[Back(Y, sk)].close[s] - Q.h[Back(Y, lb + sk)].close[s]))
                   \div Q.h[Back(Y, lb + sk)].close[s]
      BY <1>2, <2>1, <2>4, <2>5 DEF Momentum
    <3> QED
      BY <3>4, <3>5, <3>6
  <2> QED
    BY <2>4, <2>5
<1> HIDE DEF f, g, M
<1>4. Within(f, M) = Within(g, M)
  BY <1>3, WithinSame
<1> QED
  BY <1>1, <1>4 DEF f, g, M

LEMMA VolatilitySame ==
  ASSUME NEW c, NEW P, NEW Q, NEW d \in Nat, PanelGood(P), PanelGood(Q), SameDay(c, P, Q, d)
  PROVE  Within(Volatility(P, d), Measured(P, d)) = Within(Volatility(Q, d), Measured(Q, d))
<1> DEFINE M == Measured(P, d)
           f == Volatility(P, d)
           g == Volatility(Q, d)
           Moves(R, X, s) == [k \in 0..VolWindow - 1 |->
                                Abs(R.h[Back(X, k)].close[s] - R.h[Back(X, k + 1)].close[s])]
<1>1. M = Measured(Q, d)
  BY DEF SameDay
<1>2. /\ DOMAIN f = {x \in P.symbols : Cardinality(UpTo(P.bars[x], d)) >= VolWindow + 1}
      /\ DOMAIN g = {x \in Q.symbols : Cardinality(UpTo(Q.bars[x], d)) >= VolWindow + 1}
  BY DEF Volatility
<1>3. ASSUME NEW s \in M
      PROVE  /\ s \in DOMAIN f <=> s \in DOMAIN g
             /\ s \in DOMAIN f => f[s] = g[s]
  <2>1. PICK X, Y : X = UpTo(P.bars[s], d) /\ Y = UpTo(Q.bars[s], d)
    OBVIOUS
  <2>2. /\ s \in P.symbols /\ s \in Q.symbols
        /\ X \in SUBSET Nat /\ IsFiniteSet(X) /\ Y \in SUBSET Nat /\ IsFiniteSet(Y)
        /\ SameTop(X, Y, BarsRead) /\ \A x \in X : P.h[x] = Q.h[x]
    BY <1>3, <2>1, BarsOf
  <2>3. VolWindow \in Nat /\ VolWindow + 1 \in Nat /\ VolWindow + 1 <= BarsRead
    BY BarsReadIs, SizesAre
  <2>4. Cardinality(X) >= VolWindow + 1 <=> Cardinality(Y) >= VolWindow + 1
    BY <2>2, <2>3, BarsReadIs, SameSize
  <2>5. s \in DOMAIN f <=> s \in DOMAIN g
    BY <1>2, <2>1, <2>2, <2>4
  <2>6. ASSUME s \in DOMAIN f
        PROVE  f[s] = g[s]
    <3>1. Cardinality(X) \in Nat /\ Cardinality(X) >= VolWindow + 1
      BY <1>2, <2>1, <2>2, <2>6, FS_CardinalityType
    <3>2. ASSUME NEW k \in 0..VolWindow
          PROVE  P.h[Back(X, k)] = Q.h[Back(Y, k)]
      <4>1. k \in Nat /\ k < BarsRead /\ k < Cardinality(X)
        BY <2>3, <3>1, BarsReadIs
      <4>2. Back(X, k) = Back(Y, k) /\ Back(X, k) \in X
        BY <2>2, <4>1, BarsReadIs, SameBack
      <4> QED
        BY <2>2, <4>2
    <3>3. Moves(P, X, s) = Moves(Q, Y, s)
      <4>1. ASSUME NEW k \in 0..VolWindow - 1
            PROVE  /\ P.h[Back(X, k)] = Q.h[Back(Y, k)]
                   /\ P.h[Back(X, k + 1)] = Q.h[Back(Y, k + 1)]
        <5>1. k \in 0..VolWindow /\ k + 1 \in 0..VolWindow
          BY <2>3
        <5> QED
          BY <3>2, <5>1
      <4> QED
        BY <4>1
    <3>4. f[s] = SumOf(Moves(P, X, s))
      BY <1>2, <2>1, <2>6 DEF Volatility
    <3>5. g[s] = SumOf(Moves(Q, Y, s))
      BY <1>2, <2>1, <2>5, <2>6 DEF Volatility
    <3> QED
      BY <3>3, <3>4, <3>5
  <2> QED
    BY <2>5, <2>6
<1> HIDE DEF f, g, M
<1>4. Within(f, M) = Within(g, M)
  BY <1>3, WithinSame
<1> QED
  BY <1>1, <1>4 DEF f, g, M

(* The filings of a symbol up to a day.                                    *)
LEMMA FilingsOf ==
  ASSUME NEW c, NEW P, NEW Q, NEW d \in Nat, PanelGood(P), PanelGood(Q), SameDay(c, P, Q, d),
         NEW s \in Measured(P, d), NEW e \in Int, e <= d,
         NEW X, NEW Y, X = UpTo(P.filings[s], e), Y = UpTo(Q.filings[s], e)
  PROVE  /\ s \in P.symbols /\ s \in Q.symbols
         /\ X \in SUBSET Nat /\ IsFiniteSet(X) /\ Y \in SUBSET Nat /\ IsFiniteSet(Y)
         /\ \A x \in X : P.h[x] = Q.h[x]
<1>1. s \in P.symbols /\ s \in Q.symbols
  BY DEF SameDay, Measured
<1>2. P.filings[s] \subseteq Nat \ {0} /\ Q.filings[s] \subseteq Nat \ {0}
  BY <1>1 DEF PanelGood
<1>3. /\ \A x \in X : x \in 1..e /\ x \in Nat
      /\ X \in SUBSET Nat /\ IsFiniteSet(X) /\ Y \in SUBSET Nat /\ IsFiniteSet(Y)
  BY <1>2, UpToDays
<1>4. \A x \in X : x \in 1..d
  BY <1>3
<1> QED
  BY <1>1, <1>3, <1>4 DEF SameDay

LEMMA MinOfTwo ==
  ASSUME NEW a \in Int, NEW b \in Int
  PROVE  Min({a, b}) = IF a <= b THEN a ELSE b
<1>1. \E x \in {a, b} : \A y \in {a, b} : x <= y
  BY a <= b \/ b <= a
<1>2. Min({a, b}) \in {a, b} /\ \A y \in {a, b} : Min({a, b}) <= y
  BY <1>1 DEF Min
<1>3. PICK m \in {a, b} : m = Min({a, b}) /\ m <= a /\ m <= b
  BY <1>2
<1> QED
  BY <1>3

(* The texts that are compared are the same number in both.                *)
LEMMA PairsSame ==
  ASSUME NEW X, IsFiniteSet(X), NEW Y, IsFiniteSet(Y), NEW r \in Nat \ {0},
         SameTop(X, Y, r + 1), Cardinality(X) >= 2
  PROVE  /\ Min({r, Cardinality(X) - 1}) = Min({r, Cardinality(Y) - 1})
         /\ Min({r, Cardinality(X) - 1}) \in 1..r
         /\ Min({r, Cardinality(X) - 1}) < Cardinality(X)
<1>1. PICK a \in Nat, b \in Nat : a = Cardinality(X) /\ b = Cardinality(Y)
  BY FS_CardinalityType
<1>2. r \in Nat /\ r >= 1
  OBVIOUS
<1>3. \A m \in 0..r : a > m <=> b > m
  BY <1>1, <1>2 DEF SameTop
<1>4. (a > r /\ b > r) \/ a = b
  <2>1. CASE a > r
    BY <1>2, <1>3, <2>1
  <2>2. CASE ~(a > r)
    <3>1. a \in 0..r /\ a - 1 \in 0..r
      BY <1>1, <1>2, <2>2
    <3>2. ~(b > a) /\ b > a - 1
      BY <1>3, <3>1
    <3> QED
      BY <3>2
  <2> QED
    BY <2>1, <2>2
<1>5. /\ Min({r, a - 1}) = IF r <= a - 1 THEN r ELSE a - 1
      /\ Min({r, b - 1}) = IF r <= b - 1 THEN r ELSE b - 1
  <2>1. a - 1 \in Int /\ b - 1 \in Int /\ r \in Int
    OBVIOUS
  <2> QED
    BY <2>1, MinOfTwo
<1>6. a >= 2
  BY <1>1
<1> QED
  BY <1>1, <1>2, <1>4, <1>5, <1>6

LEMMA CosineSame ==
  ASSUME NEW c \in ScorerConfig, NEW P, NEW Q, NEW d \in Nat, PanelGood(P), PanelGood(Q),
         SameDay(c, P, Q, d), c.type \in TextTypes
  PROVE  Within(CosineOfTexts(c, P, d), Measured(P, d))
           = Within(CosineOfTexts(c, Q, d), Measured(Q, d))
<1> DEFINE M == Measured(P, d)
           f == CosineOfTexts(c, P, d)
           g == CosineOfTexts(c, Q, d)
           Pairs(X) == Min({c.rolling, Cardinality(X) - 1})
           Likeness(R, X, s) == [k \in 0..Pairs(X) - 1 |->
                                   Cosine(R.h[Back(X, k)].filed[s], R.h[Back(X, k + 1)].filed[s])]
<1>1. M = Measured(Q, d)
  BY DEF SameDay
<1>2. /\ DOMAIN f = {x \in P.symbols : Cardinality(Public(c, P, x, d)) >= 2}
      /\ DOMAIN g = {x \in Q.symbols : Cardinality(Public(c, Q, x, d)) >= 2}
  BY DEF CosineOfTexts
<1>3. PICK r \in Nat \ {0} : r = c.rolling
  BY DEF ScorerConfig
<1>4. PICK e \in Int : e = d - c.lag /\ e <= d
  <2>1. c.lag \in Nat
    BY DEF ScorerConfig
  <2> QED
    BY <2>1
<1>5. ASSUME NEW s \in M
      PROVE  /\ s \in DOMAIN f <=> s \in DOMAIN g
             /\ s \in DOMAIN f => f[s] = g[s]
  <2>1. PICK X, Y : X = Public(c, P, s, d) /\ Y = Public(c, Q, s, d)
    OBVIOUS
  <2>2. X = UpTo(P.filings[s], e) /\ Y = UpTo(Q.filings[s], e)
    BY <1>4, <2>1 DEF Public
  <2>3. /\ s \in P.symbols /\ s \in Q.symbols
        /\ X \in SUBSET Nat /\ IsFiniteSet(X) /\ Y \in SUBSET Nat /\ IsFiniteSet(Y)
        /\ \A x \in X : P.h[x] = Q.h[x]
    BY <1>4, <1>5, <2>2, FilingsOf
  <2>4. SameTop(X, Y, r + 1)
    BY <1>3, <1>5, <2>1 DEF SameDay, SameFilings
  <2>5. Cardinality(X) >= 2 <=> Cardinality(Y) >= 2
    <3>1. r + 1 \in Nat /\ 2 <= r + 1
      OBVIOUS
    <3> QED
      BY <2>3, <2>4, <3>1, SameSize
  <2>6. s \in DOMAIN f <=> s \in DOMAIN g
    BY <1>2, <2>1, <2>3, <2>5
  <2>7. ASSUME s \in DOMAIN f
        PROVE  f[s] = g[s]
    <3>1. Cardinality(X) \in Nat /\ Cardinality(X) >= 2
      BY <1>2, <2>1, <2>3, <2>7, FS_CardinalityType
    <3>2. PICK p \in 1..r : p = Pairs(X) /\ p = Pairs(Y) /\ p < Cardinality(X)
      BY <1>3, <2>3, <2>4, <3>1, PairsSame
    <3>3. ASSUME NEW k \in 0..p
          PROVE  P.h[Back(X, k)] = Q.h[Back(Y, k)]
      <4>1. k \in Nat /\ r + 1 \in Nat /\ k < r + 1 /\ k < Cardinality(X)
        BY <3>1, <3>2
      <4>2. Back(X, k) = Back(Y, k) /\ Back(X, k) \in X
        BY <2>3, <2>4, <4>1, SameBack
      <4> QED
        BY <2>3, <4>2
    <3>4. Likeness(P, X, s) = Likeness(Q, Y, s)
      <4>1. ASSUME NEW k \in 0..p - 1
            PROVE  /\ P.h[Back(X, k)] = Q.h[Back(Y, k)]
                   /\ P.h[Back(X, k + 1)] = Q.h[Back(Y, k + 1)]
        <5>1. k \in 0..p /\ k + 1 \in 0..p
          OBVIOUS
        <5> QED
          BY <3>3, <5>1
      <4> QED
        BY <3>2, <4>1
    <3>5. f[s] = SumOf(Likeness(P, X, s)) \div Pairs(X)
      BY <1>2, <2>1, <2>7 DEF CosineOfTexts
    <3>6. g[s] = SumOf(Likeness(Q, Y, s)) \div Pairs(Y)
      BY <1>2, <2>1, <2>6, <2>7 DEF CosineOfTexts
    <3> QED
      BY <3>2, <3>4, <3>5, <3>6
  <2> QED
    BY <2>6, <2>7
<1> HIDE DEF f, g, M
<1>6. Within(f, M) = Within(g, M)
  BY <1>5, WithinSame
<1> QED
  BY <1>1, <1>6 DEF f, g, M

LEMMA LengthSame ==
  ASSUME NEW c \in ScorerConfig, NEW P, NEW Q, NEW d \in Nat, PanelGood(P), PanelGood(Q),
         SameDay(c, P, Q, d), c.type \in TextTypes
  PROVE  Within(LengthOfTexts(c, P, d), Measured(P, d))
           = Within(LengthOfTexts(c, Q, d), Measured(Q, d))
<1> DEFINE M == Measured(P, d)
           f == LengthOfTexts(c, P, d)
           g == LengthOfTexts(c, Q, d)
<1>1. M = Measured(Q, d)
  BY DEF SameDay
<1>2. /\ DOMAIN f = {x \in P.symbols : Cardinality(Public(c, P, x, d)) >= 2}
      /\ DOMAIN g = {x \in Q.symbols : Cardinality(Public(c, Q, x, d)) >= 2}
  BY DEF LengthOfTexts
<1>3. PICK k \in Nat : k = c.rolling + 1 /\ k >= 2
  <2>1. c.rolling \in Nat \ {0}
    BY DEF ScorerConfig
  <2> QED
    BY <2>1
<1>4. PICK e \in Int : e = d - c.lag /\ e <= d
  <2>1. c.lag \in Nat
    BY DEF ScorerConfig
  <2> QED
    BY <2>1
<1>5. ASSUME NEW s \in M
      PROVE  /\ s \in DOMAIN f <=> s \in DOMAIN g
             /\ s \in DOMAIN f => f[s] = g[s]
  <2>1. PICK X, Y : X = Public(c, P, s, d) /\ Y = Public(c, Q, s, d)
    OBVIOUS
  <2>2. X = UpTo(P.filings[s], e) /\ Y = UpTo(Q.filings[s], e)
    BY <1>4, <2>1 DEF Public
  <2>3. /\ s \in P.symbols /\ s \in Q.symbols
        /\ X \in SUBSET Nat /\ IsFiniteSet(X) /\ Y \in SUBSET Nat /\ IsFiniteSet(Y)
        /\ \A x \in X : P.h[x] = Q.h[x]
    BY <1>4, <1>5, <2>2, FilingsOf
  <2>4. SameTop(X, Y, k)
    BY <1>3, <1>5, <2>1 DEF SameDay, SameFilings
  <2>5. Cardinality(X) >= 2 <=> Cardinality(Y) >= 2
    BY <1>3, <2>3, <2>4, SameSize
  <2>6. s \in DOMAIN f <=> s \in DOMAIN g
    BY <1>2, <2>1, <2>3, <2>5
  <2>7. ASSUME s \in DOMAIN f
        PROVE  f[s] = g[s]
    <3>1. Cardinality(X) \in Nat /\ Cardinality(X) >= 2
      BY <1>2, <2>1, <2>3, <2>7, FS_CardinalityType
    <3>2. /\ Back(X, 0) = Back(Y, 0) /\ Back(X, 0) \in X
          /\ Back(X, 1) = Back(Y, 1) /\ Back(X, 1) \in X
      <4>1. 0 < k /\ 1 < k /\ 0 < Cardinality(X) /\ 1 < Cardinality(X)
        BY <1>3, <3>1
      <4> QED
        BY <2>3, <2>4, <4>1, SameBack
    <3>3. /\ P.h[Back(X, 0)] = Q.h[Back(Y, 0)]
          /\ P.h[Back(X, 1)] = Q.h[Back(Y, 1)]
      BY <2>3, <3>2
    <3>4. f[s] = LengthChange(P.h[Back(X, 0)].filed[s], P.h[Back(X, 1)].filed[s])
      BY <1>2, <2>1, <2>7 DEF LengthOfTexts
    <3>5. g[s] = LengthChange(Q.h[Back(Y, 0)].filed[s], Q.h[Back(Y, 1)].filed[s])
      BY <1>2, <2>1, <2>6, <2>7 DEF LengthOfTexts
    <3> QED
      BY <3>3, <3>4, <3>5
  <2> QED
    BY <2>6, <2>7
<1> HIDE DEF f, g, M
<1>6. Within(f, M) = Within(g, M)
  BY <1>5, WithinSame
<1> QED
  BY <1>1, <1>6 DEF f, g, M

LEMMA CountsSame ==
  ASSUME NEW c \in ScorerConfig, NEW P, NEW Q, NEW d \in Nat, PanelGood(P), PanelGood(Q),
         SameDay(c, P, Q, d), c.type \in ActivityTypes
  PROVE  Within(FilingCounts(c, P, d), Measured(P, d))
           = Within(FilingCounts(c, Q, d), Measured(Q, d))
<1> DEFINE M == Measured(P, d)
           f == FilingCounts(c, P, d)
           g == FilingCounts(c, Q, d)
           Counted(R, s) == [x \in InWindow(c, R, s, d) |-> R.h[x].filed[s]]
<1>1. M = Measured(Q, d)
  BY DEF SameDay
<1>2. /\ f = [s \in {x \in P.symbols : P.filings[x] # {}} |-> SumOf(Counted(P, s))]
      /\ g = [s \in {x \in Q.symbols : Q.filings[x] # {}} |-> SumOf(Counted(Q, s))]
  BY DEF FilingCounts, InWindow
<1>3. ASSUME NEW s \in M
      PROVE  /\ s \in DOMAIN f <=> s \in DOMAIN g
             /\ s \in DOMAIN f => f[s] = g[s]
  <2>1. /\ s \in P.symbols /\ s \in Q.symbols
        /\ \A x \in UpTo(P.filings[s], d) : P.h[x] = Q.h[x]
    BY <1>3, FilingsOf
  <2>2. /\ (P.filings[s] = {}) <=> (Q.filings[s] = {})
        /\ InWindow(c, P, s, d) = InWindow(c, Q, s, d)
    BY <1>3 DEF SameDay, SameFilings
  <2>3. s \in DOMAIN f <=> s \in DOMAIN g
    BY <1>2, <2>1, <2>2
  <2>4. Counted(P, s) = Counted(Q, s)
    BY <2>1, <2>2 DEF InWindow
  <2>5. s \in DOMAIN f => f[s] = g[s]
    BY <1>2, <2>3, <2>4
  <2> QED
    BY <2>3, <2>5
<1> HIDE DEF f, g, M
<1>4. Within(f, M) = Within(g, M)
  BY <1>3, WithinSame
<1> QED
  BY <1>1, <1>4 DEF f, g, M

(* The last filing up to a day, and what it says.                          *)
LEMMA LastSame ==
  ASSUME NEW c, NEW P, NEW Q, NEW d \in Nat, PanelGood(P), PanelGood(Q), SameDay(c, P, Q, d),
         NEW s \in Measured(P, d), NEW e \in Int, e <= d,
         SameTop(UpTo(P.filings[s], e), UpTo(Q.filings[s], e), 1)
  PROVE  /\ s \in DOMAIN LastFiling(P, e) <=> s \in DOMAIN LastFiling(Q, e)
         /\ s \in DOMAIN LastFiling(P, e) =>
              /\ LastFiling(P, e)[s] = LastFiling(Q, e)[s]
              /\ ValueOf(P, LastFiling(P, e))[s] = ValueOf(Q, LastFiling(Q, e))[s]
<1>1. PICK X, Y : X = UpTo(P.filings[s], e) /\ Y = UpTo(Q.filings[s], e)
  OBVIOUS
<1>2. /\ s \in P.symbols /\ s \in Q.symbols
      /\ X \in SUBSET Nat /\ IsFiniteSet(X) /\ Y \in SUBSET Nat /\ IsFiniteSet(Y)
      /\ \A x \in X : P.h[x] = Q.h[x]
  BY <1>1, FilingsOf
<1>3. SameTop(X, Y, 1)
  BY <1>1
<1>4. (Cardinality(X) > 0 <=> Cardinality(Y) > 0) /\ (Cardinality(X) > 0 => Back(X, 0) = Back(Y, 0))
  <2>1. 0 \in 0..(1 - 1)
    OBVIOUS
  <2> QED
    BY <1>3, <2>1 DEF SameTop
<1>5. X = {} <=> Y = {}
  <2>1. (X # {} => Cardinality(X) > 0) /\ (Y # {} => Cardinality(Y) > 0)
    <3>1. (X # {} => 0 < Cardinality(X)) /\ (Y # {} => 0 < Cardinality(Y))
      BY <1>2, MaxIsBack
    <3>2. Cardinality(X) \in Nat /\ Cardinality(Y) \in Nat
      BY <1>2, FS_CardinalityType
    <3> QED
      BY <3>1, <3>2
  <2>2. (X = {} => Cardinality(X) = 0) /\ (Y = {} => Cardinality(Y) = 0)
    BY FS_EmptySet
  <2> QED
    BY <1>4, <2>1, <2>2
<1>6. X # {} => Max(X) = Max(Y) /\ Max(X) \in X
  BY <1>2, <1>4, <1>5, MaxIsBack
<1>7. /\ s \in DOMAIN LastFiling(P, e) <=> X # {}
      /\ s \in DOMAIN LastFiling(Q, e) <=> Y # {}
      /\ X # {} => LastFiling(P, e)[s] = Max(X)
      /\ Y # {} => LastFiling(Q, e)[s] = Max(Y)
  BY <1>1, <1>2 DEF LastFiling
<1>8. ASSUME X # {}
      PROVE  ValueOf(P, LastFiling(P, e))[s] = ValueOf(Q, LastFiling(Q, e))[s]
  <2>1. P.h[Max(X)] = Q.h[Max(Y)]
    BY <1>2, <1>6, <1>8
  <2> QED
    BY <1>5, <1>7, <1>8, <2>1 DEF ValueOf
<1> QED
  BY <1>5, <1>6, <1>7, <1>8

LastAlike(P, Q, d, e) ==
  \A s \in Measured(P, d) : SameTop(UpTo(P.filings[s], e), UpTo(Q.filings[s], e), 1)

LEMMA LastWithinSame ==
  ASSUME NEW c, NEW P, NEW Q, NEW d \in Nat, PanelGood(P), PanelGood(Q), SameDay(c, P, Q, d),
         NEW j \in Nat, NEW F, NEW G, F = LastFiling(P, d - j), G = LastFiling(Q, d - j),
         LastAlike(P, Q, d, d - j)
  PROVE  /\ Within(ValueOf(P, F), Measured(P, d)) = Within(ValueOf(Q, G), Measured(Q, d))
         /\ Within([s \in DOMAIN F |-> d - F[s]], Measured(P, d))
              = Within([s \in DOMAIN G |-> d - G[s]], Measured(Q, d))
<1>1. PICK M : M = Measured(P, d) /\ M = Measured(Q, d)
  BY DEF SameDay
<1>2. ASSUME NEW s \in M
      PROVE  /\ s \in DOMAIN F <=> s \in DOMAIN G
             /\ s \in DOMAIN F => F[s] = G[s] /\ ValueOf(P, F)[s] = ValueOf(Q, G)[s]
  <2>1. PICK e \in Int : e = d - j /\ e <= d
    OBVIOUS
  <2>2. s \in Measured(P, d) /\ SameTop(UpTo(P.filings[s], e), UpTo(Q.filings[s], e), 1)
    BY <1>1, <2>1 DEF LastAlike
  <2>3. F = LastFiling(P, e) /\ G = LastFiling(Q, e) /\ e <= d
    BY <2>1
  <2> QED
    BY <2>2, <2>3, LastSame
<1>3. DOMAIN ValueOf(P, F) = DOMAIN F /\ DOMAIN ValueOf(Q, G) = DOMAIN G
  BY DEF ValueOf
<1>4. Within(ValueOf(P, F), M) = Within(ValueOf(Q, G), M)
  BY <1>2, <1>3, WithinSame
<1>5. Within([s \in DOMAIN F |-> d - F[s]], M) = Within([s \in DOMAIN G |-> d - G[s]], M)
  BY <1>2, WithinSame
<1> QED
  BY <1>1, <1>4, <1>5

(* The features of a day two panels are the same on.                       *)
SameRead(F, G) ==
  /\ F.symbols = G.symbols /\ F.momentum = G.momentum /\ F.volatility = G.volatility
  /\ F.prediction = G.prediction /\ F.surprise = G.surprise /\ F.age = G.age
  /\ F.llm_score = G.llm_score /\ F.cosine = G.cosine /\ F.len_change = G.len_change
  /\ F.filings = G.filings

LEMMA SameFeatures ==
  ASSUME NEW c \in ScorerConfig, NEW P, NEW Q, NEW d \in Nat, PanelGood(P), PanelGood(Q),
         SameDay(c, P, Q, d)
  PROVE  /\ SameRead(Features(c, P, d), Features(c, Q, d))
         /\ Features(c, P, d).short_momentum = Features(c, Q, d).short_momentum
         /\ Vix(P, d) = Vix(Q, d) /\ SpyAbove(P, d) = SpyAbove(Q, d)
              => Features(c, P, d) = Features(c, Q, d)
<1> DEFINE M == Measured(P, d)
           N == Measured(Q, d)
<1>1. M = N
  BY DEF SameDay
<1>2. Within(Momentum(P, d, Lookback, Skip), M) = Within(Momentum(Q, d, Lookback, Skip), N)
  <2>1. Lookback \in Nat /\ Skip \in Nat
    BY SizesAre
  <2> QED
    BY <2>1, BarsReadIs, MomentumSame
<1>3. Within(Momentum(P, d, 1, 0), M) = Within(Momentum(Q, d, 1, 0), N)
  <2>1. 1 \in Nat /\ 0 \in Nat /\ 1 + 0 + 1 <= BarsRead
    BY BarsReadIs
  <2> QED
    BY <2>1, MomentumSame
<1>4. Within(Volatility(P, d), M) = Within(Volatility(Q, d), N)
  BY VolatilitySame
<1>5. c.type \in TextTypes =>
        /\ Within(CosineOfTexts(c, P, d), M) = Within(CosineOfTexts(c, Q, d), N)
        /\ Within(LengthOfTexts(c, P, d), M) = Within(LengthOfTexts(c, Q, d), N)
  BY CosineSame, LengthSame
<1>6. c.type \in ActivityTypes =>
        Within(FilingCounts(c, P, d), M) = Within(FilingCounts(c, Q, d), N)
  BY CountsSame
<1>7. PICK A, B : A = LastFiling(P, d - 1) /\ B = LastFiling(Q, d - 1)
  OBVIOUS
<1>8. c.type \in EarningsTypes =>
        /\ Within(ValueOf(P, A), M) = Within(ValueOf(Q, B), N)
        /\ Within([s \in DOMAIN A |-> d - A[s]], M) = Within([s \in DOMAIN B |-> d - B[s]], N)
  <2>1. 1 \in Nat
    OBVIOUS
  <2>2. c.type \in EarningsTypes => LastAlike(P, Q, d, d - 1)
    BY DEF SameDay, SameFilings, LastAlike
  <2> QED
    BY <1>7, <2>1, <2>2, LastWithinSame
<1>9. PICK K, L : K = LastFiling(P, d - StatementLag) /\ L = LastFiling(Q, d - StatementLag)
  OBVIOUS
<1>10. c.type \in StatementTypes => Within(ValueOf(P, K), M) = Within(ValueOf(Q, L), N)
  <2>1. StatementLag \in Nat
    BY SizesAre
  <2>2. ASSUME c.type \in StatementTypes, NEW s \in M
        PROVE  SameTop(UpTo(P.filings[s], d - StatementLag), UpTo(Q.filings[s], d - StatementLag), 1)
    <3>1. UpTo(P.filings[s], d - StatementLag) = UpTo(Q.filings[s], d - StatementLag)
      BY <2>2 DEF SameDay, SameFilings
    <3> QED
      BY <3>1 DEF SameTop
  <2>3. c.type \in StatementTypes => LastAlike(P, Q, d, d - StatementLag)
    BY <2>2 DEF LastAlike
  <2>4. c.type \in StatementTypes =>
          /\ Within(ValueOf(P, K), M) = Within(ValueOf(Q, L), N)
          /\ Within([s \in DOMAIN K |-> d - K[s]], M) = Within([s \in DOMAIN L |-> d - L[s]], N)
    BY <1>9, <2>1, <2>3, LastWithinSame
  <2> QED
    BY <2>4
<1> DEFINE Mom(R, S) == Within(Momentum(R, d, Lookback, Skip), S)
           Only(types, f, S) == IF c.type \in types THEN Within(f, S) ELSE Nobody
           Record(R, S, H, J) ==
             [symbols |-> S,
              momentum |-> Mom(R, S),
              short_momentum |-> Within(Momentum(R, d, 1, 0), S),
              volatility |-> Within(Volatility(R, d), S),
              fundamental |-> Nobody,
              prediction |-> [s \in S |-> IF s \in DOMAIN Mom(R, S) THEN Mom(R, S)[s] ELSE 0],
              surprise |-> Only(EarningsTypes, ValueOf(R, H), S),
              age |-> Only(EarningsTypes, [s \in DOMAIN H |-> d - H[s]], S),
              llm_score |-> Only(StatementTypes, ValueOf(R, J), S),
              cosine |-> Only(TextTypes, CosineOfTexts(c, R, d), S),
              len_change |-> Only(TextTypes, LengthOfTexts(c, R, d), S),
              filings |-> Only(ActivityTypes, FilingCounts(c, R, d), S),
              vix |-> Vix(R, d), spy_above |-> SpyAbove(R, d)]
<1>11. Features(c, P, d) = Record(P, M, A, K) /\ Features(c, Q, d) = Record(Q, N, B, L)
  BY <1>7, <1>9 DEF Features
<1>12. Mom(P, M) = Mom(Q, N)
  BY <1>2
<1>13. /\ Only(EarningsTypes, ValueOf(P, A), M) = Only(EarningsTypes, ValueOf(Q, B), N)
       /\ Only(EarningsTypes, [s \in DOMAIN A |-> d - A[s]], M)
            = Only(EarningsTypes, [s \in DOMAIN B |-> d - B[s]], N)
       /\ Only(StatementTypes, ValueOf(P, K), M) = Only(StatementTypes, ValueOf(Q, L), N)
       /\ Only(TextTypes, CosineOfTexts(c, P, d), M) = Only(TextTypes, CosineOfTexts(c, Q, d), N)
       /\ Only(TextTypes, LengthOfTexts(c, P, d), M) = Only(TextTypes, LengthOfTexts(c, Q, d), N)
       /\ Only(ActivityTypes, FilingCounts(c, P, d), M)
            = Only(ActivityTypes, FilingCounts(c, Q, d), N)
  BY <1>5, <1>6, <1>8, <1>10
<1> HIDE DEF Mom, Only, M, N
<1>14. SameRead(Record(P, M, A, K), Record(Q, N, B, L))
  BY <1>1, <1>4, <1>12, <1>13 DEF SameRead
<1>15. Record(P, M, A, K).short_momentum = Record(Q, N, B, L).short_momentum
  BY <1>3
<1>16. Vix(P, d) = Vix(Q, d) /\ SpyAbove(P, d) = SpyAbove(Q, d)
         => Record(P, M, A, K) = Record(Q, N, B, L)
  BY <1>1, <1>3, <1>4, <1>12, <1>13
<1> HIDE DEF Record
<1> QED
  BY <1>11, <1>14, <1>15, <1>16

(* Every scorer but the rule scorer reads no more than that.               *)
LEMMA SameCandidates ==
  ASSUME NEW c \in ScorerConfig, c.type # "rule", NEW F, NEW G, SameRead(F, G)
  PROVE  CandidatesOf(c, F) = CandidatesOf(c, G)
<1>1. F.symbols = G.symbols
  BY DEF SameRead
<1>2. /\ JTSignal(c, F) = JTSignal(c, G) /\ PEADSignal(c, F) = PEADSignal(c, G)
      /\ EdgarSignal(c, F) = EdgarSignal(c, G) /\ ActivitySignal(F) = ActivitySignal(G)
      /\ LLMSignal(F) = LLMSignal(G) /\ F.prediction = G.prediction
  BY DEF SameRead, JTSignal, PEADSignal, EdgarSignal, ActivitySignal, LLMSignal
<1>3. MLScores(F) = MLScores(G)
  BY <1>1, <1>2 DEF MLScores
<1>4. JTLeg(c, F) = JTLeg(c, G)
  BY <1>1, <1>2 DEF JTLeg
<1>5. ScoreCrossSection(c, F) = ScoreCrossSection(c, G)
  <2> DEFINE Score(syms, ml, leg, jt, pead, llm, edgar, activity) ==
        CASE c.type = "ml" -> ml
          [] c.type = "jt_momentum" -> BinaryScores(syms, jt, c.pct)
          [] c.type = "pead" -> BinaryScores(syms, pead, c.pct)
          [] c.type = "fundamental_llm" -> BinaryScores(syms, llm, c.pct)
          [] c.type = "edgar_textdiff" -> RankScores(c, syms, edgar)
          [] c.type \in {"insider_cluster", "form_8k_event"} -> RankScores(c, syms, activity)
          [] c.type = "pead_jt_intersect" ->
               Intersect(c, syms, {leg, BinaryScores(syms, pead, c.pct)})
          [] c.type = "edgar_textdiff_jt_intersect" ->
               Intersect(c, syms, {leg, RankScores(c, syms, edgar)})
          [] c.type = "fundamental_llm_jt_intersect" ->
               Intersect(c, syms, {leg, BinaryScores(syms, llm, c.pct)})
         Of(H) == Score(H.symbols, MLScores(H), JTLeg(c, H), JTSignal(c, H), PEADSignal(c, H),
                        LLMSignal(H), EdgarSignal(c, H), ActivitySignal(H))
  <2>1. ASSUME NEW H
        PROVE  ScoreCrossSection(c, H) = Of(H)
    <3>1. c.type \in ScorerTypes
      BY DEF ScorerConfig
    <3> QED
      BY <3>1 DEF ScoreCrossSection, ScorerTypes, TextTypes, ActivityTypes, EarningsTypes,
                  StatementTypes
  <2> HIDE DEF Score
  <2>2. Of(F) = Of(G)
    BY <1>1, <1>2, <1>3, <1>4
  <2> QED
    BY <2>1, <2>2
<1> QED
  BY <1>1, <1>5 DEF CandidatesOf

LEMMA SameDayScores ==
  ASSUME NEW c \in ScorerConfig, NEW P, NEW Q, NEW d \in Nat, PanelGood(P), PanelGood(Q),
         SameDay(c, P, Q, d),
         c.type # "rule" \/ (Vix(P, d) = Vix(Q, d) /\ SpyAbove(P, d) = SpyAbove(Q, d))
  PROVE  Candidates(c, P, d) = Candidates(c, Q, d)
<1>1. CASE c.type # "rule"
  BY <1>1, SameFeatures, SameCandidates DEF Candidates
<1>2. CASE Vix(P, d) = Vix(Q, d) /\ SpyAbove(P, d) = SpyAbove(Q, d)
  BY <1>2, SameFeatures DEF Candidates
<1> QED
  BY <1>1, <1>2

-----------------------------------------------------------------------------
(* Histories.  Two that are the same up to a day show the same up to it.   *)
SameUpTo(g, h, d) == d \in Nat /\ d <= Len(g) /\ d <= Len(h) /\ \A x \in 1..d : g[x] = h[x]

LEMMA SameShown ==
  ASSUME NEW g \in Seq(DayType), NEW h \in Seq(DayType), NEW d, SameUpTo(g, h, d),
         NEW s, NEW e \in Int, e <= d
  PROVE  /\ UpTo(BarDays(g, s), e) = UpTo(BarDays(h, s), e)
         /\ UpTo(FilingDays(g, s), e) = UpTo(FilingDays(h, s), e)
         /\ Readable(g, s, UpTo(FilingDays(g, s), e)) = Readable(h, s, UpTo(FilingDays(h, s), e))
<1>1. Len(g) \in Nat /\ Len(h) \in Nat /\ d \in Nat /\ d <= Len(g) /\ d <= Len(h)
  BY DEF SameUpTo
<1>2. ASSUME NEW x \in Int, x <= e
      PROVE  /\ x \in 1..Len(g) <=> x \in 1..Len(h)
             /\ x \in 1..Len(g) => g[x] = h[x]
  <2>1. x \in 1..Len(g) <=> x \in 1..d
    BY <1>1, <1>2
  <2>2. x \in 1..Len(h) <=> x \in 1..d
    BY <1>1, <1>2
  <2> QED
    BY <2>1, <2>2 DEF SameUpTo
<1>3. ASSUME NEW x, x <= e
      PROVE  /\ x \in 1..Len(g) <=> x \in 1..Len(h)
             /\ x \in 1..Len(g) => g[x] = h[x]
  BY <1>2, <1>3
<1> QED
  BY <1>3 DEF UpTo, BarDays, FilingDays, Readable

LEMMA DaysShown ==
  ASSUME NEW h \in Seq(DayType), NEW s
  PROVE  /\ BarDays(h, s) \subseteq 1..Len(h) /\ FilingDays(h, s) \subseteq 1..Len(h)
         /\ 1..Len(h) \subseteq Nat \ {0}
         /\ \A S : S \subseteq 1..Len(h) => IsFiniteSet(S) /\ S \in SUBSET Nat
<1>1. Len(h) \in Nat
  OBVIOUS
<1>2. IsFiniteSet(1..Len(h)) /\ 1..Len(h) \subseteq Nat \ {0}
  <2>1. 1 \in Int /\ Len(h) \in Int
    BY <1>1
  <2>2. IsFiniteSet(1..Len(h))
    BY <2>1, FS_Interval
  <2> QED
    BY <1>1, <2>2
<1> QED
  BY <1>2, FS_Subset DEF BarDays, FilingDays

(* What a panel made from a history holds, whatever its window.            *)
PanelOf(c, h, P) ==
  /\ P.h = h /\ P.symbols \subseteq Symbols /\ P.market \subseteq 1..Len(h)
  /\ \A s \in P.symbols :
       /\ P.bars[s] \subseteq BarDays(h, s) /\ P.filings[s] \subseteq FilingDays(h, s)
       /\ c.type \in TextTypes => P.filings[s] \subseteq Readable(h, s, FilingDays(h, s))
       /\ c.type \in StatementTypes => P.filings[s] = FilingDays(h, s)

LEMMA PrefetchIs ==
  ASSUME NEW c, NEW h, NEW start, NEW end, NEW P, P = Prefetch(c, h, start, end)
  PROVE  /\ P.h = h /\ P.market = (1..Len(h)) \cap (start - Warmup)..end
         /\ P.symbols = {s \in Symbols : BarDays(h, s) \cap (start - Warmup)..end # {}}
         /\ \A s \in P.symbols : /\ P.bars[s] = BarDays(h, s) \cap (start - Warmup)..end
                                 /\ P.filings[s] = FilingsIn(c, h, s, start, end)
BY DEF Prefetch

LEMMA FilingsInAre ==
  ASSUME NEW c \in ScorerConfig, NEW h, NEW s, NEW start, NEW end
  PROVE  /\ FilingsIn(c, h, s, start, end) \subseteq FilingDays(h, s)
         /\ c.type \in TextTypes =>
              FilingsIn(c, h, s, start, end)
                = Readable(h, s, Newest(TextCap, FilingDays(h, s) \cap (start - TextSlack)..end))
         /\ c.type \in ActivityTypes =>
              FilingsIn(c, h, s, start, end)
                = Newest(RecentBlock, FilingDays(h, s))
                    \cap (FilingDays(h, s) \cap (start - ActivitySlack)..end)
         /\ c.type \in EarningsTypes =>
              FilingsIn(c, h, s, start, end) = Newest(EarningsLimit, FilingDays(h, s))
         /\ c.type \in StatementTypes => FilingsIn(c, h, s, start, end) = FilingDays(h, s)
<1>1. /\ c.type \in TextTypes => c.type \notin ActivityTypes \cup EarningsTypes \cup StatementTypes
      /\ c.type \in ActivityTypes => c.type \notin EarningsTypes \cup StatementTypes
      /\ c.type \in EarningsTypes => c.type \notin StatementTypes
  BY DEF TextTypes, ActivityTypes, EarningsTypes, StatementTypes
<1>2. /\ c.type \in TextTypes =>
           FilingsIn(c, h, s, start, end)
             = Readable(h, s, Newest(TextCap, FilingDays(h, s) \cap (start - TextSlack)..end))
      /\ c.type \in ActivityTypes =>
           FilingsIn(c, h, s, start, end)
             = Newest(RecentBlock, FilingDays(h, s))
                 \cap (FilingDays(h, s) \cap (start - ActivitySlack)..end)
      /\ c.type \in EarningsTypes =>
           FilingsIn(c, h, s, start, end) = Newest(EarningsLimit, FilingDays(h, s))
      /\ c.type \notin TextTypes \cup ActivityTypes \cup EarningsTypes =>
           FilingsIn(c, h, s, start, end) = FilingDays(h, s)
  BY <1>1 DEF FilingsIn
<1>3. \A n, S : Newest(n, S) \subseteq S /\ Readable(h, s, S) \subseteq S
  BY DEF Newest, Readable
<1>4. c.type \in StatementTypes => FilingsIn(c, h, s, start, end) = FilingDays(h, s)
  BY <1>1, <1>2
<1>5. FilingsIn(c, h, s, start, end) \subseteq FilingDays(h, s)
  <2>1. CASE c.type \in TextTypes
    <3>1. PICK S : S = FilingDays(h, s) \cap (start - TextSlack)..end
      OBVIOUS
    <3>2. FilingsIn(c, h, s, start, end) = Readable(h, s, Newest(TextCap, S))
      BY <1>2, <2>1, <3>1
    <3>3. Readable(h, s, Newest(TextCap, S)) \subseteq Newest(TextCap, S)
      BY <1>3
    <3>4. Newest(TextCap, S) \subseteq S
      BY <1>3
    <3> QED
      BY <3>1, <3>2, <3>3, <3>4
  <2>2. CASE c.type \in ActivityTypes
    BY <1>2, <2>2
  <2>3. CASE c.type \in EarningsTypes
    BY <1>2, <1>3, <2>3
  <2>4. CASE c.type \notin TextTypes \cup ActivityTypes \cup EarningsTypes
    BY <1>2, <2>4
  <2> QED
    BY <2>1, <2>2, <2>3, <2>4
<1> QED
  BY <1>2, <1>4, <1>5

LEMMA TextFilings ==
  ASSUME NEW c \in ScorerConfig, c.type \in TextTypes, NEW h, NEW s, NEW start, NEW end
  PROVE  FilingsIn(c, h, s, start, end) = Readable(h, s, Newest(TextCap, FilingDays(h, s) \cap (start - TextSlack)..end))
BY DEF FilingsIn, TextTypes, ActivityTypes, EarningsTypes, StatementTypes

LEMMA ActivityFilings ==
  ASSUME NEW c \in ScorerConfig, c.type \in ActivityTypes, NEW h, NEW s, NEW start, NEW end
  PROVE  FilingsIn(c, h, s, start, end) = Newest(RecentBlock, FilingDays(h, s))
              \cap (FilingDays(h, s) \cap (start - ActivitySlack)..end)
BY DEF FilingsIn, TextTypes, ActivityTypes, EarningsTypes, StatementTypes

LEMMA EarningsFilings ==
  ASSUME NEW c \in ScorerConfig, c.type \in EarningsTypes, NEW h, NEW s, NEW start, NEW end
  PROVE  FilingsIn(c, h, s, start, end) = Newest(EarningsLimit, FilingDays(h, s))
BY DEF FilingsIn, TextTypes, ActivityTypes, EarningsTypes, StatementTypes

LEMMA StatementFilings ==
  ASSUME NEW c \in ScorerConfig, c.type \in StatementTypes, NEW h, NEW s, NEW start, NEW end
  PROVE  FilingsIn(c, h, s, start, end) = FilingDays(h, s)
BY DEF FilingsIn, TextTypes, ActivityTypes, EarningsTypes, StatementTypes

LEMMA PrefetchPanel ==
  ASSUME NEW c \in ScorerConfig, NEW h \in Seq(DayType), NEW start, NEW end, NEW P,
         P = Prefetch(c, h, start, end)
  PROVE  PanelOf(c, h, P) /\ PanelGood(P)
<1>1. /\ P.h = h /\ P.market = (1..Len(h)) \cap (start - Warmup)..end
      /\ P.symbols = {s \in Symbols : BarDays(h, s) \cap (start - Warmup)..end # {}}
      /\ \A s \in P.symbols : /\ P.bars[s] = BarDays(h, s) \cap (start - Warmup)..end
                              /\ P.filings[s] = FilingsIn(c, h, s, start, end)
  BY PrefetchIs
<1>2. ASSUME NEW s \in P.symbols
      PROVE  /\ P.bars[s] \subseteq BarDays(h, s) /\ P.filings[s] \subseteq FilingDays(h, s)
             /\ c.type \in TextTypes => P.filings[s] \subseteq Readable(h, s, FilingDays(h, s))
             /\ c.type \in StatementTypes => P.filings[s] = FilingDays(h, s)
  <2>1. c.type \in TextTypes =>
          P.filings[s]
            = Readable(h, s, Newest(TextCap, FilingDays(h, s) \cap (start - TextSlack)..end))
    BY <1>1, TextFilings
  <2>2. c.type \in TextTypes => P.filings[s] \subseteq Readable(h, s, FilingDays(h, s))
    BY <2>1 DEF Readable, Newest
  <2>3. PICK f : f = FilingsIn(c, h, s, start, end) /\ f = P.filings[s]
    BY <1>1
  <2>4. f \subseteq FilingDays(h, s) /\ (c.type \in StatementTypes => f = FilingDays(h, s))
    BY <2>3, FilingsInAre
  <2>5. P.bars[s] \subseteq BarDays(h, s)
    BY <1>1
  <2> QED
    BY <2>2, <2>3, <2>4, <2>5
<1>3. PanelOf(c, h, P)
  BY <1>1, <1>2 DEF PanelOf
<1> QED
  BY <1>1, <1>2, <1>3, DaysShown DEF PanelGood

LEMMA TopJoins ==
  ASSUME NEW X, NEW Y, NEW B, NEW k, SameTop(X, B, k), SameTop(Y, B, k)
  PROVE  SameTop(X, Y, k)
BY DEF SameTop

LEMMA EvidenceIs ==
  ASSUME NEW c \in ScorerConfig, NEW h, NEW s, NEW d
  PROVE  /\ c.type \in TextTypes =>
              Evidence(c, h, s, d)
                = Newest(c.rolling + 1, Readable(h, s, UpTo(FilingDays(h, s), d - c.lag)))
         /\ c.type \in ActivityTypes =>
              Evidence(c, h, s, d) = {x \in UpTo(FilingDays(h, s), d) : x >= d - c.window}
         /\ c.type \in EarningsTypes =>
              Evidence(c, h, s, d) = Newest(1, UpTo(FilingDays(h, s), d - 1))
<1>1. /\ c.type \in TextTypes => c.type \notin ActivityTypes \cup EarningsTypes
      /\ c.type \in ActivityTypes => c.type \notin EarningsTypes
  BY DEF TextTypes, ActivityTypes, EarningsTypes
<1> QED
  BY <1>1 DEF Evidence

(* The bars of a panel that reaches back far enough.                       *)
LEMMA BarsReach ==
  ASSUME NEW c, NEW h \in Seq(DayType), NEW P, PanelOf(c, h, P), NEW d \in Nat, Reaches(c, P, d),
         NEW s \in Symbols, NEW B, B = UpTo(BarDays(h, s), d)
  PROVE  /\ s \in Measured(P, d) <=> Cardinality(B) >= MinBars
         /\ s \in P.symbols => SameTop(UpTo(P.bars[s], d), B, BarsRead)
<1>1. B \in SUBSET Nat /\ IsFiniteSet(B)
  <2>1. PICK S : S = BarDays(h, s) /\ S \subseteq Nat \ {0}
    BY DaysShown
  <2>2. /\ UpTo(S, d) \in SUBSET Nat /\ IsFiniteSet(UpTo(S, d))
        /\ \A x \in UpTo(S, d) : x \in S /\ x \in 1..d /\ x \in Nat
    BY <2>1, UpToDays
  <2> QED
    BY <2>1, <2>2
<1>2. P.h = h
  BY DEF PanelOf
<1>3. IF s \in P.symbols THEN Newest(BarsRead, B) \subseteq P.bars[s] ELSE Newest(BarsRead, B) = {}
  BY <1>2 DEF Reaches
<1>4. MinBars \in Nat /\ MinBars >= 1 /\ MinBars <= BarsRead /\ BarsRead \in Nat
  BY BarsReadIs, SizesAre
<1>5. CASE s \in P.symbols
  <2>1. PICK X : X = UpTo(P.bars[s], d)
    OBVIOUS
  <2>2. P.bars[s] \subseteq BarDays(h, s)
    BY <1>5 DEF PanelOf
  <2>3. X \in SUBSET B
    BY <2>1, <2>2 DEF UpTo
  <2>4. Newest(BarsRead, B) \subseteq X
    <3>1. Newest(BarsRead, B) \subseteq B
      BY DEF Newest
    <3> QED
      BY <1>3, <1>5, <2>1, <3>1 DEF UpTo
  <2>5. SameTop(X, B, BarsRead)
    BY <1>1, <1>4, <2>3, <2>4, TopSame
  <2>6. IsFiniteSet(X)
    BY <1>1, <2>3, FS_Subset
  <2>7. Cardinality(X) >= MinBars <=> Cardinality(B) >= MinBars
    BY <1>1, <1>4, <2>5, <2>6, SameSize
  <2>8. s \in Measured(P, d) <=> Cardinality(X) >= MinBars
    BY <1>5, <2>1 DEF Measured
  <2> QED
    BY <2>1, <2>5, <2>7, <2>8
<1>6. CASE s \notin P.symbols
  <2>1. B = {}
    <3>1. SUFFICES ASSUME B # {} PROVE FALSE
      OBVIOUS
    <3>2. PICK b \in B : b = Back(B, 0) /\ 0 < Cardinality(B)
      BY <1>1, <3>1, MaxIsBack
    <3>3. Cardinality(Above(B, b)) = 0
      BY <1>1, <3>2, BackIs
    <3>4. b \in Newest(BarsRead, B)
      BY <1>4, <3>3 DEF Newest, Above
    <3> QED
      BY <1>3, <1>6, <3>4
  <2>2. Cardinality(B) = 0
    BY <2>1, FS_EmptySet
  <2>3. s \notin Measured(P, d)
    BY <1>6 DEF Measured
  <2> QED
    BY <1>4, <1>6, <2>2, <2>3
<1> QED
  BY <1>5, <1>6

(* Its filings.                                                            *)
LEMMA FilingsReach ==
  ASSUME NEW c \in ScorerConfig, NEW h \in Seq(DayType), NEW P, PanelOf(c, h, P), NEW d \in Nat,
         Reaches(c, P, d), NEW s \in P.symbols
  PROVE  /\ c.type \in TextTypes =>
              SameTop(Public(c, P, s, d), Readable(h, s, UpTo(FilingDays(h, s), d - c.lag)),
                      c.rolling + 1)
         /\ c.type \in EarningsTypes =>
              SameTop(UpTo(P.filings[s], d - 1), UpTo(FilingDays(h, s), d - 1), 1)
         /\ c.type \in ActivityTypes =>
              InWindow(c, P, s, d) = {x \in UpTo(FilingDays(h, s), d) : x >= d - c.window}
         /\ c.type \in StatementTypes =>
              UpTo(P.filings[s], d - StatementLag) = UpTo(FilingDays(h, s), d - StatementLag)
<1>1. /\ P.h = h /\ s \in Symbols /\ P.filings[s] \subseteq FilingDays(h, s)
      /\ c.type \in TextTypes => P.filings[s] \subseteq Readable(h, s, FilingDays(h, s))
      /\ c.type \in StatementTypes => P.filings[s] = FilingDays(h, s)
  BY DEF PanelOf
<1>2. Evidence(c, h, s, d) \subseteq P.filings[s]
  BY <1>1 DEF Reaches
<1>3. FilingDays(h, s) \subseteq Nat \ {0}
  BY DaysShown
<1>4. ASSUME c.type \in TextTypes
      PROVE  SameTop(Public(c, P, s, d), Readable(h, s, UpTo(FilingDays(h, s), d - c.lag)),
                     c.rolling + 1)
  <2>1. PICK e \in Int, k \in Nat : e = d - c.lag /\ k = c.rolling + 1
    BY DEF ScorerConfig
  <2>2. PICK U : U = UpTo(FilingDays(h, s), e)
    OBVIOUS
  <2>3. PICK R : R = Readable(h, s, U)
    OBVIOUS
  <2>4. R \in SUBSET Nat /\ IsFiniteSet(R)
    <3>1. U \in SUBSET Nat /\ IsFiniteSet(U)
      BY <1>3, <2>2, UpToDays
    <3>2. R \subseteq U
      BY <2>3 DEF Readable
    <3> QED
      BY <3>1, <3>2, FS_Subset
  <2>5. PICK X : X = UpTo(P.filings[s], e)
    OBVIOUS
  <2>6. X \in SUBSET R
    BY <1>1, <1>4, <2>2, <2>3, <2>5 DEF UpTo, Readable
  <2>7. Newest(k, R) \subseteq X
    <3>1. Newest(k, R) \subseteq P.filings[s]
      BY <1>2, <1>4, <2>1, <2>2, <2>3, EvidenceIs
    <3>2. Newest(k, R) \subseteq R
      BY DEF Newest
    <3>3. \A x \in R : x <= e
      BY <2>2, <2>3 DEF Readable, UpTo
    <3> QED
      BY <2>5, <3>1, <3>2, <3>3 DEF UpTo
  <2>8. SameTop(X, R, k)
    BY <2>4, <2>6, <2>7, TopSame
  <2> QED
    BY <2>1, <2>2, <2>3, <2>5, <2>8 DEF Public
<1>5. ASSUME c.type \in EarningsTypes
      PROVE  SameTop(UpTo(P.filings[s], d - 1), UpTo(FilingDays(h, s), d - 1), 1)
  <2>1. PICK e \in Int : e = d - 1
    OBVIOUS
  <2>2. PICK R, X : R = UpTo(FilingDays(h, s), e) /\ X = UpTo(P.filings[s], e)
    OBVIOUS
  <2>3. R \in SUBSET Nat /\ IsFiniteSet(R)
    BY <1>3, <2>2, UpToDays
  <2>4. X \in SUBSET R
    BY <1>1, <2>2 DEF UpTo
  <2>5. Newest(1, R) \subseteq X
    <3>1. Newest(1, R) \subseteq P.filings[s]
      BY <1>2, <1>5, <2>1, <2>2, EvidenceIs
    <3>2. Newest(1, R) \subseteq R
      BY DEF Newest
    <3> QED
      BY <2>2, <3>1, <3>2 DEF UpTo
  <2>6. SameTop(X, R, 1)
    BY <2>3, <2>4, <2>5, TopSame
  <2> QED
    BY <2>1, <2>2, <2>6
<1>6. ASSUME c.type \in ActivityTypes
      PROVE  InWindow(c, P, s, d) = {x \in UpTo(FilingDays(h, s), d) : x >= d - c.window}
  <2>1. {x \in UpTo(FilingDays(h, s), d) : x >= d - c.window} \subseteq P.filings[s]
    BY <1>2, <1>6, EvidenceIs
  <2> QED
    BY <1>1, <2>1 DEF InWindow, UpTo
<1> QED
  BY <1>1, <1>4, <1>5, <1>6

(* Two panels that reach back far enough are the same on the day.          *)
LEMMA ReachSame ==
  ASSUME NEW c \in ScorerConfig, NEW g \in Seq(DayType), NEW h \in Seq(DayType), NEW d \in Nat,
         SameUpTo(g, h, d), NEW P, PanelOf(c, g, P), NEW Q, PanelOf(c, h, Q),
         Reaches(c, P, d), Reaches(c, Q, d), SameFilers(c, P, Q)
  PROVE  SameDay(c, P, Q, d)
<1>1. P.symbols \subseteq Symbols /\ Q.symbols \subseteq Symbols /\ P.h = g /\ Q.h = h
  BY DEF PanelOf
<1>2. Measured(P, d) \subseteq P.symbols /\ Measured(Q, d) \subseteq Q.symbols
  BY DEF Measured
<1>3. ASSUME NEW s \in Symbols
      PROVE  /\ s \in Measured(P, d) <=> s \in Measured(Q, d)
             /\ s \in P.symbols /\ s \in Q.symbols =>
                  SameTop(UpTo(P.bars[s], d), UpTo(Q.bars[s], d), BarsRead)
  <2>1. UpTo(BarDays(g, s), d) = UpTo(BarDays(h, s), d)
    BY SameShown
  <2>2. PICK B : B = UpTo(BarDays(g, s), d) /\ B = UpTo(BarDays(h, s), d)
    BY <2>1
  <2>3. /\ s \in Measured(P, d) <=> Cardinality(B) >= MinBars
        /\ s \in P.symbols => SameTop(UpTo(P.bars[s], d), B, BarsRead)
    BY <2>2, BarsReach
  <2>4. /\ s \in Measured(Q, d) <=> Cardinality(B) >= MinBars
        /\ s \in Q.symbols => SameTop(UpTo(Q.bars[s], d), B, BarsRead)
    BY <2>2, BarsReach
  <2> QED
    BY <2>3, <2>4, TopJoins
<1>4. Measured(P, d) = Measured(Q, d)
  BY <1>1, <1>2, <1>3
<1>5. ASSUME NEW s \in Measured(P, d)
      PROVE  SameFilings(c, P, Q, s, d)
  <2>1. s \in P.symbols /\ s \in Q.symbols
    BY <1>2, <1>4
  <2>2. PICK e \in Int, j \in Int : e = d - c.lag /\ e <= d /\ j = d - StatementLag /\ j <= d
    <3>1. c.lag \in Nat /\ StatementLag \in Nat
      BY PanelAssumption DEF ScorerConfig
    <3>2. d - c.lag \in Int /\ d - c.lag <= d /\ d - StatementLag \in Int /\ d - StatementLag <= d
      BY <3>1
    <3> QED
      BY <3>2
  <2>3. /\ Readable(g, s, UpTo(FilingDays(g, s), e)) = Readable(h, s, UpTo(FilingDays(h, s), e))
        /\ UpTo(FilingDays(g, s), j) = UpTo(FilingDays(h, s), j)
    BY <2>2, SameShown
  <2>4. UpTo(FilingDays(g, s), d - 1) = UpTo(FilingDays(h, s), d - 1)
    <3>1. d - 1 \in Int /\ d - 1 <= d
      OBVIOUS
    <3> QED
      BY <3>1, SameShown
  <2>5. UpTo(FilingDays(g, s), d) = UpTo(FilingDays(h, s), d)
    BY SameShown
  <2>6. c.type \in TextTypes => SameTop(Public(c, P, s, d), Public(c, Q, s, d), c.rolling + 1)
    <3>1. SUFFICES ASSUME c.type \in TextTypes
                   PROVE  SameTop(Public(c, P, s, d), Public(c, Q, s, d), c.rolling + 1)
      OBVIOUS
    <3>2. PICK R : /\ R = Readable(g, s, UpTo(FilingDays(g, s), d - c.lag))
                   /\ R = Readable(h, s, UpTo(FilingDays(h, s), d - c.lag))
      BY <2>2, <2>3
    <3>3. SameTop(Public(c, P, s, d), R, c.rolling + 1)
      BY <2>1, <3>1, <3>2, FilingsReach
    <3>4. SameTop(Public(c, Q, s, d), R, c.rolling + 1)
      BY <2>1, <3>1, <3>2, FilingsReach
    <3> QED
      BY <3>3, <3>4, TopJoins
  <2>7. c.type \in EarningsTypes => SameTop(UpTo(P.filings[s], d - 1), UpTo(Q.filings[s], d - 1), 1)
    <3>1. SUFFICES ASSUME c.type \in EarningsTypes
                   PROVE  SameTop(UpTo(P.filings[s], d - 1), UpTo(Q.filings[s], d - 1), 1)
      OBVIOUS
    <3>2. PICK R : R = UpTo(FilingDays(g, s), d - 1) /\ R = UpTo(FilingDays(h, s), d - 1)
      BY <2>4
    <3>3. SameTop(UpTo(P.filings[s], d - 1), R, 1)
      BY <2>1, <3>1, <3>2, FilingsReach
    <3>4. SameTop(UpTo(Q.filings[s], d - 1), R, 1)
      BY <2>1, <3>1, <3>2, FilingsReach
    <3> QED
      BY <3>3, <3>4, TopJoins
  <2>8. c.type \in ActivityTypes => InWindow(c, P, s, d) = InWindow(c, Q, s, d)
    <3>1. SUFFICES ASSUME c.type \in ActivityTypes
                   PROVE  InWindow(c, P, s, d) = InWindow(c, Q, s, d)
      OBVIOUS
    <3>2. InWindow(c, P, s, d) = {x \in UpTo(FilingDays(g, s), d) : x >= d - c.window}
      BY <2>1, <3>1, FilingsReach
    <3>3. InWindow(c, Q, s, d) = {x \in UpTo(FilingDays(h, s), d) : x >= d - c.window}
      BY <2>1, <3>1, FilingsReach
    <3> QED
      BY <2>5, <3>2, <3>3
  <2>9. c.type \in StatementTypes =>
          UpTo(P.filings[s], d - StatementLag) = UpTo(Q.filings[s], d - StatementLag)
    <3>1. SUFFICES ASSUME c.type \in StatementTypes
                   PROVE  UpTo(P.filings[s], d - StatementLag) = UpTo(Q.filings[s], d - StatementLag)
      OBVIOUS
    <3>2. P.filings[s] = FilingDays(g, s) /\ Q.filings[s] = FilingDays(h, s)
      BY <2>1, <3>1 DEF PanelOf
    <3> QED
      BY <2>2, <2>3, <3>2
  <2>10. c.type \in ActivityTypes => ((P.filings[s] = {}) <=> (Q.filings[s] = {}))
    BY <2>1 DEF SameFilers
  <2> QED
    BY <2>6, <2>7, <2>8, <2>9, <2>10 DEF SameFilings
<1> QED
  BY <1>1, <1>2, <1>3, <1>4, <1>5 DEF SameDay, SameUpTo

-----------------------------------------------------------------------------
(* The two paths.  What the paper command computed after a history.        *)
LiveRun(c, h) ==
  LET P == LivePanel(c, h)
      latest == Max(UNION {P.bars[s] : s \in P.symbols})
  IN IF P.symbols = {} \/ Vix(P, latest) < 0
     THEN [ran |-> FALSE, at |-> 0, scores |-> Nobody]
     ELSE [ran |-> TRUE, at |-> latest, scores |-> LiveScores(c, P, latest)]

PanelInv ==
  /\ config \in Configs /\ feed \in Seq(DayType) /\ \E T : live \in Seq(T)
  /\ Len(live) <= Len(feed) /\ Len(feed) <= Len(live) + 1
  /\ \A n \in 1..Len(live) : live[n] = LiveRun(config, SubSeq(feed, 1, n))

LEMMA PrefixIs ==
  ASSUME NEW T, NEW h \in Seq(T), NEW n \in 1..Len(h)
  PROVE  /\ SubSeq(h, 1, n) \in Seq(T) /\ Len(SubSeq(h, 1, n)) = n
         /\ \A x \in 1..n : SubSeq(h, 1, n)[x] = h[x]
         /\ n \in Nat /\ n <= Len(h)
OBVIOUS

LEMMA PrefixKept ==
  ASSUME NEW T, NEW h \in Seq(T), NEW e \in T, NEW n \in 1..Len(h)
  PROVE  SubSeq(Append(h, e), 1, n) = SubSeq(h, 1, n)
OBVIOUS

LEMMA WholePrefix ==
  ASSUME NEW T, NEW h \in Seq(T)
  PROVE  SubSeq(h, 1, Len(h)) = h
OBVIOUS

LEMMA PanelHolds == Spec => []PanelInv
<1>1. Init => PanelInv
  <2> SUFFICES ASSUME Init PROVE PanelInv
    OBVIOUS
  <2>1. config \in Configs /\ feed = <<>> /\ live = <<>>
    BY DEF Init
  <2>2. feed \in Seq(DayType) /\ live \in Seq({}) /\ Len(live) = 0 /\ Len(feed) = 0
    BY <2>1
  <2> QED
    BY <2>1, <2>2 DEF PanelInv
<1>2. ASSUME PanelInv, [Next]_vars
      PROVE  PanelInv'
  <2>1. /\ config \in Configs /\ feed \in Seq(DayType) /\ Len(live) <= Len(feed)
        /\ Len(feed) <= Len(live) + 1 /\ Len(feed) \in Nat
        /\ \A n \in 1..Len(live) : live[n] = LiveRun(config, SubSeq(feed, 1, n))
    BY <1>2 DEF PanelInv
  <2>2. PICK T : live \in Seq(T)
    BY <1>2 DEF PanelInv
  <2>3. Len(live) \in Nat
    BY <2>2
  <2>4. CASE TradingDay
    <3>1. PICK e \in DayType : feed' = Append(feed, e)
      BY <2>1, <2>4, PanelAssumption DEF TradingDay
    <3>2. config' = config /\ live' = live /\ Len(live) = Len(feed)
      BY <2>4 DEF TradingDay
    <3>3. feed' \in Seq(DayType) /\ Len(feed') = Len(feed) + 1
      BY <2>1, <3>1
    <3>4. \A n \in 1..Len(live) : SubSeq(feed', 1, n) = SubSeq(feed, 1, n)
      BY <2>1, <3>1, <3>2, PrefixKept
    <3>5. live' \in Seq(T) /\ Len(live') <= Len(feed') /\ Len(feed') <= Len(live') + 1
      BY <2>1, <2>2, <2>3, <3>2, <3>3
    <3>6. \A n \in 1..Len(live') : live'[n] = LiveRun(config', SubSeq(feed', 1, n))
      BY <2>1, <3>2, <3>4
    <3> QED
      BY <2>1, <3>2, <3>3, <3>5, <3>6 DEF PanelInv
  <2>5. CASE RunLive
    <3>1. PICK x : live' = Append(live, x) /\ x = LiveRun(config, feed)
      BY <2>5 DEF RunLive, LiveRun
    <3>2. config' = config /\ feed' = feed /\ Len(live) < Len(feed)
      BY <2>5 DEF RunLive
    <3>3. live' \in Seq(T \cup {x}) /\ Len(live') = Len(live) + 1
      BY <2>2, <3>1
    <3>4. Len(live') = Len(feed)
      BY <2>1, <2>3, <3>2, <3>3
    <3>5. ASSUME NEW n \in 1..Len(live')
          PROVE  live'[n] = LiveRun(config, SubSeq(feed, 1, n))
      <4>1. CASE n = Len(live) + 1
        <5>1. live'[n] = x
          BY <2>2, <3>1, <4>1
        <5>2. SubSeq(feed, 1, n) = feed
          BY <2>1, <3>3, <3>4, <4>1, WholePrefix
        <5> QED
          BY <3>1, <5>1, <5>2
      <4>2. CASE n # Len(live) + 1
        <5>1. n \in 1..Len(live)
          BY <2>3, <3>3, <4>2
        <5>2. live'[n] = live[n]
          BY <2>2, <3>1, <5>1
        <5> QED
          BY <2>1, <5>1, <5>2
      <4> QED
        BY <4>1, <4>2
    <3> QED
      BY <2>1, <2>3, <3>2, <3>3, <3>4, <3>5 DEF PanelInv
  <2>6. CASE UNCHANGED vars
    BY <1>2, <2>6 DEF PanelInv, vars
  <2> QED
    BY <1>2, <2>4, <2>5, <2>6 DEF Next
<1> QED
  BY <1>1, <1>2, PTL DEF Spec

(* The day it scored is a day of the history.                              *)
LEMMA LiveAt ==
  ASSUME NEW c \in ScorerConfig, NEW h \in Seq(DayType), LiveRun(c, h).ran
  PROVE  /\ LiveRun(c, h).at \in 1..Len(h)
         /\ LiveRun(c, h).scores = Candidates(c, LivePanel(c, h), LiveRun(c, h).at)
<1>1. PICK P : P = LivePanel(c, h)
  OBVIOUS
<1>2. PICK U : U = UNION {P.bars[s] : s \in P.symbols}
  OBVIOUS
<1>3. LiveRun(c, h) = IF P.symbols = {} \/ Vix(P, Max(U)) < 0
                      THEN [ran |-> FALSE, at |-> 0, scores |-> Nobody]
                      ELSE [ran |-> TRUE, at |-> Max(U), scores |-> LiveScores(c, P, Max(U))]
  BY <1>1, <1>2 DEF LiveRun
<1>4. /\ P.symbols # {} /\ LiveRun(c, h).at = Max(U)
      /\ LiveRun(c, h).scores = LiveScores(c, P, Max(U))
  BY <1>3
<1>5. P = Prefetch(c, h, Len(h) - LiveDays, Len(h))
  BY <1>1 DEF LivePanel
<1>6. PICK s \in P.symbols : P.bars[s] # {}
  BY <1>4, <1>5, PrefetchIs
<1>7. \A t \in P.symbols : P.bars[t] \subseteq 1..Len(h)
  <2>1. \A t \in P.symbols : P.bars[t] \subseteq BarDays(h, t)
    BY <1>5, PrefetchPanel DEF PanelOf
  <2> QED
    BY <2>1, DaysShown
<1>8. U # {} /\ U \subseteq 1..Len(h)
  BY <1>2, <1>6, <1>7
<1>9. IsFiniteSet(U) /\ U \in SUBSET Nat
  BY <1>8, DaysShown
<1>10. Max(U) \in U
  BY <1>8, <1>9, MaxIsBack
<1> QED
  BY <1>1, <1>4, <1>8, <1>10 DEF LiveScores

(* For every scorer that ranks windowed features: the scores of a day are  *)
(* the ones a later backtest computes, whatever was filed in between       *)
(* (cli.py:1385).                                                          *)
THEOREM LiveAlwaysMatches == Spec => []LiveMatchesBacktest
<1>1. ASSUME PanelInv
      PROVE  LiveMatchesBacktest
  <2>1. PICK c \in ScorerConfig : c = config
    BY <1>1, PanelAssumption DEF PanelInv
  <2>2. PICK h \in Seq(DayType) : h = feed
    BY <1>1 DEF PanelInv
  <2>3. /\ \A n \in 1..Len(live) : live[n] = LiveRun(c, SubSeq(h, 1, n))
        /\ \A n \in 1..Len(live) : n \in 1..Len(h)
    <3>1. Len(live) \in Nat /\ Len(h) \in Nat /\ Len(live) <= Len(h)
      BY <1>1, <2>2 DEF PanelInv
    <3> QED
      BY <1>1, <2>1, <2>2, <3>1 DEF PanelInv
  <2>4. PICK Q : Q = BacktestPanel(c, h)
    OBVIOUS
  <2>5. PanelOf(c, h, Q) /\ PanelGood(Q)
    BY <2>4, PrefetchPanel DEF BacktestPanel
  <2>6. ASSUME NEW n \in 1..Len(live), NEW P, P = LivePanel(c, SubSeq(h, 1, n)),
               NEW d, d = live[n].at, live[n].ran, c.type # "rule",
               Reaches(c, P, d), Reaches(c, Q, d), SameFilers(c, P, Q)
        PROVE  live[n].scores = Candidates(c, Q, d)
    <3>1. PICK g : g = SubSeq(h, 1, n)
      OBVIOUS
    <3>2. /\ g \in Seq(DayType) /\ Len(g) = n /\ \A x \in 1..n : g[x] = h[x]
          /\ n \in Nat /\ n <= Len(h)
      BY <2>3, <2>6, <3>1, PrefixIs
    <3>3. live[n] = LiveRun(c, g)
      BY <2>3, <2>6, <3>1
    <3>4. d \in 1..n /\ live[n].scores = Candidates(c, P, d)
      <4>1. LiveRun(c, g).ran
        BY <2>6, <3>3
      <4>2. LiveRun(c, g).at \in 1..Len(g)
            /\ LiveRun(c, g).scores = Candidates(c, LivePanel(c, g), LiveRun(c, g).at)
        BY <3>2, <4>1, LiveAt
      <4> QED
        BY <2>6, <3>1, <3>2, <3>3, <4>2
    <3>5. SameUpTo(g, h, d)
      <4>1. d \in Nat /\ d <= n /\ d <= Len(h) /\ 1..d \subseteq 1..n
        BY <3>2, <3>4
      <4> QED
        BY <3>2, <4>1 DEF SameUpTo
    <3>6. PanelOf(c, g, P) /\ PanelGood(P)
      BY <2>6, <3>1, <3>2, PrefetchPanel DEF LivePanel
    <3>7. SameDay(c, P, Q, d)
      BY <2>5, <2>6, <3>2, <3>4, <3>5, <3>6, ReachSame
    <3>8. Candidates(c, P, d) = Candidates(c, Q, d)
      BY <2>5, <2>6, <3>4, <3>6, <3>7, SameDayScores
    <3> QED
      BY <3>4, <3>8
  <2> HIDE DEF BacktestPanel
  <2> QED
    BY <2>1, <2>2, <2>4, <2>6 DEF LiveMatchesBacktest
<1> QED
  BY <1>1, PanelHolds, PTL

-----------------------------------------------------------------------------
(* A day that passes.  The newest of the days from lo on: later ones push  *)
(* out earlier ones, and what stays is an upper end of what there was.     *)
From(S, lo) == {x \in S : x >= lo}

LEMMA NewestGrows ==
  ASSUME NEW B \in SUBSET Nat, IsFiniteSet(B), NEW A \in SUBSET B, NEW n \in Nat, NEW lo \in Int,
         NEW x \in A, x \in Newest(n, From(B, lo))
  PROVE  x \in Newest(n, From(A, lo))
<1>1. PICK S, U : S = From(A, lo) /\ U = From(B, lo)
  OBVIOUS
<1>2. x \in U /\ Cardinality(Above(U, x)) < n
  BY <1>1 DEF Newest, Above
<1>3. x \in S /\ S \subseteq U /\ U \subseteq B
  BY <1>1, <1>2 DEF From
<1>4. IsFiniteSet(U) /\ U \in SUBSET Nat /\ IsFiniteSet(S) /\ S \in SUBSET Nat
  BY <1>3, FS_Subset
<1>5. IsFiniteSet(Above(U, x)) /\ Cardinality(Above(U, x)) \in Nat
  BY <1>2, <1>4, AboveRank
<1>6. Above(S, x) \subseteq Above(U, x)
  BY <1>3 DEF Above
<1>7. Cardinality(Above(S, x)) <= Cardinality(Above(U, x)) /\ Cardinality(Above(S, x)) \in Nat
  BY <1>3, <1>4, <1>5, <1>6, FS_Subset, AboveRank
<1>8. Cardinality(Above(S, x)) < n
  BY <1>2, <1>5, <1>7
<1> QED
  BY <1>1, <1>3, <1>8 DEF Newest, Above

LEMMA UpperEnd ==
  ASSUME NEW A \in SUBSET Nat, IsFiniteSet(A), NEW n \in Nat, NEW lo \in Int, NEW e \in Int,
         NEW T \in SUBSET A, NEW k \in Nat,
         NEW X, X = UpTo(T \cap Newest(n, From(A, lo)), e)
  PROVE  Newest(k, X) \subseteq Newest(k, UpTo(T, e))
<1> SUFFICES ASSUME NEW x \in X, Cardinality(Above(X, x)) < k
             PROVE  x \in UpTo(T, e) /\ Cardinality(Above(UpTo(T, e), x)) < k
  BY DEF Newest, Above
<1>1. PICK S, R : S = From(A, lo) /\ R = UpTo(T, e)
  OBVIOUS
<1>2. S \in SUBSET Nat /\ S \in SUBSET A /\ IsFiniteSet(S)
  BY <1>1, FS_Subset DEF From
<1>3. x \in T /\ x \in S /\ Cardinality(Above(S, x)) < n /\ x <= e /\ x >= lo /\ x \in Nat
  BY <1>1 DEF UpTo, Newest, Above, From
<1>4. X \subseteq R /\ x \in R
  BY <1>1 DEF UpTo
<1>5. ASSUME NEW y \in Above(R, x)
      PROVE  y \in X
  <2>1. y \in T /\ y <= e /\ y > x /\ y \in Nat
    BY <1>1 DEF Above, UpTo
  <2>2. y \in S
    BY <1>1, <1>3, <2>1 DEF From
  <2>3. Cardinality(Above(S, y)) < Cardinality(Above(S, x))
    BY <1>2, <1>3, <2>1, <2>2, RankFalls
  <2>4. Cardinality(Above(S, y)) \in Nat /\ Cardinality(Above(S, x)) \in Nat
    BY <1>2, <1>3, <2>2, AboveRank
  <2>5. Cardinality(Above(S, y)) < n
    BY <1>3, <2>3, <2>4
  <2> QED
    BY <1>1, <2>1, <2>2, <2>5 DEF UpTo, Newest, Above
<1>6. Above(R, x) = Above(X, x)
  BY <1>4, <1>5 DEF Above
<1> QED
  BY <1>1, <1>4, <1>6

LEMMA KeptTop ==
  ASSUME NEW B \in SUBSET Nat, IsFiniteSet(B), NEW A \in SUBSET B, NEW n \in Nat, NEW lo \in Int,
         NEW e \in Int, \A x \in B : x <= e => x \in A,
         NEW V \in SUBSET B, NEW T, T = V \cap A, NEW k \in Nat,
         NEW F, F = T \cap Newest(n, From(A, lo)), NEW G, G = V \cap Newest(n, From(B, lo)),
         Newest(k, UpTo(T, e)) \cap F \subseteq G
  PROVE  SameTop(UpTo(F, e), UpTo(G, e), k)
<1>1. PICK X, Y : X = UpTo(F, e) /\ Y = UpTo(G, e)
  OBVIOUS
<1>2. A \in SUBSET Nat /\ IsFiniteSet(A)
  BY FS_Subset
<1>3. X \in SUBSET A /\ X \in SUBSET Nat
  BY <1>1, <1>2 DEF UpTo
<1>4. IsFiniteSet(X)
  BY <1>2, <1>3, FS_Subset
<1>5. ASSUME NEW y \in Y
      PROVE  y \in X
  <2>1. y \in V /\ y \in Newest(n, From(B, lo)) /\ y <= e
    BY <1>1 DEF UpTo
  <2>2. y \in A
    BY <2>1
  <2>3. y \in Newest(n, From(A, lo))
    BY <2>1, <2>2, NewestGrows
  <2> QED
    BY <1>1, <2>1, <2>2, <2>3 DEF UpTo
<1>6. Newest(k, X) \subseteq Y
  <2>1. T \in SUBSET A
    OBVIOUS
  <2>2. X = UpTo(T \cap Newest(n, From(A, lo)), e)
    BY <1>1
  <2>3. Newest(k, X) \subseteq Newest(k, UpTo(T, e))
    BY <1>2, <2>1, <2>2, UpperEnd
  <2>4. Newest(k, X) \subseteq X
    BY DEF Newest
  <2>5. X \subseteq F /\ \A x \in X : x <= e
    BY <1>1 DEF UpTo
  <2>6. Newest(k, X) \subseteq G
    BY <2>3, <2>4, <2>5
  <2> QED
    BY <1>1, <2>4, <2>5, <2>6 DEF UpTo
<1>7. Y \in SUBSET X
  BY <1>5
<1>8. SameTop(Y, X, k)
  BY <1>3, <1>4, <1>6, <1>7, TopSame
<1> QED
  BY <1>1, <1>8 DEF SameTop

(* The days a later history adds come after.                               *)
LEMMA LaterDays ==
  ASSUME NEW h \in Seq(DayType), NEW e \in DayType, NEW h2, h2 = Append(h, e), NEW s
  PROVE  /\ h2 \in Seq(DayType) /\ Len(h2) = Len(h) + 1 /\ Len(h) \in Nat
         /\ SameUpTo(h, h2, Len(h))
         /\ FilingDays(h, s) \subseteq FilingDays(h2, s)
         /\ \A x \in FilingDays(h2, s) : x <= Len(h) => x \in FilingDays(h, s)
         /\ BarDays(h, s) \subseteq BarDays(h2, s)
         /\ \A x \in BarDays(h2, s) : x <= Len(h) => x \in BarDays(h, s)
<1>1. h2 \in Seq(DayType) /\ Len(h2) = Len(h) + 1 /\ Len(h) \in Nat
  OBVIOUS
<1>2. \A x \in 1..Len(h) : h[x] = h2[x]
  OBVIOUS
<1>3. SameUpTo(h, h2, Len(h))
  BY <1>1, <1>2 DEF SameUpTo
<1>4. \A x \in 1..Len(h) : x \in 1..Len(h2)
  BY <1>1
<1>5. \A x \in 1..Len(h2) : x <= Len(h) => x \in 1..Len(h)
  BY <1>1
<1> QED
  BY <1>1, <1>2, <1>3, <1>4, <1>5 DEF FilingDays, BarDays

LEMMA NextDayFilings ==
  ASSUME NEW c \in ScorerConfig, NEW h \in Seq(DayType), NEW e \in DayType,
         NEW h2, h2 = Append(h, e), NEW P, P = BacktestPanel(c, h), NEW Q, Q = BacktestPanel(c, h2),
         NEW d \in Nat, d <= Len(h), Kept(c, P, Q, d), SameFilers(c, P, Q),
         NEW s \in P.symbols, s \in Q.symbols
  PROVE  SameFilings(c, P, Q, s, d)
<1>1. PICK A, B : A = FilingDays(h, s) /\ B = FilingDays(h2, s)
  OBVIOUS
<1>2. /\ h2 \in Seq(DayType) /\ Len(h2) = Len(h) + 1 /\ Len(h) \in Nat
      /\ SameUpTo(h, h2, Len(h))
      /\ A \subseteq B /\ \A x \in B : x <= Len(h) => x \in A
  BY <1>1, LaterDays
<1>3. /\ A \subseteq 1..Len(h) /\ A \in SUBSET Nat /\ IsFiniteSet(A)
      /\ B \subseteq 1..Len(h2) /\ B \in SUBSET Nat /\ IsFiniteSet(B) /\ A \in SUBSET B
  BY <1>1, <1>2, DaysShown
<1>4. \A x \in A : h2[x] = h[x]
  BY <1>2, <1>3 DEF SameUpTo
<1>5. PICK F, G : F = P.filings[s] /\ G = Q.filings[s]
  OBVIOUS
<1>6. /\ P = Prefetch(c, h, BtStart, Len(h)) /\ Q = Prefetch(c, h2, BtStart, Len(h2))
  BY DEF BacktestPanel
<1>7. /\ F = FilingsIn(c, h, s, BtStart, Len(h)) /\ G = FilingsIn(c, h2, s, BtStart, Len(h2))
      /\ P.h = h /\ Q.h = h2
  <2>1. P.h = h /\ P.filings[s] = FilingsIn(c, h, s, BtStart, Len(h))
    BY <1>6 DEF Prefetch
  <2>2. Q.h = h2 /\ Q.filings[s] = FilingsIn(c, h2, s, BtStart, Len(h2))
    BY <1>6 DEF Prefetch
  <2> QED
    BY <1>5, <2>1, <2>2
<1>8. Evidence(c, h, s, d) \cap F \subseteq G
  BY <1>5, <1>7 DEF Kept
<1>9. /\ BtStart \in Nat /\ TextSlack \in Nat /\ ActivitySlack \in Nat /\ TextCap \in Nat
      /\ RecentBlock \in Nat /\ EarningsLimit \in Nat /\ StatementLag \in Nat
  BY SizesAre
<1>10. ASSUME c.type \in TextTypes
       PROVE  SameTop(Public(c, P, s, d), Public(c, Q, s, d), c.rolling + 1)
  <2>1. PICK b \in Int, k \in Nat, lo \in Int :
          b = d - c.lag /\ b <= d /\ k = c.rolling + 1 /\ lo = BtStart - TextSlack
    <3>1. c.lag \in Nat /\ c.rolling \in Nat
      BY DEF ScorerConfig
    <3>2. d - c.lag \in Int /\ d - c.lag <= d /\ c.rolling + 1 \in Nat /\ BtStart - TextSlack \in Int
      BY <1>9, <3>1
    <3> QED
      BY <3>2
  <2>2. PICK T, V : T = {x \in A : h[x].filed[s] > 0} /\ V = {x \in B : h2[x].filed[s] > 0}
    OBVIOUS
  <2>3. V \in SUBSET B /\ T = V \cap A
    BY <1>2, <1>4, <2>2
  <2>4. /\ From(A, lo) = A \cap lo..Len(h)
        /\ From(B, lo) = B \cap lo..Len(h2)
    <3>1. \A x \in A : x \in Nat /\ x <= Len(h)
      BY <1>3
    <3>2. \A x \in B : x \in Nat /\ x <= Len(h2)
      BY <1>3
    <3>3. \A x \in A : x >= lo <=> x \in lo..Len(h)
      BY <1>2, <3>1
    <3>4. \A x \in B : x >= lo <=> x \in lo..Len(h2)
      BY <1>2, <3>2
    <3> QED
      BY <3>3, <3>4 DEF From
  <2>5. F = T \cap Newest(TextCap, From(A, lo))
    <3>1. F = Readable(h, s, Newest(TextCap, A \cap lo..Len(h)))
      BY <1>1, <1>7, <1>10, <2>1, TextFilings
    <3>2. Newest(TextCap, From(A, lo)) \subseteq A
      BY DEF Newest, From
    <3> QED
      BY <2>2, <2>4, <3>1, <3>2 DEF Readable
  <2>6. G = V \cap Newest(TextCap, From(B, lo))
    <3>1. G = Readable(h2, s, Newest(TextCap, B \cap lo..Len(h2)))
      BY <1>1, <1>7, <1>10, <2>1, TextFilings
    <3>2. Newest(TextCap, From(B, lo)) \subseteq B
      BY DEF Newest, From
    <3> QED
      BY <2>2, <2>4, <3>1, <3>2 DEF Readable
  <2>7. Newest(k, UpTo(T, b)) \cap F \subseteq G
    <3>1. UpTo(T, b) = Readable(h, s, UpTo(A, b))
      BY <2>2 DEF UpTo, Readable
    <3>2. Evidence(c, h, s, d) = Newest(k, UpTo(T, b))
      BY <1>1, <1>10, <2>1, <3>1, EvidenceIs
    <3> QED
      BY <1>8, <3>2
  <2>8. \A x \in B : x <= b => x \in A
    <3>1. \A x \in B : x \in Nat
      BY <1>3
    <3>2. \A x \in B : x <= b => x <= Len(h)
      BY <1>2, <2>1, <3>1
    <3> QED
      BY <1>2, <3>2
  <2>9. SameTop(UpTo(F, b), UpTo(G, b), k)
    BY <1>3, <1>9, <2>3, <2>5, <2>6, <2>7, <2>8, KeptTop
  <2> QED
    BY <1>5, <2>1, <2>9 DEF Public
<1>11. From(A, 0) = A /\ From(B, 0) = B
  <2>1. \A x \in B : x \in Nat /\ x >= 0
    BY <1>3
  <2> QED
    BY <1>2, <2>1 DEF From
<1>12. ASSUME c.type \in EarningsTypes
       PROVE  SameTop(UpTo(F, d - 1), UpTo(G, d - 1), 1)
  <2>1. PICK b \in Int : b = d - 1 /\ b <= d
    OBVIOUS
  <2>2. Newest(EarningsLimit, A) \subseteq A /\ Newest(EarningsLimit, B) \subseteq B
    BY DEF Newest
  <2>3. F = A \cap Newest(EarningsLimit, From(A, 0)) /\ G = B \cap Newest(EarningsLimit, From(B, 0))
    <3>1. F = Newest(EarningsLimit, A)
      BY <1>1, <1>7, <1>12, EarningsFilings
    <3>2. G = Newest(EarningsLimit, B)
      BY <1>1, <1>7, <1>12, EarningsFilings
    <3> QED
      BY <1>11, <2>2, <3>1, <3>2
  <2>4. Newest(1, UpTo(A, b)) \cap F \subseteq G
    <3>1. Evidence(c, h, s, d) = Newest(1, UpTo(A, b))
      BY <1>1, <1>12, <2>1, EvidenceIs
    <3> QED
      BY <1>8, <3>1
  <2>5. \A x \in B : x <= b => x \in A
    <3>1. \A x \in B : x \in Nat
      BY <1>3
    <3>2. \A x \in B : x <= b => x <= Len(h)
      BY <1>2, <2>1, <3>1
    <3> QED
      BY <1>2, <3>2
  <2>6. A = B \cap A /\ B \in SUBSET B /\ 1 \in Nat /\ 0 \in Int
    BY <1>2
  <2>7. SameTop(UpTo(F, b), UpTo(G, b), 1)
    BY <1>3, <1>9, <2>3, <2>4, <2>5, <2>6, KeptTop
  <2> QED
    BY <2>1, <2>7
<1>13. ASSUME c.type \in ActivityTypes
       PROVE  InWindow(c, P, s, d) = InWindow(c, Q, s, d)
  <2>1. PICK lo \in Int : lo = BtStart - ActivitySlack
    <3>1. BtStart - ActivitySlack \in Int
      BY <1>9
    <3> QED
      BY <3>1
  <2>2. /\ F = Newest(RecentBlock, A) \cap (A \cap lo..Len(h))
        /\ G = Newest(RecentBlock, B) \cap (B \cap lo..Len(h2))
    <3>1. F = Newest(RecentBlock, A) \cap (A \cap lo..Len(h))
      BY <1>1, <1>7, <1>13, <2>1, ActivityFilings
    <3>2. G = Newest(RecentBlock, B) \cap (B \cap lo..Len(h2))
      BY <1>1, <1>7, <1>13, <2>1, ActivityFilings
    <3> QED
      BY <3>1, <3>2
  <2>3. ASSUME NEW x \in InWindow(c, P, s, d)
        PROVE  x \in InWindow(c, Q, s, d)
    <3>1. x \in F /\ x <= d /\ x >= d - c.window
      BY <1>5 DEF InWindow, UpTo
    <3>2. x \in Evidence(c, h, s, d)
      <4>1. Evidence(c, h, s, d) = {y \in UpTo(A, d) : y >= d - c.window}
        BY <1>1, <1>13, EvidenceIs
      <4> QED
        BY <2>2, <3>1, <4>1 DEF UpTo
    <3> QED
      BY <1>5, <1>8, <3>1, <3>2 DEF InWindow, UpTo
  <2>4. ASSUME NEW x \in InWindow(c, Q, s, d)
        PROVE  x \in InWindow(c, P, s, d)
    <3>1. x \in G /\ x <= d /\ x >= d - c.window
      BY <1>5 DEF InWindow, UpTo
    <3>2. x \in B /\ x \in Newest(RecentBlock, From(B, 0)) /\ x \in lo..Len(h2) /\ x \in Nat
      BY <1>3, <1>11, <2>2, <3>1
    <3>3. x \in A /\ x <= Len(h)
      BY <1>2, <3>1, <3>2
    <3>4. x \in Newest(RecentBlock, A)
      BY <1>3, <1>9, <1>11, <3>2, <3>3, NewestGrows
    <3>5. x \in lo..Len(h)
      BY <1>2, <3>2, <3>3
    <3> QED
      BY <1>5, <2>2, <3>1, <3>3, <3>4, <3>5 DEF InWindow, UpTo
  <2> QED
    BY <2>3, <2>4 DEF InWindow
<1>14. ASSUME c.type \in StatementTypes
       PROVE  UpTo(F, d - StatementLag) = UpTo(G, d - StatementLag)
  <2>1. F = A /\ G = B
    <3>1. F = A
      BY <1>1, <1>7, <1>14, StatementFilings
    <3>2. G = B
      BY <1>1, <1>7, <1>14, StatementFilings
    <3> QED
      BY <3>1, <3>2
  <2>2. \A x \in B : x <= d - StatementLag => x \in A
    <3>1. \A x \in B : x \in Nat
      BY <1>3
    <3>2. \A x \in B : x <= d - StatementLag => x <= Len(h)
      BY <1>2, <1>9, <3>1
    <3> QED
      BY <1>2, <3>2
  <2> QED
    BY <1>2, <2>1, <2>2 DEF UpTo
<1>15. c.type \in ActivityTypes => ((F = {}) <=> (G = {}))
  BY <1>5 DEF SameFilers
<1> QED
  BY <1>5, <1>10, <1>12, <1>13, <1>14, <1>15 DEF SameFilings

SameBars(P, Q, d) ==
  /\ Measured(P, d) = Measured(Q, d)
  /\ \A s \in Measured(P, d) : UpTo(P.bars[s], d) = UpTo(Q.bars[s], d)
  /\ UpTo(P.market, d) = UpTo(Q.market, d)

LEMMA NextDayBars ==
  ASSUME NEW c \in ScorerConfig, NEW h \in Seq(DayType), NEW e \in DayType,
         NEW h2, h2 = Append(h, e), NEW P, P = BacktestPanel(c, h), NEW Q, Q = BacktestPanel(c, h2),
         NEW d \in Nat, d <= Len(h)
  PROVE  SameBars(P, Q, d)
<1>1. PICK lo \in Int : lo = BtStart - Warmup
  <2>1. BtStart - Warmup \in Int
    BY SizesAre
  <2> QED
    BY <2>1
<1>2. PICK L \in Nat : L = Len(h) /\ Len(h2) = L + 1
  BY LaterDays
<1>3. /\ P.h = h /\ P.market = (1..L) \cap lo..L
      /\ P.symbols = {s \in Symbols : BarDays(h, s) \cap lo..L # {}}
      /\ \A s \in P.symbols : P.bars[s] = BarDays(h, s) \cap lo..L
  BY <1>1, <1>2 DEF BacktestPanel, Prefetch
<1>4. /\ Q.h = h2 /\ Q.market = (1..(L + 1)) \cap lo..(L + 1)
      /\ Q.symbols = {s \in Symbols : BarDays(h2, s) \cap lo..(L + 1) # {}}
      /\ \A s \in Q.symbols : Q.bars[s] = BarDays(h2, s) \cap lo..(L + 1)
  BY <1>1, <1>2 DEF BacktestPanel, Prefetch
<1>5. d <= L
  BY <1>2
<1>6. ASSUME NEW s
      PROVE  UpTo(BarDays(h, s) \cap lo..L, d) = UpTo(BarDays(h2, s) \cap lo..(L + 1), d)
  <2>1. PICK A, B : A = BarDays(h, s) /\ B = BarDays(h2, s)
    OBVIOUS
  <2>2. A \subseteq B /\ \A x \in B : x <= L => x \in A
    BY <1>2, <2>1, LaterDays
  <2>3. \A x \in B : x \in Nat
    <3>1. h2 \in Seq(DayType)
      BY LaterDays
    <3> QED
      BY <2>1, <3>1, DaysShown
  <2>4. \A x \in B : x <= d => (x \in A /\ (x \in lo..L <=> x \in lo..(L + 1)))
    BY <1>5, <2>2, <2>3
  <2> QED
    BY <2>1, <2>2, <2>4 DEF UpTo
<1>7. UpTo(P.market, d) = UpTo(Q.market, d)
  <2>1. \A x \in Int : x <= d => (x \in (1..L) \cap lo..L <=> x \in (1..(L + 1)) \cap lo..(L + 1))
    BY <1>5
  <2>2. \A x \in (1..(L + 1)) \cap lo..(L + 1) : x \in Int
    OBVIOUS
  <2>3. \A x \in (1..L) \cap lo..L : x \in Int
    OBVIOUS
  <2> QED
    BY <1>3, <1>4, <2>1, <2>2, <2>3 DEF UpTo
<1>8. ASSUME NEW s \in Symbols
      PROVE  /\ s \in Measured(P, d) <=> s \in Measured(Q, d)
             /\ s \in Measured(P, d) => UpTo(P.bars[s], d) = UpTo(Q.bars[s], d)
  <2>1. PICK C, D, X : /\ C = BarDays(h, s) \cap lo..L /\ D = BarDays(h2, s) \cap lo..(L + 1)
                       /\ X = UpTo(C, d) /\ X = UpTo(D, d)
    BY <1>6
  <2>2. /\ s \in P.symbols <=> C # {}
        /\ s \in Q.symbols <=> D # {}
        /\ s \in P.symbols => P.bars[s] = C
        /\ s \in Q.symbols => Q.bars[s] = D
    BY <1>3, <1>4, <2>1
  <2>3. Cardinality(X) >= MinBars => C # {} /\ D # {}
    <3>1. MinBars \in Nat /\ MinBars >= 1
      BY SizesAre
    <3>2. X = {} => Cardinality(X) = 0
      BY FS_EmptySet
    <3>3. X \subseteq C /\ X \subseteq D
      BY <2>1 DEF UpTo
    <3>4. Cardinality(X) >= MinBars => X # {}
      BY <3>1, <3>2
    <3> QED
      BY <3>3, <3>4
  <2>4. s \in Measured(P, d) <=> Cardinality(X) >= MinBars
    BY <2>1, <2>2, <2>3 DEF Measured
  <2>5. s \in Measured(Q, d) <=> Cardinality(X) >= MinBars
    BY <2>1, <2>2, <2>3 DEF Measured
  <2> QED
    BY <2>1, <2>2, <2>3, <2>4, <2>5
<1>9. Measured(P, d) \subseteq Symbols /\ Measured(Q, d) \subseteq Symbols
  BY <1>3, <1>4 DEF Measured
<1>10. Measured(P, d) = Measured(Q, d)
  BY <1>8, <1>9
<1> QED
  BY <1>7, <1>8, <1>9, <1>10 DEF SameBars

LEMMA MarketSame ==
  ASSUME NEW P, NEW Q, NEW d \in Nat, PanelGood(P), UpTo(P.market, d) = UpTo(Q.market, d),
         \A x \in 1..d : P.h[x] = Q.h[x]
  PROVE  Vix(P, d) = Vix(Q, d) /\ SpyAbove(P, d) = SpyAbove(Q, d)
<1>1. PICK S : S = UpTo(P.market, d) /\ S = UpTo(Q.market, d)
  OBVIOUS
<1>2. S \in SUBSET Nat /\ IsFiniteSet(S) /\ \A x \in S : x \in 1..d
  BY <1>1, UpToDays DEF PanelGood
<1>3. \A x \in S : P.h[x] = Q.h[x]
  BY <1>2
<1>4. PICK U : U = {x \in S : P.h[x].vix > 0} /\ U = {x \in S : Q.h[x].vix > 0}
  BY <1>3
<1>5. U # {} => Max(U) \in U
  <2>1. U \in SUBSET Nat /\ IsFiniteSet(U)
    BY <1>2, <1>4, FS_Subset
  <2> QED
    BY <2>1, MaxIsBack
<1>6. Vix(P, d) = IF U = {} THEN -1 ELSE P.h[Max(U)].vix
  BY <1>1, <1>4 DEF Vix
<1>7. Vix(Q, d) = IF U = {} THEN -1 ELSE Q.h[Max(U)].vix
  BY <1>1, <1>4 DEF Vix
<1>8. Vix(P, d) = Vix(Q, d)
  <2>1. U # {} => P.h[Max(U)] = Q.h[Max(U)]
    BY <1>3, <1>4, <1>5
  <2> QED
    BY <1>6, <1>7, <2>1
<1> DEFINE Closes(R) == [x \in Newest(SpyPeriod, S) |-> R.h[x].spy]
           Trend(R) == IF Cardinality(S) < SpyPeriod THEN -1
                       ELSE IF SpyPeriod * R.h[Max(S)].spy > SumOf(Closes(R)) THEN 1 ELSE 0
<1>9. SpyAbove(P, d) = Trend(P) /\ SpyAbove(Q, d) = Trend(Q)
  BY <1>1 DEF SpyAbove
<1>10. Closes(P) = Closes(Q)
  BY <1>3 DEF Newest
<1>11. Cardinality(S) < SpyPeriod \/ P.h[Max(S)] = Q.h[Max(S)]
  <2>1. SpyPeriod \in Nat /\ SpyPeriod >= 1
    BY SizesAre
  <2>2. S = {} => Cardinality(S) = 0
    BY FS_EmptySet
  <2>3. S # {} => Max(S) \in S
    BY <1>2, MaxIsBack
  <2>4. S = {} => Cardinality(S) < SpyPeriod
    BY <2>1, <2>2
  <2> QED
    BY <1>3, <2>3, <2>4
<1> HIDE DEF Closes
<1>12. Trend(P) = Trend(Q)
  BY <1>10, <1>11
<1> QED
  BY <1>8, <1>9, <1>12

(* A day that passes changes no score of an earlier day, unless a newer    *)
(* filing pushes out one that was read or a symbol files for the first     *)
(* time (extractor.py:3).                                                  *)
THEOREM NeverRepaints == Spec => NoRepaint
<1> DEFINE Repaints == LET P == BacktestPanel(config, feed)
                           Q == BacktestPanel(config, feed')
                       IN \A d \in BtStart..Len(feed) :
                            Kept(config, P, Q, d) /\ SameFilers(config, P, Q) =>
                              Candidates(config, P, d) = Candidates(config, Q, d)
<1>1. ASSUME PanelInv, [Next]_vars
      PROVE  [Repaints]_feed
  <2>1. CASE TradingDay
    <3>1. PICK c \in ScorerConfig : c = config
      BY <1>1, PanelAssumption DEF PanelInv
    <3>2. PICK h \in Seq(DayType) : h = feed
      BY <1>1 DEF PanelInv
    <3>3. PICK e \in DayType : feed' = Append(h, e)
      BY <1>1, <2>1, <3>2, PanelAssumption DEF TradingDay, PanelInv
    <3>4. PICK h2 : h2 = feed' /\ h2 = Append(h, e)
      BY <3>3
    <3>5. PICK P, Q : P = BacktestPanel(c, h) /\ Q = BacktestPanel(c, h2)
      OBVIOUS
    <3>6. ASSUME NEW d \in BtStart..Len(h), Kept(c, P, Q, d), SameFilers(c, P, Q)
          PROVE  Candidates(c, P, d) = Candidates(c, Q, d)
      <4>1. /\ h2 \in Seq(DayType) /\ Len(h) \in Nat
            /\ \A x \in 1..Len(h) : h[x] = h2[x]
        BY <3>4, LaterDays DEF SameUpTo
      <4>2. d \in Nat /\ d <= Len(h) /\ 1..d \subseteq 1..Len(h)
        BY <3>6, <4>1, PanelAssumption
      <4>3. PanelOf(c, h, P) /\ PanelGood(P) /\ PanelOf(c, h2, Q) /\ PanelGood(Q)
        BY <3>5, <4>1, PrefetchPanel DEF BacktestPanel
      <4>4. \A x \in 1..d : P.h[x] = Q.h[x]
        BY <4>1, <4>2, <4>3 DEF PanelOf
      <4>5. /\ Measured(P, d) = Measured(Q, d)
            /\ \A s \in Measured(P, d) : UpTo(P.bars[s], d) = UpTo(Q.bars[s], d)
            /\ UpTo(P.market, d) = UpTo(Q.market, d)
        <5>1. SameBars(P, Q, d)
          BY <3>4, <3>5, <4>2, NextDayBars
        <5> QED
          BY <5>1 DEF SameBars
      <4>6. \A s \in Measured(P, d) : s \in P.symbols /\ s \in Q.symbols
        BY <4>5 DEF Measured
      <4>7. \A s \in Measured(P, d) : SameFilings(c, P, Q, s, d)
        BY <3>4, <3>5, <3>6, <4>2, <4>6, NextDayFilings
      <4>8. \A s \in Measured(P, d) : SameTop(UpTo(P.bars[s], d), UpTo(Q.bars[s], d), BarsRead)
        BY <4>5 DEF SameTop
      <4>9. SameDay(c, P, Q, d)
        BY <4>4, <4>5, <4>7, <4>8 DEF SameDay
      <4>10. Vix(P, d) = Vix(Q, d) /\ SpyAbove(P, d) = SpyAbove(Q, d)
        BY <4>2, <4>3, <4>4, <4>5, MarketSame
      <4> QED
        BY <4>2, <4>3, <4>9, <4>10, SameDayScores
    <3> QED
      BY <3>1, <3>2, <3>4, <3>5, <3>6
  <2>2. CASE RunLive
    BY <2>2 DEF RunLive
  <2>3. CASE UNCHANGED vars
    BY <2>3 DEF vars
  <2> QED
    BY <1>1, <2>1, <2>2, <2>3 DEF Next
<1>2. NoRepaint <=> [][Repaints]_feed
  BY DEF NoRepaint
<1> HIDE DEF Repaints
<1> QED
  BY <1>1, <1>2, PanelHolds, PTL DEF Spec

-----------------------------------------------------------------------------
(* Columns of numbers.  A feature has a value for some of the symbols.     *)
IsInts(f) == \A s \in DOMAIN f : f[s] \in Int
IsColumn(f, M) == DOMAIN f \subseteq M /\ IsInts(f)

LEMMA ColumnWithin ==
  ASSUME NEW f, NEW M, \A s \in DOMAIN f \cap M : f[s] \in Int
  PROVE  IsColumn(Within(f, M), M)
BY DEF IsColumn, IsInts, Within

LEMMA NobodyColumn ==
  ASSUME NEW M
  PROVE  IsColumn(Nobody, M)
BY DEF IsColumn, IsInts, Nobody

LEMMA SumOfType ==
  ASSUME NEW f, IsFiniteSet(DOMAIN f), IsInts(f)
  PROVE  SumOf(f) \in Int
<1>1. SumOf(f) = Total(f, DOMAIN f)
  BY DEF SumOf, Total
<1>2. \A x \in DOMAIN f : f[x] \in Int
  BY DEF IsInts
<1> QED
  BY <1>1, <1>2, TotalType

(* A rank of a day's bars or filings is one of them.                       *)
LEMMA BarsUpTo ==
  ASSUME NEW c \in ScorerConfig, NEW h \in Seq(DayType), NEW P, PanelOf(c, h, P), NEW d \in Nat,
         NEW s \in P.symbols, NEW X, X = UpTo(P.bars[s], d)
  PROVE  X \in SUBSET Nat /\ IsFiniteSet(X) /\ X \subseteq P.bars[s]
<1>1. PICK S : S = P.bars[s] /\ S \subseteq Nat \ {0}
  BY DaysShown DEF PanelOf
<1>2. /\ UpTo(S, d) \in SUBSET Nat /\ IsFiniteSet(UpTo(S, d))
      /\ \A x \in UpTo(S, d) : x \in S /\ x \in 1..d /\ x \in Nat
  BY <1>1, UpToDays
<1>3. X = UpTo(S, d)
  BY <1>1
<1> QED
  BY <1>1, <1>2, <1>3

LEMMA BarAt ==
  ASSUME NEW c \in ScorerConfig, NEW h \in Seq(DayType), NEW P, PanelOf(c, h, P), NEW d \in Nat,
         NEW s \in P.symbols, NEW k \in Nat, k < Cardinality(UpTo(P.bars[s], d))
  PROVE  P.h[Back(UpTo(P.bars[s], d), k)].close[s] \in Nat \ {0}
<1>1. P.h = h /\ s \in Symbols /\ P.bars[s] \subseteq BarDays(h, s)
  BY DEF PanelOf
<1>2. PICK X : X = UpTo(P.bars[s], d)
  OBVIOUS
<1>3. X \in SUBSET Nat /\ IsFiniteSet(X) /\ X \subseteq P.bars[s]
  BY <1>2, BarsUpTo
<1>4. Back(X, k) \in X
  BY <1>2, <1>3, BackIs
<1>5. PICK x \in BarDays(h, s) : x = Back(X, k)
  BY <1>1, <1>3, <1>4
<1>6. x \in 1..Len(h) /\ h[x].close[s] > 0
  BY DEF BarDays
<1>7. h[x] \in DayType
  BY <1>6
<1>8. h[x].close[s] \in Nat
  BY <1>1, <1>7 DEF DayType
<1> QED
  BY <1>1, <1>2, <1>5, <1>6, <1>8

LEMMA FilingAt ==
  ASSUME NEW c \in ScorerConfig, NEW h \in Seq(DayType), NEW P, PanelOf(c, h, P),
         NEW s \in P.symbols, NEW x \in P.filings[s]
  PROVE  /\ P.h[x].filed[s] \in Int
         /\ c.type \in TextTypes => P.h[x].filed[s] \in Nat \ {0}
<1>1. /\ P.h = h /\ s \in Symbols /\ P.filings[s] \subseteq FilingDays(h, s)
      /\ c.type \in TextTypes => P.filings[s] \subseteq Readable(h, s, FilingDays(h, s))
  BY DEF PanelOf
<1>2. x \in 1..Len(h) /\ (c.type \in TextTypes => h[x].filed[s] > 0)
  BY <1>1 DEF FilingDays, Readable
<1>3. h[x] \in DayType
  BY <1>2
<1>4. h[x].filed[s] \in Int
  BY <1>1, <1>3 DEF DayType
<1> QED
  BY <1>1, <1>2, <1>4

SomeFilings(P, s, X) == X \in SUBSET Nat /\ IsFiniteSet(X) /\ X \subseteq P.filings[s]

LEMMA FilingsUpTo ==
  ASSUME NEW c \in ScorerConfig, NEW h \in Seq(DayType), NEW P, PanelOf(c, h, P),
         NEW s \in P.symbols, NEW e \in Int
  PROVE  SomeFilings(P, s, UpTo(P.filings[s], e))
<1>1. PICK S : S = P.filings[s] /\ S \subseteq Nat \ {0}
  BY DaysShown DEF PanelOf
<1>2. /\ UpTo(S, e) \in SUBSET Nat /\ IsFiniteSet(UpTo(S, e))
      /\ \A x \in UpTo(S, e) : x \in S /\ x \in 1..e /\ x \in Nat
  BY <1>1, UpToDays
<1> QED
  BY <1>1, <1>2 DEF SomeFilings

LEMMA MomentumInts ==
  ASSUME NEW c \in ScorerConfig, NEW h \in Seq(DayType), NEW P, PanelOf(c, h, P), NEW d \in Nat,
         NEW lb \in Nat, NEW sk \in Nat
  PROVE  IsInts(Momentum(P, d, lb, sk))
<1> SUFFICES ASSUME NEW s \in DOMAIN Momentum(P, d, lb, sk)
             PROVE  Momentum(P, d, lb, sk)[s] \in Int
  BY DEF IsInts
<1>1. PICK X : X = UpTo(P.bars[s], d)
  OBVIOUS
<1>2. s \in P.symbols /\ Cardinality(X) >= lb + sk + 1
  BY <1>1 DEF Momentum
<1>3. IsFiniteSet(X)
  BY <1>1, <1>2, BarsUpTo
<1>4. lb + sk \in Nat /\ lb + sk < Cardinality(X) /\ sk < Cardinality(X)
  BY <1>2, <1>3, FS_CardinalityType
<1>5. PICK b \in Nat \ {0} : b = P.h[Back(X, lb + sk)].close[s]
  BY <1>1, <1>2, <1>4, BarAt
<1>6. PICK a \in Nat \ {0} : a = P.h[Back(X, sk)].close[s]
  BY <1>1, <1>2, <1>4, BarAt
<1>7. Momentum(P, d, lb, sk)[s] = (100 * (a - b)) \div b
  BY <1>1, <1>5, <1>6 DEF Momentum
<1>8. 100 * (a - b) \in Int /\ (100 * (a - b)) \div b \in Int
  OBVIOUS
<1> QED
  BY <1>7, <1>8

LEMMA VolatilityInts ==
  ASSUME NEW c \in ScorerConfig, NEW h \in Seq(DayType), NEW P, PanelOf(c, h, P), NEW d \in Nat
  PROVE  IsInts(Volatility(P, d))
<1> SUFFICES ASSUME NEW s \in DOMAIN Volatility(P, d)
             PROVE  Volatility(P, d)[s] \in Int
  BY DEF IsInts
<1>1. PICK X : X = UpTo(P.bars[s], d)
  OBVIOUS
<1>2. s \in P.symbols /\ Cardinality(X) >= VolWindow + 1
  BY <1>1 DEF Volatility
<1>3. IsFiniteSet(X)
  BY <1>1, <1>2, BarsUpTo
<1>4. Cardinality(X) \in Nat /\ VolWindow \in Nat
  BY <1>3, FS_CardinalityType, SizesAre
<1> DEFINE Moves == [k \in 0..VolWindow - 1 |->
                       Abs(P.h[Back(X, k)].close[s] - P.h[Back(X, k + 1)].close[s])]
<1>5. Volatility(P, d)[s] = SumOf(Moves)
  BY <1>1 DEF Volatility
<1>6. ASSUME NEW k \in 0..VolWindow - 1
      PROVE  Moves[k] \in Int
  <2>1. k \in Nat /\ k < Cardinality(X) /\ k + 1 \in Nat /\ k + 1 < Cardinality(X)
    BY <1>2, <1>4
  <2>2. P.h[Back(X, k)].close[s] \in Nat \ {0}
    BY <1>1, <1>2, <2>1, BarAt
  <2>3. P.h[Back(X, k + 1)].close[s] \in Nat \ {0}
    BY <1>1, <1>2, <2>1, BarAt
  <2>4. \A a, b \in Nat : Abs(a - b) \in Int
    BY DEF Abs
  <2> QED
    BY <2>2, <2>3, <2>4
<1>7. IsFiniteSet(0..VolWindow - 1)
  <2>1. 0 \in Int /\ VolWindow - 1 \in Int
    BY <1>4
  <2> QED
    BY <2>1, FS_Interval
<1>8. IsInts(Moves) /\ DOMAIN Moves = 0..VolWindow - 1
  BY <1>6 DEF IsInts
<1> HIDE DEF Moves
<1> QED
  BY <1>5, <1>7, <1>8, SumOfType

LEMMA ValueInts ==
  ASSUME NEW c \in ScorerConfig, NEW h \in Seq(DayType), NEW P, PanelOf(c, h, P), NEW e \in Int
  PROVE  IsInts(ValueOf(P, LastFiling(P, e)))
<1> SUFFICES ASSUME NEW s \in DOMAIN ValueOf(P, LastFiling(P, e))
             PROVE  ValueOf(P, LastFiling(P, e))[s] \in Int
  BY DEF IsInts
<1>1. PICK X : X = UpTo(P.filings[s], e)
  OBVIOUS
<1>2. s \in P.symbols /\ X # {} /\ ValueOf(P, LastFiling(P, e))[s] = P.h[Max(X)].filed[s]
  BY <1>1 DEF ValueOf, LastFiling
<1>3. X \in SUBSET Nat /\ IsFiniteSet(X) /\ X \subseteq P.filings[s]
  <2>1. SomeFilings(P, s, UpTo(P.filings[s], e))
    BY <1>2, FilingsUpTo
  <2> QED
    BY <1>1, <2>1 DEF SomeFilings
<1>4. PICK x \in P.filings[s] : x = Max(X)
  BY <1>2, <1>3, MaxIsBack
<1> QED
  BY <1>2, <1>4, FilingAt

LEMMA CosineInts ==
  ASSUME NEW c \in ScorerConfig, NEW h \in Seq(DayType), NEW P, PanelOf(c, h, P), NEW d \in Nat
  PROVE  IsInts(CosineOfTexts(c, P, d))
<1> SUFFICES ASSUME NEW s \in DOMAIN CosineOfTexts(c, P, d)
             PROVE  CosineOfTexts(c, P, d)[s] \in Int
  BY DEF IsInts
<1>1. PICK X : X = Public(c, P, s, d)
  OBVIOUS
<1>2. s \in P.symbols /\ Cardinality(X) >= 2
  BY <1>1 DEF CosineOfTexts
<1>3. X \in SUBSET Nat /\ IsFiniteSet(X) /\ X \subseteq P.filings[s]
  <2>1. PICK e \in Int : e = d - c.lag
    BY DEF ScorerConfig
  <2>2. X = UpTo(P.filings[s], e)
    BY <1>1, <2>1 DEF Public
  <2>3. SomeFilings(P, s, UpTo(P.filings[s], e))
    BY <1>2, FilingsUpTo
  <2> QED
    BY <2>2, <2>3 DEF SomeFilings
<1>4. PICK r \in Nat \ {0} : r = c.rolling
  BY DEF ScorerConfig
<1>5. PICK p \in 1..r : p = Min({r, Cardinality(X) - 1}) /\ p < Cardinality(X)
  <2>1. SameTop(X, X, r + 1)
    BY DEF SameTop
  <2> QED
    BY <1>2, <1>3, <2>1, PairsSame
<1> DEFINE Likeness == [k \in 0..p - 1 |->
                          Cosine(P.h[Back(X, k)].filed[s], P.h[Back(X, k + 1)].filed[s])]
<1>6. CosineOfTexts(c, P, d)[s] = SumOf(Likeness) \div p
  BY <1>1, <1>4, <1>5 DEF CosineOfTexts
<1>7. ASSUME NEW k \in 0..p - 1
      PROVE  Likeness[k] \in Int
  <2>1. /\ Cardinality(X) \in Nat /\ k \in Nat /\ k < Cardinality(X)
        /\ k + 1 \in Nat /\ k + 1 < Cardinality(X)
    BY <1>3, <1>5, FS_CardinalityType
  <2>2. PICK x \in P.filings[s] : x = Back(X, k)
    BY <1>3, <2>1, BackIs
  <2>3. PICK y \in P.filings[s] : y = Back(X, k + 1)
    BY <1>3, <2>1, BackIs
  <2>4. P.h[x].filed[s] \in Int /\ P.h[y].filed[s] \in Int
    BY <1>2, FilingAt
  <2>5. \A a, b \in Int : Cosine(a, b) \in Int
    BY DEF Cosine, Abs
  <2> QED
    BY <2>2, <2>3, <2>4, <2>5
<1>8. IsFiniteSet(0..p - 1)
  <2>1. 0 \in Int /\ p - 1 \in Int
    OBVIOUS
  <2> QED
    BY <2>1, FS_Interval
<1>9. IsInts(Likeness) /\ DOMAIN Likeness = 0..p - 1
  BY <1>7 DEF IsInts
<1> HIDE DEF Likeness
<1>10. SumOf(Likeness) \in Int
  BY <1>8, <1>9, SumOfType
<1>11. p \in Nat \ {0}
  OBVIOUS
<1> QED
  BY <1>6, <1>10, <1>11

LEMMA LengthInts ==
  ASSUME NEW c \in ScorerConfig, NEW h \in Seq(DayType), NEW P, PanelOf(c, h, P), NEW d \in Nat,
         c.type \in TextTypes
  PROVE  IsInts(LengthOfTexts(c, P, d))
<1> SUFFICES ASSUME NEW s \in DOMAIN LengthOfTexts(c, P, d)
             PROVE  LengthOfTexts(c, P, d)[s] \in Int
  BY DEF IsInts
<1>1. PICK X : X = Public(c, P, s, d)
  OBVIOUS
<1>2. s \in P.symbols /\ Cardinality(X) >= 2
  BY <1>1 DEF LengthOfTexts
<1>3. X \in SUBSET Nat /\ IsFiniteSet(X) /\ X \subseteq P.filings[s]
  <2>1. PICK e \in Int : e = d - c.lag
    BY DEF ScorerConfig
  <2>2. X = UpTo(P.filings[s], e)
    BY <1>1, <2>1 DEF Public
  <2>3. SomeFilings(P, s, UpTo(P.filings[s], e))
    BY <1>2, FilingsUpTo
  <2> QED
    BY <2>2, <2>3 DEF SomeFilings
<1>4. 0 < Cardinality(X) /\ 1 < Cardinality(X)
  BY <1>2, <1>3, FS_CardinalityType
<1>5. PICK x \in P.filings[s] : x = Back(X, 0)
  BY <1>3, <1>4, BackIs
<1>6. PICK y \in P.filings[s] : y = Back(X, 1)
  BY <1>3, <1>4, BackIs
<1>7. PICK a \in Nat \ {0} : a = P.h[x].filed[s]
  BY <1>2, FilingAt
<1>8. PICK b \in Nat \ {0} : b = P.h[y].filed[s]
  BY <1>2, FilingAt
<1>9. LengthOfTexts(c, P, d)[s] = (100 * (a - b)) \div b
  BY <1>1, <1>5, <1>6, <1>7, <1>8 DEF LengthOfTexts, LengthChange
<1>10. 100 * (a - b) \in Int /\ (100 * (a - b)) \div b \in Int
  OBVIOUS
<1> QED
  BY <1>9, <1>10

LEMMA CountInts ==
  ASSUME NEW c \in ScorerConfig, NEW h \in Seq(DayType), NEW P, PanelOf(c, h, P), NEW d \in Nat
  PROVE  IsInts(FilingCounts(c, P, d))
<1> SUFFICES ASSUME NEW s \in DOMAIN FilingCounts(c, P, d)
             PROVE  FilingCounts(c, P, d)[s] \in Int
  BY DEF IsInts
<1> DEFINE Counted == [x \in InWindow(c, P, s, d) |-> P.h[x].filed[s]]
<1>1. s \in P.symbols /\ FilingCounts(c, P, d)[s] = SumOf(Counted)
  BY DEF FilingCounts, InWindow
<1>2. PICK X : X = UpTo(P.filings[s], d)
  OBVIOUS
<1>3. IsFiniteSet(X) /\ X \subseteq P.filings[s]
  <2>1. d \in Int
    OBVIOUS
  <2>2. SomeFilings(P, s, UpTo(P.filings[s], d))
    BY <1>1, <2>1, FilingsUpTo
  <2> QED
    BY <1>2, <2>2 DEF SomeFilings
<1>4. DOMAIN Counted \subseteq X
  BY <1>2 DEF InWindow
<1>5. IsInts(Counted)
  BY <1>1, <1>3, <1>4, FilingAt DEF IsInts
<1>6. IsFiniteSet(DOMAIN Counted)
  BY <1>3, <1>4, FS_Subset
<1> HIDE DEF Counted
<1> QED
  BY <1>1, <1>5, <1>6, SumOfType

(* Every feature is a column over the measured symbols.                    *)
FeaturesOK(F) ==
  /\ F.symbols \in SUBSET Nat /\ IsFiniteSet(F.symbols)
  /\ IsColumn(F.momentum, F.symbols) /\ IsColumn(F.short_momentum, F.symbols)
  /\ IsColumn(F.volatility, F.symbols) /\ IsColumn(F.fundamental, F.symbols)
  /\ IsColumn(F.prediction, F.symbols) /\ DOMAIN F.prediction = F.symbols
  /\ IsColumn(F.surprise, F.symbols) /\ IsColumn(F.llm_score, F.symbols)
  /\ IsColumn(F.cosine, F.symbols) /\ IsColumn(F.len_change, F.symbols)
  /\ IsColumn(F.filings, F.symbols)

LEMMA FeaturesAreOK ==
  ASSUME NEW c \in ScorerConfig, NEW h \in Seq(DayType), NEW P, PanelOf(c, h, P), NEW d \in Nat
  PROVE  FeaturesOK(Features(c, P, d))
<1>1. PICK M : M = Measured(P, d)
  OBVIOUS
<1>2. M \in SUBSET Nat /\ IsFiniteSet(M)
  <2>1. M \subseteq Symbols
    BY <1>1 DEF Measured, PanelOf
  <2> QED
    BY <2>1, PanelAssumption, FS_Subset
<1> DEFINE Only(types, f) == IF c.type \in types THEN Within(f, M) ELSE Nobody
           Mom == Within(Momentum(P, d, Lookback, Skip), M)
<1>3. IsColumn(Mom, M) /\ IsColumn(Within(Momentum(P, d, 1, 0), M), M)
  <2>1. Lookback \in Nat /\ Skip \in Nat /\ 1 \in Nat /\ 0 \in Nat
    BY SizesAre
  <2>2. IsInts(Momentum(P, d, Lookback, Skip)) /\ IsInts(Momentum(P, d, 1, 0))
    BY <2>1, MomentumInts
  <2> QED
    BY <2>2, ColumnWithin DEF IsInts
<1>4. IsColumn(Within(Volatility(P, d), M), M)
  BY VolatilityInts, ColumnWithin DEF IsInts
<1>5. ASSUME NEW types, NEW f, c.type \in types => IsInts(f)
      PROVE  IsColumn(Only(types, f), M)
  <2>1. IsColumn(Nobody, M)
    BY NobodyColumn
  <2>2. c.type \in types => IsColumn(Within(f, M), M)
    BY <1>5, ColumnWithin DEF IsInts
  <2> QED
    BY <2>1, <2>2
<1>6. PICK last : last = LastFiling(P, d - 1)
  OBVIOUS
<1>7. PICK stated : stated = LastFiling(P, d - StatementLag)
  OBVIOUS
<1>8. IsColumn(Only(EarningsTypes, ValueOf(P, last)), M)
  <2>1. d - 1 \in Int
    OBVIOUS
  <2>2. IsInts(ValueOf(P, last))
    BY <1>6, <2>1, ValueInts
  <2> QED
    BY <1>5, <2>2
<1>9. IsColumn(Only(StatementTypes, ValueOf(P, stated)), M)
  <2>1. d - StatementLag \in Int
    BY SizesAre
  <2>2. IsInts(ValueOf(P, stated))
    BY <1>7, <2>1, ValueInts
  <2> QED
    BY <1>5, <2>2
<1>10. IsColumn(Only(TextTypes, CosineOfTexts(c, P, d)), M)
  BY <1>5, CosineInts
<1>11. IsColumn(Only(TextTypes, LengthOfTexts(c, P, d)), M)
  BY <1>5, LengthInts
<1>12. IsColumn(Only(ActivityTypes, FilingCounts(c, P, d)), M)
  BY <1>5, CountInts
<1>13. PICK F : F = Features(c, P, d)
  OBVIOUS
<1>14. /\ F.symbols = M /\ F.momentum = Mom /\ F.short_momentum = Within(Momentum(P, d, 1, 0), M)
       /\ F.volatility = Within(Volatility(P, d), M) /\ F.fundamental = Nobody
       /\ F.prediction = [s \in M |-> IF s \in DOMAIN Mom THEN Mom[s] ELSE 0]
       /\ F.surprise = Only(EarningsTypes, ValueOf(P, last))
       /\ F.llm_score = Only(StatementTypes, ValueOf(P, stated))
       /\ F.cosine = Only(TextTypes, CosineOfTexts(c, P, d))
       /\ F.len_change = Only(TextTypes, LengthOfTexts(c, P, d))
       /\ F.filings = Only(ActivityTypes, FilingCounts(c, P, d))
  BY <1>1, <1>6, <1>7, <1>13 DEF Features
<1> HIDE DEF Only, Mom
<1>15. DOMAIN F.prediction = M /\ IsColumn(F.prediction, M)
  BY <1>3, <1>14 DEF IsColumn, IsInts
<1> QED
  BY <1>2, <1>3, <1>4, <1>8, <1>9, <1>10, <1>11, <1>12, <1>13, <1>14, <1>15, NobodyColumn
     DEF FeaturesOK

-----------------------------------------------------------------------------
(* Ranking by a signal.  The sort is a total order of those who have one.  *)
LEMMA MaxOfTwo ==
  ASSUME NEW a \in Int, NEW b \in Int
  PROVE  Max({a, b}) = IF a >= b THEN a ELSE b
<1>1. \E x \in {a, b} : \A y \in {a, b} : x >= y
  BY a <= b \/ b <= a
<1>2. Max({a, b}) \in {a, b} /\ \A y \in {a, b} : Max({a, b}) >= y
  BY <1>1 DEF Max
<1>3. PICK m \in {a, b} : m = Max({a, b}) /\ m >= a /\ m >= b
  BY <1>2
<1> QED
  BY <1>3

LEMMA AheadIs ==
  ASSUME NEW M \in SUBSET Nat, IsFiniteSet(M), NEW sig, IsColumn(sig, M), NEW x \in DOMAIN sig
  PROVE  /\ IsFiniteSet(Ahead(sig, x)) /\ Cardinality(Ahead(sig, x)) \in Nat
         /\ IsFiniteSet(Behind(sig, x)) /\ Cardinality(Behind(sig, x)) \in Nat
<1>1. Ahead(sig, x) \subseteq M /\ Behind(sig, x) \subseteq M
  BY DEF Ahead, Behind, IsColumn
<1> QED
  BY <1>1, FS_Subset, FS_CardinalityType

(* A strict order of finitely many has a first.                            *)
LEMMA FirstExists ==
  ASSUME NEW D, IsFiniteSet(D), D # {}, NEW R,
         \A x \in D : R[x] \subseteq D /\ x \notin R[x] /\ \A y \in R[x] : R[y] \subseteq R[x]
  PROVE  \E x \in D : R[x] = {}
<1> DEFINE Ranks == {Cardinality(R[x]) : x \in D}
<1>1. \A x \in D : IsFiniteSet(R[x]) /\ Cardinality(R[x]) \in Nat
  BY FS_Subset, FS_CardinalityType
<1>2. Ranks \subseteq Nat /\ Ranks # {}
  BY <1>1
<1>3. PICK r \in Ranks : \A q \in Ranks : r <= q
  BY <1>2, LeastNat
<1>4. PICK x \in D : r = Cardinality(R[x])
  BY <1>3
<1>5. ASSUME NEW y \in R[x]
      PROVE  FALSE
  <2>1. y \in D /\ y \notin R[y] /\ R[y] \cup {y} \subseteq R[x]
    OBVIOUS
  <2>2. Cardinality(R[y] \cup {y}) = Cardinality(R[y]) + 1
    BY <1>1, <2>1, FS_AddElement
  <2>3. Cardinality(R[y] \cup {y}) <= Cardinality(R[x])
    BY <1>1, <2>1, FS_Subset
  <2>4. Cardinality(R[y]) \in Ranks
    BY <2>1
  <2>5. Cardinality(R[y]) \in Nat /\ Cardinality(R[x]) \in Nat
    BY <1>1, <2>1
  <2> QED
    BY <1>3, <1>4, <2>2, <2>3, <2>4, <2>5
<1> QED
  BY <1>5

LEMMA TopExists ==
  ASSUME NEW M \in SUBSET Nat, IsFiniteSet(M), NEW sig, IsColumn(sig, M), DOMAIN sig # {}
  PROVE  /\ \E x \in DOMAIN sig : Ahead(sig, x) = {}
         /\ \E x \in DOMAIN sig : Behind(sig, x) = DOMAIN sig \ {x}
<1> DEFINE After(x) == {t \in DOMAIN sig : sig[t] > sig[x] \/ (sig[t] = sig[x] /\ t > x)}
           R == [x \in DOMAIN sig |-> Ahead(sig, x)]
           Q == [x \in DOMAIN sig |-> After(x)]
<1>1. \A z \in DOMAIN sig : z \in Nat /\ sig[z] \in Int
  BY DEF IsColumn, IsInts
<1>2. IsFiniteSet(DOMAIN sig)
  BY FS_Subset DEF IsColumn
<1>3. ASSUME NEW x \in DOMAIN sig
      PROVE  R[x] \subseteq DOMAIN sig /\ x \notin R[x] /\ \A y \in R[x] : R[y] \subseteq R[x]
  BY <1>1 DEF Ahead
<1>4. ASSUME NEW x \in DOMAIN sig
      PROVE  Q[x] \subseteq DOMAIN sig /\ x \notin Q[x] /\ \A y \in Q[x] : Q[y] \subseteq Q[x]
  BY <1>1
<1> HIDE DEF R, Q
<1>5. PICK x \in DOMAIN sig : R[x] = {}
  BY <1>2, <1>3, FirstExists
<1>6. PICK w \in DOMAIN sig : Q[w] = {}
  BY <1>2, <1>4, FirstExists
<1>7. \A z \in DOMAIN sig : z \in Behind(sig, w) <=> z # w
  <2>1. SUFFICES ASSUME NEW z \in DOMAIN sig PROVE z \in Behind(sig, w) <=> z # w
    OBVIOUS
  <2>2. ~(sig[z] > sig[w] \/ (sig[z] = sig[w] /\ z > w))
    BY <1>6 DEF Q
  <2>3. z \in Nat /\ w \in Nat /\ sig[z] \in Int /\ sig[w] \in Int
    BY <1>1
  <2>4. (sig[z] < sig[w] \/ (sig[z] = sig[w] /\ z < w)) <=> z # w
    BY <2>2, <2>3
  <2> QED
    BY <2>4 DEF Behind
<1>8. Behind(sig, w) = DOMAIN sig \ {w}
  BY <1>7 DEF Behind
<1>9. Ahead(sig, x) = {}
  BY <1>5 DEF R
<1> QED
  BY <1>8, <1>9

(* A score that follows one signal over the symbols of M.                  *)
RanksBy(sig, M, sc) ==
  /\ DOMAIN sc = M /\ \A s \in M : sc[s] \in Nat
  /\ \A s, t \in M : s \in DOMAIN sig /\ (t \in DOMAIN sig => sig[s] > sig[t]) => sc[s] >= sc[t]
  /\ \A s \in M : s \notin DOMAIN sig => sc[s] = 0
  /\ DOMAIN sig # {} => \E s \in DOMAIN sig : sc[s] > 0

LEMMA BinaryRanks ==
  ASSUME NEW M \in SUBSET Nat, IsFiniteSet(M), NEW sig, IsColumn(sig, M), NEW pct \in Nat
  PROVE  RanksBy(sig, M, BinaryScores(M, sig, pct))
<1>1. PICK chosen : chosen = Selected(sig, pct)
  OBVIOUS
<1>2. PICK sc : sc = BinaryScores(M, sig, pct) /\ sc = [s \in M |-> IF s \in chosen THEN High ELSE 0]
  BY <1>1 DEF BinaryScores
<1>3. PICK n \in Nat : n >= 1 /\ chosen = {s \in DOMAIN sig : Cardinality(Ahead(sig, s)) < n}
  <2>1. Cardinality(DOMAIN sig) \in Nat
    BY FS_Subset, FS_CardinalityType DEF IsColumn
  <2>2. PICK m \in Int : m = (Cardinality(DOMAIN sig) * pct) \div 100
    BY <2>1
  <2>3. Max({1, m}) = IF 1 >= m THEN 1 ELSE m
    BY MaxOfTwo
  <2>4. Max({1, m}) \in Nat /\ Max({1, m}) >= 1
    BY <2>3
  <2> QED
    BY <1>1, <2>2, <2>4 DEF Selected
<1>4. \A z \in DOMAIN sig : z \in Nat /\ sig[z] \in Int /\ z \in M
  BY DEF IsColumn, IsInts
<1>5. ASSUME NEW s \in DOMAIN sig, NEW t \in chosen, sig[s] > sig[t]
      PROVE  s \in chosen
  <2>1. t \in DOMAIN sig /\ Cardinality(Ahead(sig, t)) < n
    BY <1>3
  <2>2. Ahead(sig, s) \subseteq Ahead(sig, t)
    BY <1>4, <1>5, <2>1 DEF Ahead
  <2>3. /\ IsFiniteSet(Ahead(sig, t)) /\ Cardinality(Ahead(sig, t)) \in Nat
        /\ Cardinality(Ahead(sig, s)) \in Nat
    BY <2>1, AheadIs
  <2>4. Cardinality(Ahead(sig, s)) <= Cardinality(Ahead(sig, t))
    BY <2>2, <2>3, FS_Subset
  <2> QED
    BY <1>3, <2>1, <2>3, <2>4
<1>6. chosen \subseteq DOMAIN sig
  BY <1>3
<1>7. ASSUME DOMAIN sig # {}
      PROVE  \E s \in DOMAIN sig : sc[s] > 0
  <2>1. PICK x \in DOMAIN sig : Ahead(sig, x) = {}
    BY <1>7, TopExists
  <2>2. Cardinality(Ahead(sig, x)) = 0
    BY <2>1, FS_EmptySet
  <2>3. x \in chosen
    BY <1>3, <2>2
  <2> QED
    BY <1>2, <1>4, <2>3 DEF High
<1>8. /\ DOMAIN sc = M /\ \A s \in M : sc[s] \in Nat
      /\ \A s \in M : s \notin DOMAIN sig => sc[s] = 0
  BY <1>2, <1>6 DEF High
<1>9. ASSUME NEW s \in M, NEW t \in M, s \in DOMAIN sig, t \in DOMAIN sig => sig[s] > sig[t]
      PROVE  sc[s] >= sc[t]
  BY <1>2, <1>5, <1>6, <1>9 DEF High
<1> QED
  BY <1>2, <1>7, <1>8, <1>9 DEF RanksBy

LEMMA DivGrows ==
  ASSUME NEW a \in Int, NEW d \in Int, NEW b \in Nat \ {0}, a <= d
  PROVE  a \div b <= d \div b /\ a \div b \in Int /\ d \div b \in Int
OBVIOUS

LEMMA PercentileRanks ==
  ASSUME NEW M \in SUBSET Nat, IsFiniteSet(M), NEW sig, IsColumn(sig, M)
  PROVE  RanksBy(sig, M, PercentileScores(M, sig))
<1>1. PICK n \in Nat : n = Cardinality(DOMAIN sig)
  BY FS_Subset, FS_CardinalityType DEF IsColumn
<1>2. PICK sc : /\ sc = PercentileScores(M, sig)
                /\ sc = [s \in M |-> IF s \notin DOMAIN sig THEN 0
                                     ELSE IF n = 1 THEN Neutral
                                     ELSE (100 * Cardinality(Behind(sig, s))) \div (n - 1)]
  BY <1>1 DEF PercentileScores
<1>3. \A z \in DOMAIN sig : z \in Nat /\ sig[z] \in Int /\ z \in M
  BY DEF IsColumn, IsInts
<1>4. IsFiniteSet(DOMAIN sig) /\ (DOMAIN sig # {} => n \in Nat \ {0})
  <2>1. IsFiniteSet(DOMAIN sig)
    BY FS_Subset DEF IsColumn
  <2> QED
    BY <1>1, <2>1, FS_EmptySet
<1>5. ASSUME NEW s \in DOMAIN sig, n # 1
      PROVE  /\ sc[s] = (100 * Cardinality(Behind(sig, s))) \div (n - 1)
             /\ n - 1 \in Nat \ {0} /\ 100 * Cardinality(Behind(sig, s)) \in Nat
             /\ sc[s] \in Nat
  <2>1. n - 1 \in Nat \ {0}
    BY <1>4, <1>5
  <2>2. PICK b \in Nat : b = Cardinality(Behind(sig, s))
    BY AheadIs
  <2>3. 100 * b \in Nat /\ (100 * b) \div (n - 1) \in Nat
    BY <2>1
  <2> QED
    BY <1>2, <1>3, <1>5, <2>1, <2>2, <2>3
<1>6. /\ DOMAIN sc = M /\ \A s \in M : sc[s] \in Nat
      /\ \A s \in M : s \notin DOMAIN sig => sc[s] = 0
      /\ \A s \in DOMAIN sig : n = 1 => sc[s] = 50
  BY <1>2, <1>3, <1>5 DEF Neutral
<1>7. ASSUME NEW s \in M, NEW t \in M, s \in DOMAIN sig, t \in DOMAIN sig => sig[s] > sig[t]
      PROVE  sc[s] >= sc[t]
  <2>1. CASE t \notin DOMAIN sig
    BY <1>6, <2>1
  <2>2. CASE n = 1
    BY <1>6, <1>7, <2>2
  <2>3. CASE t \in DOMAIN sig /\ n # 1
    <3>1. Behind(sig, t) \subseteq Behind(sig, s)
      BY <1>3, <1>7, <2>3 DEF Behind
    <3>2. PICK a \in Nat, b \in Nat : a = Cardinality(Behind(sig, t)) /\ b = Cardinality(Behind(sig, s))
      BY <1>7, <2>3, AheadIs
    <3>3. a <= b
      BY <1>7, <3>1, <3>2, AheadIs, FS_Subset
    <3>4. n - 1 \in Nat \ {0} /\ sc[s] = (100 * b) \div (n - 1) /\ sc[t] = (100 * a) \div (n - 1)
      BY <1>5, <1>7, <2>3, <3>2
    <3>5. 100 * a \in Int /\ 100 * b \in Int /\ 100 * a <= 100 * b
      BY <3>3
    <3>6. (100 * a) \div (n - 1) <= (100 * b) \div (n - 1)
      BY <3>4, <3>5, DivGrows
    <3> QED
      BY <1>6, <3>4, <3>6
  <2> QED
    BY <2>1, <2>2, <2>3
<1>8. ASSUME DOMAIN sig # {}
      PROVE  \E s \in DOMAIN sig : sc[s] > 0
  <2>1. CASE n = 1
    BY <1>6, <1>8, <2>1
  <2>2. CASE n # 1
    <3>1. PICK x \in DOMAIN sig : Behind(sig, x) = DOMAIN sig \ {x}
      BY <1>8, TopExists
    <3>2. Cardinality(Behind(sig, x)) = n - 1
      BY <1>1, <1>4, <3>1, FS_RemoveElement
    <3>3. n - 1 \in Nat \ {0} /\ sc[x] = (100 * (n - 1)) \div (n - 1)
      BY <1>5, <2>2, <3>2
    <3>4. \A m \in Nat \ {0} : (100 * m) \div m >= 100
      OBVIOUS
    <3>5. sc[x] \in Nat /\ sc[x] >= 100
      BY <1>3, <1>6, <3>3, <3>4
    <3> QED
      BY <3>5
  <2> QED
    BY <2>1, <2>2
<1> QED
  BY <1>2, <1>6, <1>7, <1>8 DEF RanksBy

LEMMA RankScoresRank ==
  ASSUME NEW M \in SUBSET Nat, IsFiniteSet(M), NEW sig, IsColumn(sig, M), NEW c \in ScorerConfig
  PROVE  RanksBy(sig, M, RankScores(c, M, sig)) /\ RanksBy(sig, M, BinaryScores(M, sig, c.pct))
<1>1. c.pct \in Nat
  BY DEF ScorerConfig
<1> QED
  BY <1>1, BinaryRanks, PercentileRanks DEF RankScores

-----------------------------------------------------------------------------
(* Signals.                                                                *)
LEMMA SignalColumns ==
  ASSUME NEW c \in ScorerConfig, NEW F, FeaturesOK(F)
  PROVE  /\ IsColumn(JTSignal(c, F), F.symbols) /\ IsColumn(PEADSignal(c, F), F.symbols)
         /\ IsColumn(EdgarSignal(c, F), F.symbols) /\ IsColumn(LLMSignal(F), F.symbols)
         /\ IsColumn(ActivitySignal(F), F.symbols)
<1>1. IsColumn(JTSignal(c, F), F.symbols)
  <2>1. CASE ~c.vol_scale
    BY <2>1 DEF JTSignal, FeaturesOK
  <2>2. CASE c.vol_scale
    <3>1. PICK f : f = JTSignal(c, F)
      OBVIOUS
    <3>2. f = [s \in {x \in DOMAIN F.momentum \cap DOMAIN F.volatility : F.volatility[x] > 0} |->
                 (100 * F.momentum[s]) \div F.volatility[s]]
      BY <2>2, <3>1 DEF JTSignal
    <3>3. ASSUME NEW s \in DOMAIN f
          PROVE  s \in F.symbols /\ f[s] \in Int
      <4>1. s \in DOMAIN F.momentum /\ s \in DOMAIN F.volatility /\ F.volatility[s] > 0
        BY <3>2
      <4>2. s \in F.symbols /\ F.momentum[s] \in Int /\ F.volatility[s] \in Int
        BY <4>1 DEF FeaturesOK, IsColumn, IsInts
      <4>3. 100 * F.momentum[s] \in Int /\ F.volatility[s] \in Nat \ {0}
        BY <4>1, <4>2
      <4>4. f[s] = (100 * F.momentum[s]) \div F.volatility[s]
        BY <3>2
      <4> QED
        BY <4>2, <4>3, <4>4
    <3> QED
      BY <3>1, <3>3 DEF IsColumn, IsInts
  <2> QED
    BY <2>1, <2>2
<1>2. IsColumn(PEADSignal(c, F), F.symbols)
  BY DEF PEADSignal, FeaturesOK, IsColumn, IsInts
<1>3. IsColumn(EdgarSignal(c, F), F.symbols)
  <2>1. PICK f : f = EdgarSignal(c, F)
    OBVIOUS
  <2>2. CASE c.mode = "cosine"
    BY <2>2 DEF EdgarSignal, FeaturesOK
  <2>3. CASE c.mode = "length"
    <3>1. f = [s \in DOMAIN F.len_change |-> -Abs(F.len_change[s])]
      BY <2>1, <2>3 DEF EdgarSignal
    <3>2. \A s \in DOMAIN F.len_change : s \in F.symbols /\ F.len_change[s] \in Int
      BY DEF FeaturesOK, IsColumn, IsInts
    <3>3. \A a \in Int : -Abs(a) \in Int
      BY DEF Abs
    <3> QED
      BY <2>1, <3>1, <3>2, <3>3 DEF IsColumn, IsInts
  <2>4. CASE c.mode = "blend"
    <3> DEFINE change(s) == IF s \in DOMAIN F.len_change THEN Abs(F.len_change[s]) ELSE 0
    <3>1. f = [s \in DOMAIN F.cosine |-> 2 * F.cosine[s] - change(s)]
      BY <2>1, <2>4 DEF EdgarSignal
    <3>2. \A s \in DOMAIN F.len_change : F.len_change[s] \in Int
      BY DEF FeaturesOK, IsColumn, IsInts
    <3>3. \A s \in DOMAIN F.cosine : s \in F.symbols /\ F.cosine[s] \in Int
      BY DEF FeaturesOK, IsColumn, IsInts
    <3>4. \A a \in Int : Abs(a) \in Int
      BY DEF Abs
    <3>5. \A s : change(s) \in Int
      BY <3>2, <3>4
    <3> HIDE DEF change
    <3>6. \A a, b \in Int : 2 * a - b \in Int
      OBVIOUS
    <3> QED
      BY <2>1, <3>1, <3>3, <3>5, <3>6 DEF IsColumn, IsInts
  <2> QED
    BY <2>2, <2>3, <2>4 DEF ScorerConfig
<1>4. IsColumn(LLMSignal(F), F.symbols) /\ IsColumn(ActivitySignal(F), F.symbols)
  BY DEF LLMSignal, ActivitySignal, FeaturesOK
<1> QED
  BY <1>1, <1>2, <1>3, <1>4

LEMMA OneSignal ==
  ASSUME NEW c, NEW M, NEW sig, DOMAIN sig \subseteq M, NEW sc, RanksBy(sig, M, sc)
  PROVE  RankingFollows(c, {sig}, sc)
<1>1. \A s, t \in DOMAIN sc : Outranks({sig}, s, t) => sc[s] >= sc[t]
  BY DEF Outranks, RanksBy
<1>2. \A s \in DOMAIN sc : (\E g \in {sig} : s \notin DOMAIN g) => sc[s] = 0
  BY DEF RanksBy
<1>3. \A g \in {sig} : DOMAIN g # {} => \E s \in DOMAIN g : sc[s] > 0
  BY DEF RanksBy
<1> QED
  BY <1>1, <1>2, <1>3 DEF RankingFollows

LEMMA TwoSignals ==
  ASSUME NEW c \in ScorerConfig, c.type \notin RankTypes, NEW M, NEW a, NEW b, NEW p, NEW q,
         RanksBy(a, M, p), RanksBy(b, M, q)
  PROVE  RankingFollows(c, {a, b}, Intersect(c, M, {p, q}))
<1>1. PICK sc : /\ sc = Intersect(c, M, {p, q})
                /\ sc = [s \in M |-> IF p[s] > c.entry /\ q[s] > c.entry THEN High ELSE 0]
  BY DEF Intersect
<1>2. PICK entry \in Nat : entry = c.entry
  BY DEF ScorerConfig
<1>3. \A s \in M : p[s] \in Nat /\ q[s] \in Nat
  BY DEF RanksBy
<1>4. ASSUME NEW s \in DOMAIN sc, NEW t \in DOMAIN sc, Outranks({a, b}, s, t)
      PROVE  sc[s] >= sc[t]
  <2>1. s \in M /\ t \in M
    BY <1>1
  <2>2. p[s] >= p[t] /\ q[s] >= q[t]
    BY <1>4, <2>1 DEF Outranks, RanksBy
  <2>3. p[t] > entry /\ q[t] > entry => p[s] > entry /\ q[s] > entry
    BY <1>2, <1>3, <2>1, <2>2
  <2> QED
    BY <1>1, <1>2, <2>1, <2>3 DEF High
<1>5. ASSUME NEW s \in DOMAIN sc, NEW g \in {a, b}, s \notin DOMAIN g
      PROVE  sc[s] = 0
  <2>1. s \in M
    BY <1>1
  <2>2. p[s] = 0 \/ q[s] = 0
    BY <1>5, <2>1 DEF RanksBy
  <2> QED
    BY <1>1, <1>2, <2>1, <2>2
<1> QED
  BY <1>1, <1>4, <1>5 DEF RankingFollows

-----------------------------------------------------------------------------
(* The z-score keeps the order, and so does the curve.                     *)
LEMMA ZScoresAre ==
  ASSUME NEW col, IsFiniteSet(DOMAIN col), IsInts(col)
  PROVE  /\ DOMAIN ZScores(col) = DOMAIN col /\ IsInts(ZScores(col))
         /\ \A s, t \in DOMAIN col : col[s] >= col[t] => ZScores(col)[s] >= ZScores(col)[t]
<1>1. PICK n \in Nat : n = Cardinality(DOMAIN col)
  BY FS_CardinalityType
<1>2. PICK total \in Int : total = SumOf(col)
  BY SumOfType
<1> DEFINE dev(s) == n * col[s] - total
           Spread == [s \in DOMAIN col |-> Abs(dev(s))]
<1>3. \A s \in DOMAIN col : col[s] \in Int /\ n * col[s] \in Int /\ dev(s) \in Int
  <2>1. \A a \in Int : n * a \in Int
    OBVIOUS
  <2> QED
    BY <2>1 DEF IsInts
<1>4. ASSUME NEW s \in DOMAIN col, NEW t \in DOMAIN col, col[s] >= col[t]
      PROVE  dev(s) >= dev(t)
  <2>1. \A a, b \in Int : a >= b => n * a >= n * b
    OBVIOUS
  <2>2. n * col[s] >= n * col[t]
    BY <1>3, <1>4, <2>1
  <2> QED
    BY <1>3, <2>2
<1> HIDE DEF dev
<1>5. PICK spread \in Nat : spread = SumOf(Spread)
  <2>1. \A s \in DOMAIN col : Abs(dev(s)) \in Nat
    BY <1>3 DEF Abs
  <2>2. \A s \in DOMAIN Spread : Spread[s] \in Nat
    BY <2>1
  <2>3. SumOf(Spread) = Total(Spread, DOMAIN Spread)
    BY DEF SumOf, Total
  <2>4. DOMAIN Spread = DOMAIN col
    OBVIOUS
  <2> HIDE DEF Spread
  <2> QED
    BY <2>2, <2>3, <2>4, TotalNat
<1>6. PICK z : z = ZScores(col)
  OBVIOUS
<1>7. z = [s \in DOMAIN col |-> IF spread = 0 THEN 0 ELSE (100 * n * dev(s)) \div spread]
  BY <1>1, <1>2, <1>5, <1>6 DEF ZScores, dev
<1>8. ASSUME NEW s \in DOMAIN col, NEW t \in DOMAIN col, dev(s) >= dev(t)
      PROVE  z[s] >= z[t] /\ z[s] \in Int
  <2>1. CASE spread = 0
    BY <1>7, <2>1
  <2>2. CASE spread # 0
    <3>1. PICK x \in Int, y \in Int : x = dev(s) /\ y = dev(t) /\ y <= x
      BY <1>3, <1>8
    <3>2. 100 * n * x \in Int /\ 100 * n * y \in Int /\ 100 * n * y <= 100 * n * x
      <4>1. 100 * n \in Nat
        OBVIOUS
      <4>2. \A m \in Nat : m * x \in Int /\ m * y \in Int /\ m * y <= m * x
        BY <3>1
      <4> QED
        BY <4>1, <4>2
    <3>3. (100 * n * y) \div spread <= (100 * n * x) \div spread /\ (100 * n * x) \div spread \in Int
      BY <2>2, <3>2, DivGrows
    <3> QED
      BY <1>7, <2>2, <3>1, <3>3
  <2> QED
    BY <2>1, <2>2
<1>9. \A s, t \in DOMAIN col : col[s] >= col[t] => z[s] >= z[t]
  BY <1>4, <1>8
<1>10. \A s \in DOMAIN col : z[s] \in Int
  BY <1>3, <1>8
<1> QED
  BY <1>6, <1>7, <1>9, <1>10 DEF IsInts

LEMMA DivCross ==
  ASSUME NEW a \in Int, NEW d \in Int, NEW b \in Nat \ {0}, NEW e \in Nat \ {0}, a * e >= d * b
  PROVE  a \div b >= d \div e
<1>1. PICK q \in Int : q = a \div b /\ a < b * q + b
  OBVIOUS
<1>2. PICK r \in Int : r = d \div e /\ e * r <= d
  OBVIOUS
<1>3. SUFFICES ASSUME q < r PROVE FALSE
  BY <1>1, <1>2
<1>4. q + 1 <= r
  BY <1>3
<1>5. b * q + b <= b * r
  <2>1. b * (q + 1) <= b * r
    BY <1>4
  <2>2. b * (q + 1) = b * q + b
    OBVIOUS
  <2> QED
    BY <2>1, <2>2
<1>6. a < b * r
  <2>1. b * q \in Int /\ b * r \in Int
    OBVIOUS
  <2> QED
    BY <1>1, <1>5, <2>1
<1>7. a * e < (b * r) * e
  <2>1. \A u, v \in Int : u < v => u * e < v * e
    OBVIOUS
  <2>2. b * r \in Int
    OBVIOUS
  <2> QED
    BY <1>6, <2>1, <2>2
<1>8. (e * r) * b <= d * b
  <2>1. \A u, v \in Int : u <= v => u * b <= v * b
    OBVIOUS
  <2>2. e * r \in Int
    OBVIOUS
  <2> QED
    BY <1>2, <2>1, <2>2
<1>9. (e * r) * b = (b * r) * e
  OBVIOUS
<1>10. a * e \in Int /\ d * b \in Int /\ (b * r) * e \in Int
  OBVIOUS
<1> QED
  BY <1>7, <1>8, <1>9, <1>10

LEMMA CurveRises ==
  ASSUME NEW x \in Int, NEW y \in Int, x >= y
  PROVE  Curve(x) >= Curve(y) /\ Curve(x) \in Int
<1>1. PICK a \in Nat \ {0}, b \in Nat \ {0} :
        /\ a = 100 + Abs(x) /\ b = 100 + Abs(y)
        /\ a = (IF x < 0 THEN 100 - x ELSE 100 + x) /\ b = (IF y < 0 THEN 100 - y ELSE 100 + y)
  BY DEF Abs
<1>2. (50 * x) * b >= (50 * y) * a
  <2>1. x * b >= y * a
    <3>1. CASE y >= 0
      <4>1. x * b = 100 * x + x * y /\ y * a = 100 * y + x * y
        BY <1>1, <3>1
      <4>2. x * y \in Int
        OBVIOUS
      <4> QED
        BY <4>1, <4>2
    <3>2. CASE x < 0
      <4>1. x * b = 100 * x - x * y /\ y * a = 100 * y - x * y
        BY <1>1, <3>2
      <4>2. x * y \in Int
        OBVIOUS
      <4> QED
        BY <4>1, <4>2
    <3>3. CASE x >= 0 /\ y < 0
      <4>1. x * b >= 0 /\ y * a <= 0
        BY <3>3
      <4>2. x * b \in Int /\ y * a \in Int
        OBVIOUS
      <4> QED
        BY <4>1, <4>2
    <3> QED
      BY <3>1, <3>2, <3>3
  <2>2. (50 * x) * b = 50 * (x * b) /\ (50 * y) * a = 50 * (y * a)
    OBVIOUS
  <2>3. x * b \in Int /\ y * a \in Int
    OBVIOUS
  <2> QED
    BY <2>1, <2>2, <2>3
<1>3. 50 * x \in Int /\ 50 * y \in Int
  OBVIOUS
<1>4. (50 * x) \div a >= (50 * y) \div b
  BY <1>2, <1>3, DivCross
<1>5. (50 * x) \div a \in Int /\ (50 * y) \div b \in Int
  BY <1>3
<1>6. Curve(x) = 50 + (50 * x) \div a /\ Curve(y) = 50 + (50 * y) \div b
  BY <1>1 DEF Curve
<1> QED
  BY <1>4, <1>5, <1>6

LEMMA MLFollows ==
  ASSUME NEW c \in ScorerConfig, c.type = "ml", NEW F, FeaturesOK(F)
  PROVE  RankingFollows(c, {F.prediction}, MLScores(F))
<1>1. PICK M, col : M = F.symbols /\ col = F.prediction
  OBVIOUS
<1>2. IsFiniteSet(DOMAIN col) /\ IsInts(col) /\ DOMAIN col = M
  BY <1>1 DEF FeaturesOK, IsColumn
<1>3. PICK z : z = ZScores(col)
  OBVIOUS
<1>4. /\ DOMAIN z = M /\ \A s \in M : z[s] \in Int
      /\ \A s, t \in M : col[s] >= col[t] => z[s] >= z[t]
  BY <1>2, <1>3, ZScoresAre DEF IsInts
<1>5. PICK sc : sc = MLScores(F) /\ sc = [s \in M |-> Curve(z[s])]
  BY <1>1, <1>3 DEF MLScores
<1>6. ASSUME NEW s \in DOMAIN sc, NEW t \in DOMAIN sc, Outranks({col}, s, t)
      PROVE  sc[s] >= sc[t]
  <2>1. s \in M /\ t \in M /\ col[s] > col[t]
    BY <1>2, <1>5, <1>6 DEF Outranks
  <2>2. col[s] \in Int /\ col[t] \in Int
    BY <1>2, <2>1 DEF IsInts
  <2>3. z[s] >= z[t] /\ z[s] \in Int /\ z[t] \in Int
    BY <1>4, <2>1, <2>2
  <2>4. Curve(z[s]) >= Curve(z[t])
    BY <2>3, CurveRises
  <2> QED
    BY <1>5, <2>1, <2>4
<1>7. \A s \in DOMAIN sc : (\E g \in {col} : s \notin DOMAIN g) => sc[s] = 0
  BY <1>2, <1>5
<1>8. c.type \notin RankTypes
  BY DEF RankTypes, ActivityTypes
<1> QED
  BY <1>1, <1>5, <1>6, <1>7, <1>8 DEF RankingFollows

(* Every scorer but the rule scorer.                                       *)
LEMMA ScorerFollows ==
  ASSUME NEW c \in ScorerConfig, c.type # "rule", NEW F, FeaturesOK(F)
  PROVE  RankingFollows(c, SignalsOf(c, F), ScoreCrossSection(c, F))
<1>1. PICK M : M = F.symbols /\ M \in SUBSET Nat /\ IsFiniteSet(M)
  BY DEF FeaturesOK
<1>2. PICK jt, pead, edgar, llm, act :
        /\ jt = JTSignal(c, F) /\ pead = PEADSignal(c, F) /\ edgar = EdgarSignal(c, F)
        /\ llm = LLMSignal(F) /\ act = ActivitySignal(F)
  OBVIOUS
<1>3. /\ IsColumn(jt, M) /\ IsColumn(pead, M) /\ IsColumn(edgar, M) /\ IsColumn(llm, M)
      /\ IsColumn(act, M)
  BY <1>1, <1>2, SignalColumns
<1>4. ASSUME NEW sig, IsColumn(sig, M)
      PROVE  /\ RanksBy(sig, M, RankScores(c, M, sig)) /\ RanksBy(sig, M, BinaryScores(M, sig, c.pct))
             /\ RankingFollows(c, {sig}, RankScores(c, M, sig))
             /\ RankingFollows(c, {sig}, BinaryScores(M, sig, c.pct))
  <2>1. RanksBy(sig, M, RankScores(c, M, sig)) /\ RanksBy(sig, M, BinaryScores(M, sig, c.pct))
    BY <1>1, <1>4, RankScoresRank
  <2>2. DOMAIN sig \subseteq M
    BY <1>4 DEF IsColumn
  <2> QED
    BY <2>1, <2>2, OneSignal
<1>5. JTLeg(c, F) = RankScores(c, M, jt)
  BY <1>1, <1>2 DEF JTLeg
<1>6. CASE c.type = "ml"
  <2>1. SignalsOf(c, F) = {F.prediction} /\ ScoreCrossSection(c, F) = MLScores(F)
    BY <1>6 DEF SignalsOf, ScoreCrossSection, ActivityTypes
  <2> QED
    BY <1>6, <2>1, MLFollows
<1>7. CASE c.type = "jt_momentum"
  <2>1. /\ SignalsOf(c, F) = {jt}
        /\ ScoreCrossSection(c, F) = BinaryScores(M, jt, c.pct)
    BY <1>1, <1>2, <1>7 DEF SignalsOf, ScoreCrossSection, ActivityTypes
  <2> QED
    BY <1>3, <1>4, <2>1
<1>8. CASE c.type = "pead"
  <2>1. /\ SignalsOf(c, F) = {pead}
        /\ ScoreCrossSection(c, F) = BinaryScores(M, pead, c.pct)
    BY <1>1, <1>2, <1>8 DEF SignalsOf, ScoreCrossSection, ActivityTypes
  <2> QED
    BY <1>3, <1>4, <2>1
<1>9. CASE c.type = "fundamental_llm"
  <2>1. /\ SignalsOf(c, F) = {llm}
        /\ ScoreCrossSection(c, F) = BinaryScores(M, llm, c.pct)
    BY <1>1, <1>2, <1>9 DEF SignalsOf, ScoreCrossSection, ActivityTypes
  <2> QED
    BY <1>3, <1>4, <2>1
<1>10. CASE c.type = "edgar_textdiff"
  <2>1. /\ SignalsOf(c, F) = {edgar}
        /\ ScoreCrossSection(c, F) = RankScores(c, M, edgar)
    BY <1>1, <1>2, <1>10 DEF SignalsOf, ScoreCrossSection, ActivityTypes
  <2> QED
    BY <1>3, <1>4, <2>1
<1>11. CASE c.type \in ActivityTypes
  <2>1. /\ SignalsOf(c, F) = {act}
        /\ ScoreCrossSection(c, F) = RankScores(c, M, act)
    BY <1>1, <1>2, <1>11 DEF SignalsOf, ScoreCrossSection, ActivityTypes
  <2> QED
    BY <1>3, <1>4, <2>1
<1>12. CASE c.type = "pead_jt_intersect"
  <2>1. /\ SignalsOf(c, F) = {jt, pead}
        /\ ScoreCrossSection(c, F)
             = Intersect(c, M, {RankScores(c, M, jt), BinaryScores(M, pead, c.pct)})
    BY <1>1, <1>2, <1>5, <1>12 DEF SignalsOf, ScoreCrossSection, ActivityTypes
  <2>2. c.type \notin RankTypes
    BY <1>12 DEF RankTypes, ActivityTypes
  <2>3. /\ RanksBy(jt, M, RankScores(c, M, jt))
        /\ RanksBy(pead, M, BinaryScores(M, pead, c.pct))
    BY <1>3, <1>4
  <2> QED
    BY <2>1, <2>2, <2>3, TwoSignals
<1>13. CASE c.type = "edgar_textdiff_jt_intersect"
  <2>1. /\ SignalsOf(c, F) = {jt, edgar}
        /\ ScoreCrossSection(c, F)
             = Intersect(c, M, {RankScores(c, M, jt), RankScores(c, M, edgar)})
    BY <1>1, <1>2, <1>5, <1>13 DEF SignalsOf, ScoreCrossSection, ActivityTypes
  <2>2. c.type \notin RankTypes
    BY <1>13 DEF RankTypes, ActivityTypes
  <2>3. /\ RanksBy(jt, M, RankScores(c, M, jt))
        /\ RanksBy(edgar, M, RankScores(c, M, edgar))
    BY <1>3, <1>4
  <2> QED
    BY <2>1, <2>2, <2>3, TwoSignals
<1>14. CASE c.type = "fundamental_llm_jt_intersect"
  <2>1. /\ SignalsOf(c, F) = {jt, llm}
        /\ ScoreCrossSection(c, F)
             = Intersect(c, M, {RankScores(c, M, jt), BinaryScores(M, llm, c.pct)})
    BY <1>1, <1>2, <1>5, <1>14 DEF SignalsOf, ScoreCrossSection, ActivityTypes
  <2>2. c.type \notin RankTypes
    BY <1>14 DEF RankTypes, ActivityTypes
  <2>3. /\ RanksBy(jt, M, RankScores(c, M, jt))
        /\ RanksBy(llm, M, BinaryScores(M, llm, c.pct))
    BY <1>3, <1>4
  <2> QED
    BY <2>1, <2>2, <2>3, TwoSignals
<1>15. c.type \in ScorerTypes
  BY DEF ScorerConfig
<1> QED
  BY <1>6, <1>7, <1>8, <1>9, <1>10, <1>11, <1>12, <1>13, <1>14, <1>15
     DEF ScorerTypes, TextTypes, ActivityTypes, EarningsTypes, StatementTypes

-----------------------------------------------------------------------------
(* The rule scorer: a weighted mean of the composites a symbol has.        *)
LEMMA UnitizedInts ==
  ASSUME NEW col, IsFiniteSet(DOMAIN col), IsInts(col), NEW sign \in Int, NEW cap \in Nat \ {0}
  PROVE  DOMAIN Unitized(col, sign, cap) = DOMAIN col /\ IsInts(Unitized(col, sign, cap))
<1>1. PICK z : z = ZScores(col)
  OBVIOUS
<1>2. DOMAIN z = DOMAIN col /\ IsInts(z)
  BY <1>1, ZScoresAre
<1>3. Unitized(col, sign, cap)
        = [s \in DOMAIN z |-> (100 * (sign * Clip(z[s], cap) + cap)) \div (2 * cap)]
  BY <1>1, <1>2 DEF Unitized
<1>4. ASSUME NEW a \in Int
      PROVE  (100 * (sign * Clip(a, cap) + cap)) \div (2 * cap) \in Int
  <2>1. PICK b \in Int : b = Clip(a, cap)
    BY DEF Clip
  <2>2. sign * b \in Int
    OBVIOUS
  <2>3. 100 * (sign * b + cap) \in Int /\ 2 * cap \in Nat \ {0}
    BY <2>2
  <2> QED
    BY <2>1, <2>3
<1> QED
  BY <1>2, <1>3, <1>4 DEF IsInts

LEMMA SpecIs ==
  /\ CompositeNames = {"momentum", "volatility", "value"} /\ IsFiniteSet(CompositeNames)
  /\ \A n \in CompositeNames :
       /\ IsFiniteSet(CompositeSpec[n])
       /\ \A part \in CompositeSpec[n] :
            part[1] \in {"momentum", "short_momentum", "volatility", "fundamental"} /\ part[2] \in Int
<1>1. CompositeNames = {"momentum", "volatility", "value"}
  BY DEF CompositeNames, CompositeSpec
<1>2. IsFiniteSet({"momentum", "volatility", "value"})
  <2>1. {"momentum", "volatility", "value"} = (({} \cup {"momentum"}) \cup {"volatility"}) \cup {"value"}
    OBVIOUS
  <2>2. IsFiniteSet(({} \cup {"momentum"}) \cup {"volatility"})
    BY FS_EmptySet, FS_AddElement
  <2> QED
    BY <2>1, <2>2, FS_AddElement
<1>3. IsFiniteSet(CompositeSpec["momentum"])
  <2>1. CompositeSpec["momentum"] = ({} \cup {<<"momentum", 1>>}) \cup {<<"short_momentum", 1>>}
    BY DEF CompositeSpec
  <2>2. IsFiniteSet({} \cup {<<"momentum", 1>>})
    BY FS_EmptySet, FS_AddElement
  <2> QED
    BY <2>1, <2>2, FS_AddElement
<1>4. IsFiniteSet(CompositeSpec["volatility"])
  <2>1. CompositeSpec["volatility"] = {} \cup {<<"volatility", -1>>}
    BY DEF CompositeSpec
  <2> QED
    BY <2>1, FS_EmptySet, FS_AddElement
<1>5. IsFiniteSet(CompositeSpec["value"])
  <2>1. CompositeSpec["value"] = {} \cup {<<"fundamental", -1>>}
    BY DEF CompositeSpec
  <2> QED
    BY <2>1, FS_EmptySet, FS_AddElement
<1>6. \A n \in CompositeNames : \A part \in CompositeSpec[n] :
        part[1] \in {"momentum", "short_momentum", "volatility", "fundamental"} /\ part[2] \in Int
  BY <1>1 DEF CompositeSpec
<1> QED
  BY <1>1, <1>2, <1>3, <1>4, <1>5, <1>6

LEMMA CompositesInts ==
  ASSUME NEW c \in ScorerConfig, NEW F, FeaturesOK(F), NEW comps, comps = Composites(c, F)
  PROVE  DOMAIN comps = CompositeNames /\ \A n \in CompositeNames : IsInts(comps[n])
<1> DEFINE Parts == UNION {CompositeSpec[n] : n \in CompositeNames}
           unit == [part \in Parts |-> Unitized(F[part[1]], part[2], c.z_cap)]
           has(s, n) == {part \in CompositeSpec[n] : s \in DOMAIN unit[part]}
           Units(s, n) == [part \in has(s, n) |-> unit[part][s]]
<1>1. comps = [n \in CompositeNames |->
                 [s \in {x \in F.symbols : has(x, n) # {}} |->
                    SumOf(Units(s, n)) \div Cardinality(has(s, n))]]
  BY DEF Composites
<1>2. ASSUME NEW n \in CompositeNames, NEW part \in CompositeSpec[n]
      PROVE  part \in Parts /\ IsInts(unit[part])
  <2>1. part[1] \in {"momentum", "short_momentum", "volatility", "fundamental"} /\ part[2] \in Int
    BY SpecIs
  <2>2. IsColumn(F[part[1]], F.symbols) /\ IsFiniteSet(F.symbols)
    BY <2>1 DEF FeaturesOK
  <2>3. IsFiniteSet(DOMAIN F[part[1]]) /\ IsInts(F[part[1]])
    BY <2>2, FS_Subset DEF IsColumn
  <2>4. c.z_cap \in Nat \ {0}
    BY DEF ScorerConfig
  <2>5. IsInts(Unitized(F[part[1]], part[2], c.z_cap))
    BY <2>1, <2>3, <2>4, UnitizedInts
  <2> QED
    BY <2>5
<1>3. \A n \in CompositeNames : \A s : IsFiniteSet(has(s, n))
  BY SpecIs, FS_Subset
<1> HIDE DEF unit, Parts
<1>4. ASSUME NEW n \in CompositeNames, NEW s, has(s, n) # {}
      PROVE  SumOf(Units(s, n)) \div Cardinality(has(s, n)) \in Int
  <2>1. \A part \in has(s, n) : Units(s, n)[part] \in Int
    BY <1>2 DEF IsInts
  <2>2. DOMAIN Units(s, n) = has(s, n)
    OBVIOUS
  <2>3. IsInts(Units(s, n)) /\ IsFiniteSet(DOMAIN Units(s, n))
    BY <1>3, <2>1, <2>2 DEF IsInts
  <2>4. IsFiniteSet(has(s, n))
    BY <1>3
  <2>5. Cardinality(has(s, n)) \in Nat \ {0}
    BY <1>4, <2>4, FS_EmptySet, FS_CardinalityType
  <2> HIDE DEF Units, has
  <2>6. SumOf(Units(s, n)) \in Int
    BY <2>3, SumOfType
  <2> QED
    BY <2>5, <2>6
<1> HIDE DEF Units, has
<1>5. ASSUME NEW n \in CompositeNames
      PROVE  IsInts(comps[n])
  <2>1. comps[n] = [s \in {x \in F.symbols : has(x, n) # {}} |->
                      SumOf(Units(s, n)) \div Cardinality(has(s, n))]
    BY <1>1
  <2> QED
    BY <1>4, <2>1 DEF IsInts
<1> QED
  BY <1>1, <1>5

LEMMA SumOfOrder ==
  ASSUME NEW D, IsFiniteSet(D), NEW f, NEW g, DOMAIN f = D, DOMAIN g = D,
         \A x \in D : f[x] \in Int /\ g[x] \in Int /\ f[x] <= g[x]
  PROVE  SumOf(f) <= SumOf(g) /\ SumOf(f) \in Int /\ SumOf(g) \in Int
<1>1. SumOf(f) = Total(f, D) /\ SumOf(g) = Total(g, D)
  <2>1. SumOf(f) = Total(f, DOMAIN f)
    BY DEF SumOf, Total
  <2>2. SumOf(g) = Total(g, DOMAIN g)
    BY DEF SumOf, Total
  <2> QED
    BY <2>1, <2>2
<1> QED
  BY <1>1, TotalOrder, TotalType

LEMMA RegimeIs ==
  ASSUME NEW vix \in Int, NEW above
  PROVE  Regime(vix, above) \in Regimes
BY DEF Regime, Regimes

(* The schema leaves the multipliers unbounded; a negative one would turn  *)
(* the order around.                                                       *)
NonNegative(c) == \A r \in Regimes, n \in CompositeNames : c.multipliers[r][n] >= 0

LEMMA RuleFollows ==
  ASSUME NEW c \in ScorerConfig, NonNegative(c), NEW F, FeaturesOK(F), F.vix \in Int,
         NEW comps, comps = Composites(c, F)
  PROVE  RuleFollowsComposites(comps, RuleScores(c, F))
<1>1. PICK sc : sc = RuleScores(c, F)
  OBVIOUS
<1> DEFINE W(s) == AdjustedWeights(c, F, comps, s)
           Terms(s) == [n \in DOMAIN W(s) |-> W(s)[n] * comps[n][s]]
<1>2. sc = [s \in F.symbols |->
              IF SumOf(W(s)) <= 0 THEN 0 ELSE SumOf(Terms(s)) \div SumOf(W(s))]
  BY <1>1 DEF RuleScores
<1>3. PICK r \in Regimes : r = Regime(F.vix, F.spy_above)
  BY RegimeIs
<1>4. ASSUME NEW n \in CompositeNames
      PROVE  c.weights[n] * c.multipliers[r][n] \in Nat
  <2>1. c.weights[n] \in Nat /\ c.multipliers[r][n] \in Int /\ c.multipliers[r][n] >= 0
    BY DEF ScorerConfig, NonNegative
  <2> QED
    BY <2>1
<1>5. ASSUME NEW s \in F.symbols, NEW t \in F.symbols,
             AtLeast({comps[n] : n \in CompositeNames}, s, t)
      PROVE  sc[s] >= sc[t]
  <2>1. \A n \in CompositeNames :
          IF t \in DOMAIN comps[n] THEN s \in DOMAIN comps[n] /\ comps[n][s] >= comps[n][t]
                                   ELSE s \notin DOMAIN comps[n]
    BY <1>5 DEF AtLeast
  <2>2. PICK D : D = Present(comps, s) /\ D = Present(comps, t)
    BY <2>1 DEF Present
  <2>3. D \subseteq CompositeNames /\ IsFiniteSet(D)
    <3>1. D \subseteq CompositeNames
      BY <2>2 DEF Present
    <3> QED
      BY <3>1, SpecIs, FS_Subset
  <2>4. PICK w : /\ w = W(s) /\ w = W(t)
                 /\ w = [n \in D |-> c.weights[n] * c.multipliers[r][n]]
    BY <1>3, <2>2 DEF AdjustedWeights
  <2>5. \A n \in D : w[n] \in Nat
    BY <1>4, <2>3, <2>4
  <2>6. PICK total : total = SumOf(w)
    OBVIOUS
  <2>7. total \in Int
    <3>1. IsInts(w) /\ DOMAIN w = D
      BY <2>4, <2>5 DEF IsInts
    <3> QED
      BY <2>3, <2>6, <3>1, SumOfType
  <2>8. PICK f, g : /\ f = [n \in D |-> w[n] * comps[n][t]] /\ g = [n \in D |-> w[n] * comps[n][s]]
                    /\ f = Terms(t) /\ g = Terms(s)
    BY <2>4
  <2>9. ASSUME NEW n \in D
        PROVE  f[n] \in Int /\ g[n] \in Int /\ f[n] <= g[n]
    <3>1. /\ t \in DOMAIN comps[n] /\ s \in DOMAIN comps[n] /\ comps[n][t] <= comps[n][s]
          /\ n \in CompositeNames
      <4>1. n \in CompositeNames /\ t \in DOMAIN comps[n]
        BY <2>2 DEF Present
      <4>2. s \in DOMAIN comps[n] /\ comps[n][s] >= comps[n][t]
        BY <2>1, <4>1
      <4>3. comps[n][s] \in Int /\ comps[n][t] \in Int
        BY <4>1, <4>2, CompositesInts DEF IsInts
      <4> QED
        BY <4>1, <4>2, <4>3
    <3>2. PICK a \in Int, b \in Int : a = comps[n][t] /\ b = comps[n][s] /\ a <= b
      BY <3>1, CompositesInts DEF IsInts
    <3>3. PICK m \in Nat : m = w[n]
      BY <2>5
    <3>4. m * a \in Int /\ m * b \in Int /\ m * a <= m * b
      BY <3>2
    <3> QED
      BY <2>8, <3>2, <3>3, <3>4
  <2>10. SumOf(f) <= SumOf(g) /\ SumOf(f) \in Int /\ SumOf(g) \in Int
    <3>1. DOMAIN f = D /\ DOMAIN g = D
      BY <2>8
    <3> QED
      BY <2>3, <2>9, <3>1, SumOfOrder
  <2>11. /\ sc[s] = IF total <= 0 THEN 0 ELSE SumOf(g) \div total
         /\ sc[t] = IF total <= 0 THEN 0 ELSE SumOf(f) \div total
    BY <1>2, <1>5, <2>4, <2>6, <2>8
  <2>12. CASE total <= 0
    BY <2>11, <2>12
  <2>13. CASE ~(total <= 0)
    <3>1. total \in Nat \ {0}
      BY <2>7, <2>13
    <3>2. SumOf(f) \div total <= SumOf(g) \div total /\ SumOf(f) \div total \in Int
          /\ SumOf(g) \div total \in Int
      BY <2>10, <3>1, DivGrows
    <3> QED
      BY <2>11, <2>13, <3>2
  <2> QED
    BY <2>12, <2>13
<1>6. DOMAIN sc = F.symbols
  BY <1>2
<1> QED
  BY <1>1, <1>5, <1>6 DEF RuleFollowsComposites

LEMMA VixInt ==
  ASSUME NEW c \in ScorerConfig, NEW h \in Seq(DayType), NEW P, PanelOf(c, h, P), NEW d \in Nat
  PROVE  Vix(P, d) \in Int
<1>1. P.h = h /\ P.market \subseteq 1..Len(h)
  BY DEF PanelOf
<1>2. PICK U : U = {x \in UpTo(P.market, d) : P.h[x].vix > 0}
  OBVIOUS
<1>3. U \subseteq 1..Len(h)
  BY <1>1, <1>2 DEF UpTo
<1>4. IsFiniteSet(U) /\ U \in SUBSET Nat
  BY <1>3, DaysShown
<1>5. U # {} => Max(U) \in 1..Len(h)
  BY <1>3, <1>4, MaxIsBack
<1>6. \A x \in 1..Len(h) : h[x] \in DayType
  OBVIOUS
<1>7. \A x \in 1..Len(h) : h[x].vix \in Nat
  BY <1>6 DEF DayType
<1>8. Vix(P, d) = IF U = {} THEN -1 ELSE P.h[Max(U)].vix
  BY <1>2 DEF Vix
<1> QED
  BY <1>1, <1>5, <1>7, <1>8

(* A symbol ahead on every signal never scores below, one without a signal *)
(* cannot be bought, and a ranking gives someone a score (scorer.py:116).  *)
THEOREM ScoresAlwaysFollow ==
  ASSUME \A c \in Configs : NonNegative(c)
  PROVE  Spec => []ScoresFollowSignals
<1>1. ASSUME PanelInv
      PROVE  ScoresFollowSignals
  <2>1. PICK c \in ScorerConfig : c = config /\ NonNegative(c)
    BY <1>1, PanelAssumption DEF PanelInv
  <2>2. PICK h \in Seq(DayType) : h = feed
    BY <1>1 DEF PanelInv
  <2>3. PICK P : P = BacktestPanel(c, h)
    OBVIOUS
  <2>4. PanelOf(c, h, P)
    BY <2>3, PrefetchPanel DEF BacktestPanel
  <2>5. PICK d \in Nat : d = Len(h)
    OBVIOUS
  <2>6. PICK F : F = Features(c, P, d)
    OBVIOUS
  <2>7. FeaturesOK(F) /\ F.vix \in Int
    <3>1. F.vix = Vix(P, d)
      BY <2>6 DEF Features
    <3> QED
      BY <2>4, <2>6, <3>1, FeaturesAreOK, VixInt
  <2>8. PICK sc : sc = CandidatesOf(c, F)
    OBVIOUS
  <2>9. PICK comps : comps = Composites(c, F)
    OBVIOUS
  <2>10. PICK sigs : sigs = SignalsOf(c, F)
    OBVIOUS
  <2>11. IF c.type = "rule" THEN RuleFollowsComposites(comps, sc) ELSE RankingFollows(c, sigs, sc)
    <3>1. CASE Cardinality(F.symbols) < 2
      <4>1. sc = Nobody /\ DOMAIN sc = {}
        BY <2>8, <3>1 DEF CandidatesOf, Nobody
      <4> QED
        BY <4>1 DEF RuleFollowsComposites, RankingFollows
    <3>2. CASE ~(Cardinality(F.symbols) < 2)
      <4>1. sc = ScoreCrossSection(c, F)
        BY <2>8, <3>2 DEF CandidatesOf
      <4>2. CASE c.type = "rule"
        <5>1. sc = RuleScores(c, F)
          BY <4>1, <4>2 DEF ScoreCrossSection
        <5>2. RuleFollowsComposites(comps, RuleScores(c, F))
          BY <2>1, <2>7, <2>9, RuleFollows
        <5> QED
          BY <4>2, <5>1, <5>2
      <4>3. CASE c.type # "rule"
        BY <2>7, <2>10, <4>1, <4>3, ScorerFollows
      <4> QED
        BY <4>2, <4>3
    <3> QED
      BY <3>1, <3>2
  <2> QED
    BY <2>1, <2>2, <2>3, <2>5, <2>6, <2>8, <2>9, <2>10, <2>11 DEF ScoresFollowSignals
<1> QED
  BY <1>1, PanelHolds, PTL
=============================================================================
