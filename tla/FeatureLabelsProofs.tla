------------------------ MODULE FeatureLabelsProofs ------------------------
(***************************************************************************)
(* Proofs about FeatureLabels, for any calendars, price files, horizons    *)
(* and concurrent jobs: a label is the return of the whole market history  *)
(* whatever file it was read from, a single job never labels a row again,  *)
(* and an embargo of enough rows keeps the folds apart.                    *)
(***************************************************************************)
EXTENDS FeatureLabels, SumLemmas

-----------------------------------------------------------------------------
(* Sets of days *)

LEMMA GreatestDay ==
  ASSUME NEW n \in Nat, NEW S, S \subseteq 0..n, S # {}
  PROVE  Max(S) \in S /\ \A x \in S : x <= Max(S)
<1> DEFINE T == {n - x : x \in S}
<1>1. T \subseteq Nat /\ T # {}
  <2>1. ASSUME NEW x \in S PROVE n - x \in Nat
    BY <2>1
  <2> QED
    BY <2>1
<1>2. PICK y \in T : \A z \in T : y <= z
  <2> HIDE DEF T
  <2> QED
    BY <1>1, LeastNat
<1>3. PICK m \in S : y = n - m
  BY <1>2
<1>4. ASSUME NEW x \in S PROVE m >= x
  <2>1. n - m <= n - x
    BY <1>2, <1>3
  <2>2. m \in Int /\ x \in Int
    OBVIOUS
  <2> QED
    BY <2>1, <2>2
<1>5. Max(S) \in S /\ \A x \in S : Max(S) >= x
  BY <1>4 DEF Max
<1> QED
  BY <1>5

(* Every rank below the size of a finite set of days is taken.             *)
Before(A, b) == {x \in A : x < b}

LEMMA RankOfDay ==
  ASSUME NEW A, A \subseteq Nat, IsFiniteSet(A), NEW k \in 0..(Cardinality(A) - 1)
  PROVE  \E b \in A : Cardinality(Before(A, b)) = k
<1> DEFINE n == Cardinality(A)
           T == 0..(n - 1)
           f == [b \in A |-> Cardinality(Before(A, b))]
<1>1. n \in Nat
  BY FS_CardinalityType
<1>2. ASSUME NEW b \in A
      PROVE  IsFiniteSet(Before(A, b)) /\ f[b] \in T /\ f[b] \in Nat
  <2>1. Before(A, b) \subseteq A \ {b}
    BY DEF Before
  <2>2. IsFiniteSet(A \ {b}) /\ Cardinality(A \ {b}) = n - 1
    BY FS_RemoveElement
  <2>3. IsFiniteSet(Before(A, b)) /\ Cardinality(Before(A, b)) <= n - 1
    BY <2>1, <2>2, FS_Subset
  <2>4. Cardinality(Before(A, b)) \in Nat
    BY <2>3, FS_CardinalityType
  <2> QED
    BY <1>1, <2>3, <2>4
<1>3. ASSUME NEW a \in A, NEW b \in A, a < b PROVE f[a] < f[b]
  <2>1. Before(A, a) \cup {a} \subseteq Before(A, b) /\ a \notin Before(A, a)
    <3>1. a \in Int /\ b \in Int /\ \A x \in A : x \in Int
      OBVIOUS
    <3>2. ~(a < a) /\ \A x \in A : x < a => x < b
      BY <1>3, <3>1
    <3> QED
      BY <1>3, <3>1, <3>2 DEF Before
  <2>2. Cardinality(Before(A, a) \cup {a}) = Cardinality(Before(A, a)) + 1
    BY <1>2, <2>1, FS_AddElement
  <2>3. Cardinality(Before(A, a) \cup {a}) <= Cardinality(Before(A, b))
    BY <1>2, <2>1, FS_Subset
  <2> QED
    BY <1>2, <2>2, <2>3
<1>4. f \in [A -> T]
  BY <1>2
<1>5. IsFiniteSet(T) /\ Cardinality(T) = n
  BY <1>1, FS_Interval
<1>6. ASSUME NEW a \in A, NEW b \in A, a # b PROVE f[a] # f[b]
  <2>1. a \in Int /\ b \in Int /\ f[a] \in Int /\ f[b] \in Int
    BY <1>2
  <2>2. a < b \/ b < a
    BY <1>6, <2>1
  <2> HIDE DEF f
  <2> QED
    BY <1>3, <2>1, <2>2
<1> HIDE DEF f, T
<1>7. f \in Injection(A, T)
  BY <1>4, <1>6 DEF Injection, IsInjective
<1>8. f \in Surjection(A, T)
  BY <1>5, <1>7, FS_Injection
<1>9. \E b \in A : f[b] = k
  BY <1>8 DEF Surjection, T
<1> QED
  BY <1>9 DEF f

-----------------------------------------------------------------------------
(* Forward returns.  Between two bars of a file lie all the bars the       *)
(* market has there, since a file holds a window of days.                  *)
Market(k, lb, r) ==
  LET between(a, b) == Cardinality(Bars[k[2]] \cap a + 1..b)
  IN r # Null => /\ r[1] \in Nat /\ r[1] <= k[1] /\ between(r[1], k[1]) = 0
                 /\ r[2] \in Nat /\ r[2] <= today /\ between(r[1], r[2]) = lb

LEMMA ReturnIsMarket ==
  ASSUME NEW s \in Symbols, NEW f, {f.window.from, f.window.to} \subseteq Nat,
         f.window.to <= today, today \in Nat,
         NEW k, k[2] = s, NEW day \in Nat, k[1] = day, NEW lb \in Lookbacks
  PROVE  Market(k, lb, ForwardReturn(Covered(s, f), day, lb))
<1> DEFINE B == Bars[s]
           bars == Covered(s, f)
           past == {b \in bars : b <= day}
           m == Max(past)
           ahead == {b \in bars : past # {} /\ b >= m}
           r == ForwardReturn(bars, day, lb)
<1>1. /\ B \subseteq 1..LastDay /\ LastDay \in Nat /\ lb \in Nat /\ lb > 0
      /\ f.window.from \in Nat /\ f.window.to \in Nat
  BY LabelAssumption
<1>2. bars = B \cap (f.window.from)..(f.window.to)
  BY DEF Covered
<1>3. SUFFICES ASSUME r # Null
               PROVE  /\ r[1] \in Nat /\ r[1] <= day /\ Cardinality(B \cap r[1] + 1..day) = 0
                      /\ r[2] \in Nat /\ r[2] <= today /\ Cardinality(B \cap r[1] + 1..r[2]) = lb
  BY DEF Market
<1>4. /\ ~(Cardinality(ahead) <= lb)
      /\ r = <<m, CHOOSE b \in ahead : Cardinality({x \in ahead : x < b}) = lb>>
  BY <1>3 DEF ForwardReturn
<1> HIDE DEF r, bars
<1>5. IsFiniteSet(ahead) /\ Cardinality(ahead) \in Nat /\ ahead # {} /\ ahead \subseteq Nat
  <2>1. IsFiniteSet(1..LastDay)
    BY <1>1, FS_Interval
  <2>2. ahead \subseteq 1..LastDay
    BY <1>1, <1>2
  <2> HIDE DEF ahead
  <2>3. IsFiniteSet(ahead)
    BY <2>1, <2>2, FS_Subset
  <2>4. Cardinality(ahead) \in Nat
    BY <2>3, FS_CardinalityType
  <2>5. ahead # {}
    BY <1>1, <1>4, FS_EmptySet
  <2> QED
    BY <2>2, <2>3, <2>4, <2>5
<1>6. m \in past /\ \A x \in past : x <= m
  <2>1. past # {}
    BY <1>5
  <2>2. past \subseteq 0..LastDay
    BY <1>1, <1>2
  <2> HIDE DEF past
  <2> QED
    BY <1>1, <2>1, <2>2, GreatestDay
<1> DEFINE t == CHOOSE b \in ahead : Cardinality(Before(ahead, b)) = lb
<1>7. t \in ahead /\ Cardinality(Before(ahead, t)) = lb
  <2> HIDE DEF ahead
  <2>1. lb \in 0..(Cardinality(ahead) - 1)
    BY <1>1, <1>4, <1>5
  <2>2. \E b \in ahead : Cardinality(Before(ahead, b)) = lb
    BY <1>5, <2>1, RankOfDay
  <2> QED
    BY <2>2
<1>8. r = <<m, t>>
  BY <1>4 DEF Before
<1> HIDE DEF m, t
<1>9. m \in Nat /\ t \in Nat /\ m \in bars /\ t \in bars /\ m <= day /\ m <= t
  BY <1>1, <1>2, <1>6, <1>7
<1>10. Before(ahead, t) = {x \in B : m <= x /\ x < t}
  BY <1>1, <1>2, <1>6, <1>9 DEF Before
<1>11. m < t
  <2>1. PICK x : x \in Before(ahead, t)
    <3>1. Cardinality({}) = 0
      BY FS_EmptySet
    <3> HIDE DEF ahead
    <3> QED
      BY <1>1, <1>7, <3>1
  <2>2. x \in Int /\ m <= x /\ x < t
    BY <1>1, <1>10, <2>1
  <2> QED
    BY <1>9, <2>2
<1>12. day < t
  BY <1>2, <1>6, <1>9, <1>11
<1>13. B \cap (m + 1)..day = {}
  <2> SUFFICES ASSUME NEW x \in B, x \in (m + 1)..day PROVE FALSE
    OBVIOUS
  <2>1. x \in (f.window.from)..(f.window.to)
    BY <1>1, <1>2, <1>9, <1>12
  <2>2. x \in past
    BY <1>2, <2>1
  <2> QED
    BY <1>6, <1>9, <2>2
<1>14. Cardinality(B \cap (m + 1)..t) = lb
  <2> DEFINE X == B \cap (m + 1)..(t - 1)
  <2>1. Before(ahead, t) = X \cup {m} /\ m \notin X
    BY <1>1, <1>2, <1>9, <1>10, <1>11
  <2>2. B \cap (m + 1)..t = X \cup {t} /\ t \notin X
    BY <1>1, <1>2, <1>9, <1>11
  <2>3. IsFiniteSet(X)
    <3>1. m + 1 \in Int /\ t - 1 \in Int
      BY <1>9
    <3>2. IsFiniteSet((m + 1)..(t - 1))
      BY <3>1, FS_Interval
    <3>3. X \subseteq (m + 1)..(t - 1)
      OBVIOUS
    <3> HIDE DEF X
    <3> QED
      BY <3>2, <3>3, FS_Subset
  <2> HIDE DEF X
  <2>4. Cardinality(X \cup {m}) = Cardinality(X) + 1 /\ Cardinality(X \cup {t}) = Cardinality(X) + 1
    BY <2>1, <2>2, <2>3, FS_AddElement
  <2> QED
    BY <1>7, <2>1, <2>2, <2>4
<1>15. t <= today
  BY <1>1, <1>2, <1>9
<1> QED
  BY <1>8, <1>9, <1>13, <1>14, <1>15, FS_EmptySet

-----------------------------------------------------------------------------
(* The invariant: what a row and a row in a job's buffer hold              *)

RowGood(k, row) ==
  /\ ~row.filled => \A lb \in Lookbacks : row.returns[lb] = Null
  /\ \A lb \in Lookbacks : Market(k, lb, row.returns[lb])

JobGood(jb) ==
  /\ jb = [pc |-> jb.pc, todo |-> jb.todo, pending |-> jb.pending, buffer |-> jb.buffer]
  /\ jb.pending \subseteq DOMAIN rows
  /\ \A u \in jb.buffer : u.key \in jb.pending /\ RowGood(u.key, u.row)

Held(day) == {f \in [window : FileWindows, cut : BOOLEAN] : f.window.to <= day}

LabelInv ==
  /\ today \in 0..LastDay /\ open \in BOOLEAN
  /\ DOMAIN rows \subseteq (1..today) \X Symbols \X Runs
  /\ \A k \in DOMAIN rows : RowGood(k, rows[k])
  /\ files \in [Symbols -> SUBSET Held(today)]
  /\ DOMAIN job = Jobs /\ \A j \in Jobs : JobGood(job[j])

(* A day that passes takes nothing from a row.                             *)
LEMMA RowStaysGood ==
  ASSUME NEW k, NEW row, RowGood(k, row), today \in Nat, today' \in Nat, today <= today'
  PROVE  RowGood(k, row)'
<1>1. ASSUME NEW lb \in Lookbacks PROVE Market(k, lb, row.returns[lb])'
  <2> DEFINE r == row.returns[lb]
  <2>1. Market(k, lb, r)
    BY DEF RowGood
  <2> HIDE DEF r
  <2>2. (r[2] \in Nat /\ r[2] <= today) => r[2] <= today'
    OBVIOUS
  <2>3. Market(k, lb, r)'
    BY <2>1, <2>2 DEF Market
  <2> QED
    BY <2>3 DEF r
<1> QED
  BY <1>1 DEF RowGood

LEMMA SameDay ==
  ASSUME today' = today
  PROVE  \A k, row : RowGood(k, row)' <=> RowGood(k, row)
<1>1. ASSUME NEW k, NEW lb, NEW r PROVE Market(k, lb, r)' <=> Market(k, lb, r)
  BY DEF Market
<1> QED
  BY <1>1 DEF RowGood

LEMMA JobFields ==
  ASSUME NEW jb, JobGood(jb), NEW t, NEW b
  PROVE  /\ [jb EXCEPT !.todo = t]
              = [pc |-> jb.pc, todo |-> t, pending |-> jb.pending, buffer |-> jb.buffer]
         /\ [jb EXCEPT !.buffer = b]
              = [pc |-> jb.pc, todo |-> jb.todo, pending |-> jb.pending, buffer |-> b]
         /\ [jb EXCEPT !.todo = t, !.buffer = b]
              = [pc |-> jb.pc, todo |-> t, pending |-> jb.pending, buffer |-> b]
<1>1. PICK p, d, q, x : jb = [pc |-> p, todo |-> d, pending |-> q, buffer |-> x]
  BY DEF JobGood
<1>2. jb.pc = p /\ jb.todo = d /\ jb.pending = q /\ jb.buffer = x
  BY <1>1
<1>3. [jb EXCEPT !.todo = t] = [pc |-> p, todo |-> t, pending |-> q, buffer |-> x]
  BY <1>1
<1>4. [jb EXCEPT !.buffer = b] = [pc |-> p, todo |-> d, pending |-> q, buffer |-> b]
  BY <1>1
<1>5. [jb EXCEPT !.todo = t, !.buffer = b] = [pc |-> p, todo |-> t, pending |-> q, buffer |-> b]
  <2>1. PICK k : k = [jb EXCEPT !.todo = t]
    OBVIOUS
  <2>2. k = [pc |-> p, todo |-> t, pending |-> q, buffer |-> x]
    BY <1>3, <2>1
  <2>3. [k EXCEPT !.buffer = b] = [pc |-> p, todo |-> t, pending |-> q, buffer |-> b]
    BY <2>2
  <2>4. [jb EXCEPT !.todo = t, !.buffer = b] = [[jb EXCEPT !.todo = t] EXCEPT !.buffer = b]
    OBVIOUS
  <2> QED
    BY <2>1, <2>3, <2>4
<1> QED
  BY <1>2, <1>3, <1>4, <1>5

LEMMA UnlabelledGood == \A k : RowGood(k, Unlabelled)
BY DEF RowGood, Market, Unlabelled

LEMMA InitLabelInv == Init => LabelInv
<1> SUFFICES ASSUME Init PROVE LabelInv
  OBVIOUS
<1>1. today = 0 /\ LastDay \in Nat
  BY LabelAssumption DEF Init
<1>2. DOMAIN rows = {}
  BY DEF Init
<1>3. files \in [Symbols -> SUBSET Held(today)] /\ open \in BOOLEAN
  BY DEF Init
<1>4. DOMAIN job = Jobs /\ \A j \in Jobs : job[j] = Idle
  BY DEF Init
<1>5. JobGood(Idle)
  BY DEF JobGood, Idle
<1> QED
  BY <1>1, <1>2, <1>3, <1>4, <1>5 DEF LabelInv

LEMMA LabelledGood ==
  ASSUME LabelInv, NEW s \in Symbols, NEW f \in Widest(s), NEW k \in DOMAIN rows, k[2] = s
  PROVE  RowGood(k, Labelled(k, f))
<1>1. f.window \in FileWindows /\ f.window.to <= today
  <2>1. f \in files[s]
    BY DEF Widest, Usable
  <2>2. f \in Held(today)
    BY <2>1 DEF LabelInv
  <2> QED
    BY <2>2 DEF Held
<1>2. today \in Nat /\ {f.window.from, f.window.to} \subseteq Nat
  BY <1>1, LabelAssumption DEF LabelInv
<1>3. k[1] \in Nat
  <2>1. k \in (1..today) \X Symbols \X Runs
    BY DEF LabelInv
  <2> QED
    BY <1>2, <2>1
<1>4. ASSUME NEW lb \in Lookbacks PROVE Market(k, lb, ForwardReturn(Covered(s, f), k[1], lb))
  BY <1>1, <1>2, <1>3, ReturnIsMarket
<1>5. \A lb \in Lookbacks : Market(k, lb, Returns(k, f)[lb])
  BY <1>4 DEF Returns
<1>6. Labelled(k, f).filled = TRUE /\ Labelled(k, f).returns = Returns(k, f)
  BY DEF Labelled
<1> QED
  BY <1>5, <1>6 DEF RowGood

LEMMA NextLabelInv == LabelInv /\ [Next]_vars => LabelInv'
<1> SUFFICES ASSUME LabelInv, [Next]_vars PROVE LabelInv'
  OBVIOUS
<1>1. today \in 0..LastDay /\ today \in Nat /\ LastDay \in Nat
  BY LabelAssumption DEF LabelInv
<1>2. ASSUME today' = today, open' = open, files' = files, rows' = rows, DOMAIN job' = Jobs,
             \A j \in Jobs : JobGood(job'[j])
      PROVE  LabelInv'
  BY <1>2, SameDay DEF LabelInv, JobGood
<1>3. \A j \in Jobs : JobGood(Idle) /\ JobGood(job[j])
  BY DEF LabelInv, JobGood, Idle
<1>4. CASE NextDay
  <2>1. today' = today + 1 /\ today < LastDay /\ open' = TRUE /\ UNCHANGED <<files, rows, job, kills>>
    BY <1>4 DEF NextDay
  <2>2. today' \in 0..LastDay /\ today' \in Nat /\ today <= today'
    BY <1>1, <2>1
  <2>3. \A k \in DOMAIN rows : RowGood(k, rows[k])'
    <3> SUFFICES ASSUME NEW k \in DOMAIN rows PROVE RowGood(k, rows[k])'
      BY <2>1
    <3> DEFINE row == rows[k]
    <3>1. RowGood(k, row)
      BY DEF LabelInv
    <3>2. PICK x : x = row
      OBVIOUS
    <3>3. RowGood(k, x)'
      BY <1>1, <2>2, <3>1, <3>2, RowStaysGood
    <3> QED
      BY <2>1, <3>2, <3>3 DEF RowGood, Market
  <2>4. ASSUME NEW j \in Jobs PROVE JobGood(job[j])'
    <3>1. JobGood(job[j])
      BY <1>3
    <3>2. ASSUME NEW u \in job[j].buffer PROVE RowGood(u.key, u.row)'
      BY <1>1, <2>2, <3>1, RowStaysGood DEF JobGood
    <3> QED
      BY <2>1, <3>1, <3>2 DEF JobGood
  <2>5. DOMAIN rows \subseteq (1..today') \X Symbols \X Runs
    <3>1. 1..today \subseteq 1..today'
      BY <1>1, <2>2
    <3> QED
      BY <3>1 DEF LabelInv
  <2>6. files' \in [Symbols -> SUBSET Held(today')]
    <3>1. ASSUME NEW f \in [window : FileWindows, cut : BOOLEAN], f.window.to <= today
          PROVE  f.window.to <= today'
      <4>1. f.window.to \in Nat
        BY LabelAssumption
      <4> QED
        BY <1>1, <2>2, <3>1, <4>1
    <3>2. Held(today) \subseteq Held(today')
      BY <3>1 DEF Held
    <3> QED
      BY <2>1, <3>2 DEF LabelInv
  <2> QED
    BY <2>1, <2>2, <2>3, <2>4, <2>5, <2>6 DEF LabelInv
<1>5. ASSUME NEW s \in Symbols, NEW w \in FileWindows, Fetch(s, w) PROVE LabelInv'
  <2>1. UNCHANGED <<today, open, rows, job, kills>> /\ w.to <= today
        /\ files' = [files EXCEPT ![s] = {f \in @ : f.window # w} \cup {Download(w)}]
    BY <1>5 DEF Fetch
  <2>2. Download(w) \in Held(today)
    BY <2>1 DEF Download, Held, LabelInv
  <2>3. files' \in [Symbols -> SUBSET Held(today)]
    BY <2>1, <2>2 DEF LabelInv
  <2> QED
    BY <2>1, <2>3, SameDay DEF LabelInv, JobGood
<1>6. ASSUME NEW r \in Runs, NEW F \in FoldRows, WriteFeatures(r, F) PROVE LabelInv'
  <2> DEFINE new == {<<v[1], v[2], r>> : v \in F}
  <2>1. UNCHANGED <<today, open, files, job, kills>> /\ (\A v \in F : v[1] <= today)
        /\ rows' = [k \in DOMAIN rows \cup new |-> IF k \in DOMAIN rows THEN rows[k] ELSE Unlabelled]
    BY <1>6 DEF WriteFeatures
  <2>2. new \subseteq (1..today) \X Symbols \X Runs
    <3>1. ASSUME NEW v \in F PROVE <<v[1], v[2], r>> \in (1..today) \X Symbols \X Runs
      <4>1. v \in (1..LastDay) \X Symbols
        BY LabelAssumption
      <4>2. v[1] \in 1..today /\ v[2] \in Symbols
        BY <1>1, <2>1, <4>1
      <4> QED
        BY <4>2
    <3> QED
      BY <3>1
  <2> HIDE DEF new
  <2>3. DOMAIN rows' = DOMAIN rows \cup new
    BY <2>1
  <2>4. ASSUME NEW k \in DOMAIN rows' PROVE RowGood(k, rows'[k])
    BY <2>1, UnlabelledGood DEF LabelInv
  <2>5. \A k \in DOMAIN rows' : RowGood(k, rows[k])'
    BY <2>1, <2>4 DEF RowGood, Market
  <2>6. \A j \in Jobs : JobGood(job[j])'
    BY <1>3, <2>1, <2>3, SameDay DEF JobGood
  <2> QED
    BY <2>1, <2>2, <2>3, <2>5, <2>6 DEF LabelInv
<1>7. ASSUME NEW j \in Jobs, StartJob(j) PROVE LabelInv'
  <2>1. PICK pending \in SUBSET DOMAIN rows :
          job' = [job EXCEPT ![j] = [pc |-> "symbols", todo |-> {k[2] : k \in pending},
                                     pending |-> pending, buffer |-> {}]]
    BY <1>7 DEF StartJob
  <2>2. JobGood([pc |-> "symbols", todo |-> {k[2] : k \in pending}, pending |-> pending, buffer |-> {}])
    BY DEF JobGood
  <2>3. \A i \in Jobs : JobGood(job'[i])
    BY <1>3, <2>1, <2>2 DEF LabelInv
  <2> QED
    BY <1>2, <1>7, <2>1, <2>3 DEF StartJob, LabelInv
<1>8. ASSUME NEW j \in Jobs, NEW s \in Symbols, SkipSymbol(j, s) PROVE LabelInv'
  <2>1. job' = [job EXCEPT ![j] = [job[j] EXCEPT !.todo = @ \ {s}]]
        /\ job[j].buffer = {}
    BY <1>8 DEF SkipSymbol, LabelInv
  <2> DEFINE jb == [job[j] EXCEPT !.todo = @ \ {s}]
  <2>2. /\ jb = [pc |-> job[j].pc, todo |-> job[j].todo \ {s},
                 pending |-> job[j].pending, buffer |-> job[j].buffer]
    BY <1>3, JobFields
  <2> HIDE DEF jb
  <2>3. JobGood(jb)
    BY <1>3, <2>2 DEF JobGood
  <2>4. \A i \in Jobs : JobGood(job'[i])
    BY <1>3, <2>1, <2>3 DEF LabelInv, jb
  <2> QED
    BY <1>2, <1>8, <2>1, <2>4 DEF SkipSymbol, LabelInv
<1>9. ASSUME NEW j \in Jobs, NEW s \in Symbols, LabelSymbol(j, s) PROVE LabelInv'
  <2> DEFINE ups(f) == {[key |-> k, row |-> Labelled(k, f)] :
                          k \in {x \in job[j].pending : x[2] = s}}
  <2>1. PICK f \in Widest(s) :
          job' = [job EXCEPT ![j] = [job[j] EXCEPT !.todo = @ \ {s}, !.buffer = ups(f)]]
    BY <1>9 DEF LabelSymbol, LabelInv
  <2> DEFINE jb == [job[j] EXCEPT !.todo = @ \ {s}, !.buffer = ups(f)]
  <2>2. jb = [pc |-> job[j].pc, todo |-> job[j].todo \ {s},
              pending |-> job[j].pending, buffer |-> ups(f)]
    BY <1>3, JobFields
  <2>3. ASSUME NEW u \in ups(f) PROVE u.key \in job[j].pending /\ RowGood(u.key, u.row)
    <3>1. PICK k \in job[j].pending : k[2] = s /\ u = [key |-> k, row |-> Labelled(k, f)]
      OBVIOUS
    <3>2. k \in DOMAIN rows
      BY <1>3 DEF JobGood
    <3>3. RowGood(k, Labelled(k, f))
      BY <3>1, <3>2, LabelledGood
    <3> QED
      BY <3>1, <3>3
  <2> HIDE DEF jb, ups
  <2>4. JobGood(jb)
    BY <1>3, <2>2, <2>3 DEF JobGood
  <2>5. \A i \in Jobs : JobGood(job'[i])
    BY <1>3, <2>1, <2>4 DEF LabelInv, jb
  <2> QED
    BY <1>2, <1>9, <2>1, <2>5 DEF LabelSymbol, LabelInv
<1>10. ASSUME NEW j \in Jobs, Flush(j) PROVE LabelInv'
  <2>1. PICK chunk \in SUBSET job[j].buffer :
          /\ rows' = [k \in DOMAIN rows |->
               IF \E u \in chunk : u.key = k THEN (CHOOSE u \in chunk : u.key = k).row ELSE rows[k]]
          /\ job' = [job EXCEPT ![j] = [job[j] EXCEPT !.buffer = @ \ chunk]]
    BY <1>10 DEF Flush, kSubset, LabelInv
  <2>2. today' = today /\ open' = open /\ files' = files /\ DOMAIN rows' = DOMAIN rows
    BY <1>10, <2>1 DEF Flush
  <2>3. ASSUME NEW k \in DOMAIN rows PROVE RowGood(k, rows'[k])
    <3>1. CASE \E u \in chunk : u.key = k
      <4>1. PICK u \in chunk : u.key = k /\ rows'[k] = u.row
        BY <2>1, <3>1
      <4>2. RowGood(u.key, u.row)
        BY <1>3 DEF JobGood
      <4> QED
        BY <4>1, <4>2
    <3>2. CASE ~\E u \in chunk : u.key = k
      BY <2>1, <3>2 DEF LabelInv
    <3> QED
      BY <3>1, <3>2
  <2>4. \A k \in DOMAIN rows' : RowGood(k, rows[k])'
    BY <2>2, <2>3 DEF RowGood, Market
  <2> DEFINE jb == [job[j] EXCEPT !.buffer = @ \ chunk]
  <2>5. jb = [pc |-> job[j].pc, todo |-> job[j].todo,
              pending |-> job[j].pending, buffer |-> job[j].buffer \ chunk]
    BY <1>3, JobFields
  <2> HIDE DEF jb
  <2>6. JobGood(jb)
    BY <1>3, <2>5 DEF JobGood
  <2>7. \A i \in Jobs : JobGood(job'[i])
    BY <1>3, <2>1, <2>6 DEF LabelInv, jb
  <2>8. \A i \in Jobs : JobGood(job[i])'
    BY <2>2, <2>7, SameDay DEF JobGood
  <2> QED
    BY <2>1, <2>2, <2>4, <2>8 DEF LabelInv
<1>11. ASSUME NEW j \in Jobs, EndJob(j) \/ KillJob(j) PROVE LabelInv'
  <2>1. job' = [job EXCEPT ![j] = Idle]
    BY <1>11 DEF EndJob, KillJob
  <2>2. \A i \in Jobs : JobGood(job'[i])
    BY <1>3, <2>1 DEF LabelInv
  <2> QED
    BY <1>2, <1>11, <2>1, <2>2 DEF EndJob, KillJob, LabelInv
<1>12. CASE UNCHANGED vars
  BY <1>2, <1>3, <1>12 DEF LabelInv, vars
<1>13. CASE CloseSession
  <2>1. UNCHANGED <<today, files, rows, job, kills>> /\ open' = FALSE
    BY <1>13 DEF CloseSession
  <2> QED
    BY <2>1, SameDay DEF LabelInv, JobGood
<1> QED
  BY <1>4, <1>5, <1>6, <1>7, <1>8, <1>9, <1>10, <1>11, <1>12, <1>13 DEF Next, JobStep

LEMMA LabelInvAlways == Spec => []LabelInv
BY InitLabelInv, NextLabelInv, PTL DEF Spec

-----------------------------------------------------------------------------
(* Theorems about rows *)

(* Every row and job has its type, and a job holds back only rows it       *)
(* selected (schema.feature_log, labeling.label_unlabeled_features).       *)
THEOREM LabelTypesAlways == Spec => []LabelTypeOK
<1>1. LabelInv => LabelTypeOK
  <2> SUFFICES ASSUME LabelInv PROVE LabelTypeOK
    OBVIOUS
  <2>1. \A k \in DOMAIN rows : k[1] \in 1..today /\ k[2] \in Symbols /\ k[3] \in Runs
    BY DEF LabelInv
  <2>2. \A s \in Symbols : \A f \in files[s] : f.window \in FileWindows /\ f.window.to <= today
    BY DEF LabelInv, Held
  <2>3. \A k \in DOMAIN rows : ~rows[k].filled => \A lb \in Lookbacks : rows[k].returns[lb] = Null
    BY DEF LabelInv, RowGood
  <2>4. \A j \in Jobs : /\ \A u \in job[j].buffer : u.key \in job[j].pending
                         /\ job[j].pending \subseteq DOMAIN rows
    BY DEF LabelInv, JobGood
  <2> QED
    BY <2>1, <2>2, <2>3, <2>4 DEF LabelInv, LabelTypeOK
<1> QED
  BY <1>1, LabelInvAlways, PTL

(* A label that is not NULL compares the bars the whole market history     *)
(* names, whatever windows the cache holds and whenever they are           *)
(* downloaded and read; that the second of them is finished is not said    *)
(* (labeling.compute_forward_returns, cli.py _load_widest_for_symbol).     *)
THEOREM LabelsAlwaysMarket == Spec => []LabelsAreMarket
<1>1. LabelInv => LabelsAreMarket
  BY DEF LabelInv, RowGood, Market, LabelsAreMarket
<1> QED
  BY <1>1, LabelInvAlways, PTL

-----------------------------------------------------------------------------
(* One job at a time.  What it has still to write is still unlabelled: the *)
(* pending rows of the symbols it has not reached, and the rows it buffers *)
(* once each.                                                              *)
JobFresh(jb) ==
  /\ \A k \in jb.pending : k[2] \in jb.todo => ~rows[k].filled
  /\ \A u \in jb.buffer : u.key[2] \notin jb.todo /\ ~rows[u.key].filled
  /\ \A u, v \in jb.buffer : u.key = v.key => u = v

FreshInv == \A j \in Jobs : JobFresh(job[j])

LEMMA InitFreshInv == Init => FreshInv
BY DEF Init, FreshInv, JobFresh, Idle

OneJob == \A i, j \in Jobs : i = j

RowsKeep == \A k \in DOMAIN rows : k \in DOMAIN rows' /\ rows'[k] = rows[k]

LEMMA FreshKept ==
  ASSUME RowsKeep, DOMAIN job = Jobs, NEW i \in Jobs, NEW jb, JobGood(jb), JobFresh(jb),
         job' = [job EXCEPT ![i] = jb], LabelInv, FreshInv
  PROVE  FreshInv'
<1> SUFFICES ASSUME NEW j \in Jobs PROVE JobFresh(job[j])'
  BY DEF FreshInv
<1>1. PICK l : l = IF j = i THEN jb ELSE job[j]
  OBVIOUS
<1>2. JobGood(l) /\ JobFresh(l)
  BY <1>1 DEF LabelInv, FreshInv
<1>3. job'[j] = l
  BY <1>1
<1>4. /\ \A k \in l.pending : k[2] \in l.todo => ~rows'[k].filled
      /\ \A u \in l.buffer : u.key[2] \notin l.todo /\ ~rows'[u.key].filled
      /\ \A u, v \in l.buffer : u.key = v.key => u = v
  BY <1>2 DEF JobGood, JobFresh, RowsKeep
<1> QED
  BY <1>3, <1>4 DEF JobFresh

LEMMA FreshUntouched ==
  ASSUME RowsKeep, LabelInv, FreshInv, UNCHANGED job
  PROVE  FreshInv'
<1> SUFFICES ASSUME NEW j \in Jobs PROVE JobFresh(job[j])'
  BY DEF FreshInv
<1>1. JobGood(job[j]) /\ JobFresh(job[j])
  BY DEF LabelInv, FreshInv
<1>2. PICK l : l = job[j]
  OBVIOUS
<1>3. /\ \A k \in l.pending : k[2] \in l.todo => ~rows'[k].filled
      /\ \A u \in l.buffer : u.key[2] \notin l.todo /\ ~rows'[u.key].filled
      /\ \A u, v \in l.buffer : u.key = v.key => u = v
  BY <1>1, <1>2 DEF JobGood, JobFresh, RowsKeep
<1> QED
  BY <1>2, <1>3 DEF JobFresh

(* Rows keep their contents in every step but a flush, and a flush writes  *)
(* rows that were not labelled yet.                                        *)
LEMMA FlushKeeps ==
  ASSUME OneJob, LabelInv, FreshInv, NEW j \in Jobs, Flush(j)
  PROVE  /\ FreshInv'
         /\ \A k \in DOMAIN rows : rows[k].filled => k \in DOMAIN rows' /\ rows'[k] = rows[k]
<1> DEFINE l == job[j]
<1>1. JobGood(l) /\ JobFresh(l) /\ DOMAIN job = Jobs
  BY DEF LabelInv, FreshInv
<1>2. PICK chunk \in SUBSET l.buffer :
        /\ rows' = [k \in DOMAIN rows |->
             IF \E u \in chunk : u.key = k THEN (CHOOSE u \in chunk : u.key = k).row ELSE rows[k]]
        /\ job' = [job EXCEPT ![j] = [job[j] EXCEPT !.buffer = @ \ chunk]]
  BY <1>1 DEF Flush, kSubset
<1>3. \A k \in DOMAIN rows : (\A u \in chunk : u.key # k) => rows'[k] = rows[k]
  BY <1>2
<1>4. PICK new : /\ new = [pc |-> l.pc, todo |-> l.todo, pending |-> l.pending, buffer |-> l.buffer \ chunk]
                 /\ job'[j] = new
  BY <1>1, <1>2, JobFields
<1>5. \A k \in DOMAIN rows : rows[k].filled => k \in DOMAIN rows' /\ rows'[k] = rows[k]
  <2>1. \A k \in DOMAIN rows : rows[k].filled => \A u \in chunk : u.key # k
    BY <1>1 DEF JobFresh
  <2> QED
    BY <1>2, <1>3, <2>1
<1>6. ASSUME NEW k \in new.pending, k[2] \in new.todo PROVE ~rows'[k].filled
  <2>1. k \in l.pending /\ k \in DOMAIN rows /\ k[2] \in l.todo
    BY <1>1, <1>4, <1>6 DEF JobGood
  <2>2. \A u \in chunk : u.key # k
    BY <1>1, <2>1 DEF JobFresh
  <2> QED
    BY <1>1, <1>3, <2>1, <2>2 DEF JobFresh
<1>7. ASSUME NEW u \in new.buffer PROVE u.key[2] \notin new.todo /\ ~rows'[u.key].filled
  <2>1. u \in l.buffer /\ u \notin chunk /\ u.key \in DOMAIN rows /\ new.todo = l.todo
    BY <1>1, <1>4 DEF JobGood
  <2>2. \A v \in chunk : v.key # u.key
    BY <1>1, <2>1 DEF JobFresh
  <2> QED
    BY <1>1, <1>3, <2>1, <2>2 DEF JobFresh
<1>8. \A u, v \in new.buffer : u.key = v.key => u = v
  BY <1>1, <1>4 DEF JobFresh
<1>9. JobFresh(job[j])'
  BY <1>4, <1>6, <1>7, <1>8 DEF JobFresh
<1>10. FreshInv'
  BY <1>9 DEF FreshInv, OneJob
<1> QED
  BY <1>5, <1>10

LEMMA NextFreshInv ==
  ASSUME OneJob, LabelInv, FreshInv, [Next]_vars
  PROVE  /\ FreshInv'
         /\ \A k \in DOMAIN rows : rows[k].filled => k \in DOMAIN rows' /\ rows'[k] = rows[k]
<1>1. /\ DOMAIN job = Jobs /\ \A j \in Jobs : JobGood(job[j]) /\ JobFresh(job[j])
      /\ JobGood(Idle) /\ JobFresh(Idle)
  BY DEF LabelInv, FreshInv, JobGood, JobFresh, Idle
<1>2. ASSUME RowsKeep, UNCHANGED job \/ FreshInv'
      PROVE  /\ FreshInv'
             /\ \A k \in DOMAIN rows : rows[k].filled => k \in DOMAIN rows' /\ rows'[k] = rows[k]
  BY <1>2, FreshUntouched DEF RowsKeep
<1>3. CASE NextDay \/ CloseSession
  BY <1>2, <1>3 DEF NextDay, CloseSession, RowsKeep
<1>4. ASSUME NEW s \in Symbols, NEW w \in FileWindows, Fetch(s, w) PROVE RowsKeep /\ UNCHANGED job
  BY <1>4 DEF Fetch, RowsKeep
<1>5. ASSUME NEW r \in Runs, NEW F \in FoldRows, WriteFeatures(r, F) PROVE RowsKeep /\ UNCHANGED job
  BY <1>5 DEF WriteFeatures, RowsKeep
<1>6. ASSUME NEW j \in Jobs, StartJob(j) PROVE RowsKeep /\ FreshInv'
  <2>1. PICK pending \in SUBSET DOMAIN rows :
          /\ \A k \in pending : ~rows[k].filled
          /\ job' = [job EXCEPT ![j] = [pc |-> "symbols", todo |-> {k[2] : k \in pending},
                                        pending |-> pending, buffer |-> {}]]
    BY <1>6 DEF StartJob, NeedsLabel
  <2> DEFINE jb == [pc |-> "symbols", todo |-> {k[2] : k \in pending}, pending |-> pending, buffer |-> {}]
  <2>2. JobGood(jb) /\ JobFresh(jb)
    BY <2>1 DEF JobGood, JobFresh
  <2>3. RowsKeep
    BY <1>6 DEF StartJob, RowsKeep
  <2> QED
    BY <1>1, <2>1, <2>2, <2>3, FreshKept
<1>7. ASSUME NEW j \in Jobs, NEW s \in Symbols, SkipSymbol(j, s) PROVE RowsKeep /\ FreshInv'
  <2> DEFINE l == job[j]
             jb == [pc |-> l.pc, todo |-> l.todo \ {s}, pending |-> l.pending, buffer |-> l.buffer]
  <2>1. job' = [job EXCEPT ![j] = [l EXCEPT !.todo = @ \ {s}]] /\ l.buffer = {} /\ RowsKeep
    BY <1>1, <1>7 DEF SkipSymbol, RowsKeep
  <2>2. JobGood(l)
    BY <1>1
  <2>3. job' = [job EXCEPT ![j] = jb]
    BY <2>1, <2>2, JobFields
  <2>4. JobGood(jb) /\ JobFresh(jb)
    BY <1>1, <2>1 DEF JobGood, JobFresh
  <2> QED
    BY <1>1, <2>1, <2>3, <2>4, FreshKept
<1>8. ASSUME NEW j \in Jobs, NEW s \in Symbols, LabelSymbol(j, s) PROVE RowsKeep /\ FreshInv'
  <2> DEFINE l == job[j]
             mine == {x \in l.pending : x[2] = s}
             ups(f) == {[key |-> k, row |-> Labelled(k, f)] : k \in mine}
  <2>1. PICK f \in Widest(s) :
          job' = [job EXCEPT ![j] = [l EXCEPT !.todo = @ \ {s}, !.buffer = ups(f)]]
    BY <1>1, <1>8 DEF LabelSymbol
  <2>2. RowsKeep /\ s \in l.todo
    BY <1>8 DEF LabelSymbol, RowsKeep
  <2> DEFINE jb == [pc |-> l.pc, todo |-> l.todo \ {s}, pending |-> l.pending, buffer |-> ups(f)]
  <2>3. job' = [job EXCEPT ![j] = jb]
    <3>1. JobGood(l)
      BY <1>1
    <3> HIDE DEF ups
    <3> QED
      BY <2>1, <3>1, JobFields
  <2>4. JobGood(jb)
    <3>1. l.pending \subseteq DOMAIN rows
      BY <1>1 DEF JobGood
    <3>2. ASSUME NEW u \in ups(f) PROVE u.key \in l.pending /\ RowGood(u.key, u.row)
      <4>1. PICK k \in mine : u = [key |-> k, row |-> Labelled(k, f)]
        OBVIOUS
      <4>2. RowGood(k, Labelled(k, f))
        BY <3>1, LabelledGood
      <4> QED
        BY <4>1, <4>2
    <3> HIDE DEF ups, l
    <3> QED
      BY <3>1, <3>2 DEF JobGood
  <2>5. JobFresh(jb)
    <3>1. \A k \in l.pending : k[2] \in l.todo => ~rows[k].filled
      BY <1>1 DEF JobFresh
    <3>2. \A k \in l.pending : k[2] \in l.todo \ {s} => ~rows[k].filled
      BY <3>1
    <3>3. \A u \in ups(f) : u.key[2] \notin l.todo \ {s} /\ ~rows[u.key].filled
      BY <2>2, <3>1
    <3>4. \A u, v \in ups(f) : u.key = v.key => u = v
      OBVIOUS
    <3> HIDE DEF ups, l
    <3> QED
      BY <3>2, <3>3, <3>4 DEF JobFresh
  <2> HIDE DEF jb
  <2> QED
    BY <1>1, <2>2, <2>3, <2>4, <2>5, FreshKept
<1>9. ASSUME NEW j \in Jobs, EndJob(j) \/ KillJob(j) PROVE RowsKeep /\ FreshInv'
  <2>1. job' = [job EXCEPT ![j] = Idle] /\ RowsKeep
    BY <1>9 DEF EndJob, KillJob, RowsKeep
  <2> QED
    BY <1>1, <2>1, FreshKept
<1>10. CASE UNCHANGED vars
  BY <1>2, <1>10 DEF vars, RowsKeep
<1> QED
  BY <1>2, <1>3, <1>4, <1>5, <1>6, <1>7, <1>8, <1>9, <1>10, FlushKeeps DEF Next, JobStep

(* A row once labelled is never labelled again, by however many jobs one   *)
(* after the other, killed wherever: labeling.py promises it of a re-run.  *)
(* Two jobs at once may overwrite each other's labels.                     *)
THEOREM LabelsAlwaysKept == ASSUME OneJob PROVE Spec => LabelsKept
<1>1. LabelInv /\ FreshInv /\ [Next]_vars
        => FreshInv' /\ [\A k \in DOMAIN rows : rows[k].filled
                              => k \in DOMAIN rows' /\ rows'[k] = rows[k]]_vars
  BY NextFreshInv
<1> QED
  BY <1>1, InitFreshInv, LabelInvAlways, PTL DEF Spec, LabelsKept

-----------------------------------------------------------------------------
(* The embargo.  A day has at most Width rows, so that rows Embargo or     *)
(* more places apart are also days apart.                                  *)
LEMMA WidthBounds ==
  ASSUME NEW K, IsFiniteSet(K), K \subseteq (1..LastDay) \X Symbols \X Runs, LastDay \in Nat \ {0}
  PROVE  /\ Width(K) \in Nat
         /\ \A d \in Int : Cardinality({k \in K : k[1] = d}) <= Width(K)
<1> DEFINE On(d) == {k \in K : k[1] = d}
           S == {Cardinality(On(d)) : d \in 1..LastDay}
<1>1. Cardinality(K) \in Nat
  BY FS_CardinalityType
<1>2. ASSUME NEW d \in Int
      PROVE  Cardinality(On(d)) \in 0..Cardinality(K)
  <2>1. On(d) \in SUBSET K
    OBVIOUS
  <2> HIDE DEF On
  <2>2. IsFiniteSet(On(d)) /\ Cardinality(On(d)) <= Cardinality(K)
    BY <2>1, FS_Subset
  <2>3. Cardinality(On(d)) \in Nat
    BY <2>2, FS_CardinalityType
  <2> QED
    BY <1>1, <2>2, <2>3
<1>3. S \subseteq 0..Cardinality(K) /\ S # {}
  <2>1. 1 \in 1..LastDay /\ 1..LastDay \subseteq Int
    OBVIOUS
  <2> HIDE DEF On
  <2> QED
    BY <1>2, <2>1
<1>4. Width(K) = Max(S)
  BY DEF Width
<1>5. Width(K) \in S /\ \A x \in S : x <= Width(K)
  <2> HIDE DEF S
  <2> QED
    BY <1>1, <1>3, <1>4, GreatestDay
<1>6. Width(K) \in Nat
  <2>1. 0..Cardinality(K) \subseteq Nat
    BY <1>1
  <2> HIDE DEF S
  <2> QED
    BY <1>3, <1>5, <2>1
<1>7. ASSUME NEW d \in Int
      PROVE  Cardinality(On(d)) <= Width(K)
  <2>1. CASE d \in 1..LastDay
    BY <1>5, <2>1
  <2>2. CASE d \notin 1..LastDay
    <3>1. On(d) = {}
      BY <2>2
    <3>2. Cardinality({}) = 0
      BY FS_EmptySet
    <3> QED
      BY <1>6, <3>1, <3>2
  <2> QED
    BY <2>1, <2>2
<1> QED
  BY <1>6, <1>7

LEMMA OneMoreDay ==
  ASSUME NEW n \in Nat \ {0}, NEW w \in Nat, NEW x \in Nat, x <= (n - 1) * w,
         NEW y \in Nat, y <= w
  PROVE  x + y <= n * w
<1>1. n * w = (n - 1) * w + w
  BY Z3
<1> QED
  BY <1>1, Z3

LEMMA RowsOfDays ==
  ASSUME NEW K, IsFiniteSet(K), \A k \in K : k[1] \in Int, NEW w \in Nat,
         \A d \in Int : Cardinality({k \in K : k[1] = d}) <= w, NEW d \in Int
  PROVE  \A n \in Nat : Cardinality({k \in K : k[1] \in d..(d + n - 1)}) <= n * w
<1> DEFINE In(n) == {k \in K : k[1] \in d..(d + n - 1)}
           T == {n \in Nat : ~(Cardinality(In(n)) <= n * w)}
<1>1. SUFFICES ASSUME T # {} PROVE FALSE
  OBVIOUS
<1>2. PICK n \in T : \A m \in T : n <= m
  <2>1. T \subseteq Nat
    OBVIOUS
  <2> HIDE DEF T
  <2> QED
    BY <1>1, <2>1, LeastNat
<1>3. n # 0
  <2>1. Cardinality({}) = 0
    BY FS_EmptySet
  <2>2. In(0) = {}
    OBVIOUS
  <2>3. 0 <= 0 * w
    OBVIOUS
  <2>4. 0 \notin T
    BY <2>1, <2>2, <2>3
  <2> QED
    BY <2>4
<1>4. n - 1 \in Nat /\ n - 1 \notin T
  <2>1. n \in Nat /\ n - 1 \in Nat /\ ~(n <= n - 1)
    BY <1>3
  <2> QED
    BY <1>2, <2>1
<1> DEFINE on == {k \in K : k[1] = d + n - 1}
<1>5. In(n) = In(n - 1) \cup on
  BY <1>4
<1>6. In(n - 1) \in SUBSET K /\ on \in SUBSET K
  OBVIOUS
<1>7. Cardinality(In(n - 1)) <= (n - 1) * w
  BY <1>4
<1>8. Cardinality(on) <= w
  <2>1. d + n - 1 \in Int
    OBVIOUS
  <2> QED
    BY <2>1
<1>9. ~(Cardinality(In(n)) <= n * w) /\ n \in Nat
  BY <1>2
<1> HIDE DEF In, on, T
<1>10. IsFiniteSet(In(n - 1)) /\ IsFiniteSet(on)
  BY <1>6, FS_Subset
<1>11. PICK x \in Nat, y \in Nat : x = Cardinality(In(n - 1)) /\ y = Cardinality(on)
  BY <1>10, FS_CardinalityType
<1>12. IsFiniteSet(In(n - 1) \cap on)
  BY <1>10, FS_Intersection
<1>13. PICK z \in Nat : z = Cardinality(In(n - 1) \cap on)
  BY <1>12, FS_CardinalityType
<1>14. Cardinality(In(n)) = x + y - z
  BY <1>5, <1>10, <1>11, <1>13, FS_Union
<1>15. x + y <= n * w
  BY <1>3, <1>7, <1>8, <1>9, <1>11, OneMoreDay
<1>16. PICK v \in Int : v = n * w
  BY <1>9
<1>17. x + y - z <= v
  BY <1>15, <1>16
<1> QED
  BY <1>9, <1>14, <1>16, <1>17

(* Rows whose days are at most n apart are fewer than n + 1 days' worth of *)
(* rows apart.                                                             *)
LEMMA PositionsApart ==
  ASSUME NEW K, IsFiniteSet(K), K \subseteq (1..LastDay) \X Symbols \X Runs, NEW w \in Nat,
         \A d \in Int : Cardinality({k \in K : k[1] = d}) <= w,
         NEW a \in K, NEW b \in K, NEW n \in Nat, b[1] <= a[1] + n
  PROVE  /\ Position(K, a) \in Nat /\ Position(K, b) \in Nat
         /\ Position(K, b) < Position(K, a) + (n + 1) * w
<1> DEFINE First(e) == {x \in K : UpTo(x, e)}
           R == {k \in K : k[1] \in a[1]..(a[1] + (n + 1) - 1)}
<1>1. \A k \in K : k[1] \in Int /\ k[2] \in Int /\ k[3] \in Int
  <2>1. 1..LastDay \subseteq Int /\ Symbols \subseteq Int /\ Runs \subseteq Int
    BY LabelAssumption
  <2>2. \A k \in Int \X Int \X Int : k[1] \in Int /\ k[2] \in Int /\ k[3] \in Int
    OBVIOUS
  <2>3. K \subseteq Int \X Int \X Int
    BY <2>1
  <2> QED
    BY <2>2, <2>3
<1>2. Cardinality(R) <= (n + 1) * w
  <2>1. a[1] \in Int /\ n + 1 \in Nat
    BY <1>1
  <2> QED
    BY <1>1, <2>1, RowsOfDays
<1>3. a \in R
  BY <1>1
<1>4. First(b) \subseteq First(a) \cup (R \ {a})
  <2> SUFFICES ASSUME NEW x \in First(b), x \notin First(a)
               PROVE  x \in R \ {a}
    OBVIOUS
  <2>1. x \in K /\ x[1] \in Int /\ x[2] \in Int /\ a[1] \in Int /\ a[2] \in Int /\ b[1] \in Int
        /\ UpTo(x, b) /\ ~UpTo(x, a)
    BY <1>1
  <2>2. x[1] <= b[1] /\ ~(x[1] < a[1])
    BY <2>1 DEF UpTo
  <2>3. x # a
    <3>1. a[3] \in Int
      BY <1>1
    <3>2. UpTo(a, a)
      BY <2>1, <3>1 DEF UpTo
    <3> QED
      BY <2>1, <3>2
  <2>4. x[1] \in a[1]..(a[1] + (n + 1) - 1)
    BY <2>1, <2>2
  <2> QED
    BY <2>1, <2>3, <2>4
<1>5. First(a) \in SUBSET K /\ First(b) \in SUBSET K /\ R \in SUBSET K
  OBVIOUS
<1>6. Position(K, a) = Cardinality(First(a)) /\ Position(K, b) = Cardinality(First(b))
  BY DEF Position
<1> HIDE DEF First, R
<1>7. IsFiniteSet(First(a)) /\ IsFiniteSet(First(b)) /\ IsFiniteSet(R)
  BY <1>5, FS_Subset
<1>8. IsFiniteSet(R \ {a}) /\ Cardinality(R \ {a}) = Cardinality(R) - 1
  BY <1>3, <1>7, FS_RemoveElement
<1>9. IsFiniteSet(First(a) \cup (R \ {a})) /\ IsFiniteSet(First(a) \cap (R \ {a}))
  BY <1>7, <1>8, FS_Union, FS_Intersection
<1>10. PICK p \in Nat, q \in Nat, c \in Nat, z \in Nat, u \in Nat :
         /\ p = Cardinality(First(a)) /\ q = Cardinality(First(b)) /\ c = Cardinality(R)
         /\ z = Cardinality(First(a) \cap (R \ {a})) /\ u = Cardinality(First(a) \cup (R \ {a}))
  BY <1>7, <1>9, FS_CardinalityType
<1>11. q <= u
  BY <1>4, <1>9, <1>10, FS_Subset
<1>12. u = p + (c - 1) - z
  BY <1>7, <1>8, <1>10, FS_Union
<1>13. PICK v \in Int : v = (n + 1) * w
  OBVIOUS
<1>14. c <= v
  BY <1>2, <1>10, <1>13
<1> QED
  BY <1>6, <1>10, <1>11, <1>12, <1>13, <1>14

(* The keys of finitely many days, symbols and runs are finitely many.     *)
LEMMA TriplesFinite ==
  ASSUME NEW A, NEW B, NEW C, IsFiniteSet(A), IsFiniteSet(B), IsFiniteSet(C)
  PROVE  IsFiniteSet(A \X B \X C)
<1> DEFINE S == A \X (B \X C)
           T == A \X B \X C
           f == [x \in S |-> <<x[1], x[2][1], x[2][2]>>]
<1>1. IsFiniteSet(B \X C)
  BY FS_Product
<1>2. IsFiniteSet(S)
  BY <1>1, FS_Product
<1>3. f \in [S -> T]
  OBVIOUS
<1>4. ASSUME NEW t \in T PROVE \E x \in S : f[x] = t
  <2>1. PICK a \in A, b \in B, c \in C : t = <<a, b, c>>
    OBVIOUS
  <2>2. <<a, <<b, c>>>> \in S /\ f[<<a, <<b, c>>>>] = t
    BY <2>1
  <2> QED
    BY <2>2
<1> HIDE DEF S, T, f
<1>5. f \in Surjection(S, T)
  BY <1>3, <1>4 DEF Surjection
<1>6. IsFiniteSet(T)
  BY <1>2, <1>5, FS_Surjection
<1> QED
  BY <1>6 DEF T

(* Where every symbol has a bar every day, a label ends its horizon after  *)
(* the day of its row.                                                     *)
NoGaps == \A s \in Symbols : Bars[s] = 1..LastDay

LEMMA LabelEndsAtHorizon ==
  ASSUME NoGaps, LabelInv, NEW lb \in Lookbacks, NEW k \in DOMAIN rows, rows[k].returns[lb] # Null
  PROVE  LabelEnd(k, lb) = k[1] + lb
<1> DEFINE r == rows[k].returns[lb]
<1>1. /\ k[1] \in 1..LastDay /\ k[2] \in Symbols /\ today \in 0..LastDay /\ LastDay \in Nat
      /\ lb \in Nat /\ lb > 0 /\ k[1] \in Nat
  <2>1. LastDay \in Nat /\ lb \in Nat /\ lb > 0
    BY LabelAssumption
  <2>2. today \in 0..LastDay /\ k \in (1..today) \X Symbols \X Runs
    BY DEF LabelInv
  <2> QED
    BY <2>1, <2>2
<1>2. /\ r[1] \in Nat /\ r[1] <= k[1] /\ Cardinality((1..LastDay) \cap r[1] + 1..k[1]) = 0
      /\ r[2] \in Nat /\ r[2] <= today /\ Cardinality((1..LastDay) \cap r[1] + 1..r[2]) = lb
  BY <1>1 DEF LabelInv, RowGood, Market, NoGaps
<1>3. PICK p \in Nat, q \in Nat : p = r[1] /\ q = r[2]
  BY <1>2
<1> HIDE DEF r
<1>4. (1..LastDay) \cap p + 1..k[1] = p + 1..k[1] /\ (1..LastDay) \cap p + 1..q = p + 1..q
  BY <1>1, <1>2, <1>3
<1>5. /\ Cardinality(p + 1..k[1]) = IF p + 1 > k[1] THEN 0 ELSE k[1] - (p + 1) + 1
      /\ Cardinality(p + 1..q) = IF p + 1 > q THEN 0 ELSE q - (p + 1) + 1
  <2>1. p + 1 \in Int /\ k[1] \in Int /\ q \in Int
    BY <1>1
  <2> QED
    BY <2>1, FS_Interval
<1>6. p = k[1]
  <2>1. 0 = IF p + 1 > k[1] THEN 0 ELSE k[1] - (p + 1) + 1
    BY <1>2, <1>3, <1>4, <1>5
  <2>2. p <= k[1]
    BY <1>2, <1>3
  <2> QED
    BY <1>1, <2>1, <2>2
<1>7. q = p + lb
  <2>1. lb = IF p + 1 > q THEN 0 ELSE q - (p + 1) + 1
    BY <1>2, <1>3, <1>4, <1>5
  <2> QED
    BY <1>1, <2>1
<1> QED
  BY <1>3, <1>6, <1>7 DEF r, LabelEnd

(* No training label of a fold reaches the days it is tested on, if the    *)
(* embargo, which counts rows, is as many rows as the horizon's days have  *)
(* and no symbol skips a day (cv.py, training.train_walk_forward).         *)
THEOREM EmbargoAlwaysEnoughRows == ASSUME NoGaps PROVE Spec => []EmbargoOfEnoughRows
<1>1. LabelInv => EmbargoOfEnoughRows
  <2> SUFFICES ASSUME LabelInv, NEW lb \in Lookbacks,
                      Embargo + 1 >= Width(Trainable(lb)) * (lb + 1)
               PROVE  NoLeak(lb)
    BY DEF EmbargoOfEnoughRows
  <2> DEFINE K == Trainable(lb)
             w == Width(K)
  <2>1. K \subseteq (1..LastDay) \X Symbols \X Runs /\ LastDay \in Nat /\ lb \in Nat
    BY LabelAssumption DEF LabelInv, Trainable
  <2>2. IsFiniteSet(K)
    <3>1. IsFiniteSet(1..LastDay) /\ IsFiniteSet(Symbols) /\ IsFiniteSet(Runs)
      BY <2>1, LabelAssumption, FS_Interval
    <3>2. IsFiniteSet((1..LastDay) \X Symbols \X Runs)
      BY <3>1, TriplesFinite
    <3> HIDE DEF K
    <3> QED
      BY <2>1, <3>2, FS_Subset
  <2>3. \A k \in K : k \in DOMAIN rows /\ rows[k].returns[lb] # Null
    BY DEF Trainable
  <2> SUFFICES ASSUME NEW sp \in TrainedFolds(Cardinality(K)), NEW a \in K, NEW b \in K,
                      Position(K, a) \in sp.train, Position(K, b) \in sp.test
               PROVE  LabelEnd(a, lb) < b[1]
    BY DEF NoLeak
  <2>4. LabelEnd(a, lb) = a[1] + lb
    BY <2>3, LabelEndsAtHorizon
  <2> HIDE DEF K, w
  <2>5. PICK n \in Nat, i \in 1..NFolds : n = Cardinality(K) /\ sp = Split(n, i)
    BY <2>2, FS_CardinalityType DEF TrainedFolds
  <2>6. PICK e \in Int, f \in Int : e = Edge(n, i) /\ f = Edge(n, i + 1)
    <3>1. NFolds \in Nat /\ n \div (NFolds + 1) \in Int
      BY LabelAssumption
    <3> QED
      BY <3>1 DEF Edge
  <2>7. Position(K, a) \in 1..(e - Embargo) /\ Position(K, b) \in (e + 1)..f
    BY <2>5, <2>6 DEF Split
  <2>8. a[1] \in 1..LastDay /\ b[1] \in 1..LastDay
    BY <2>1
  <2>9. LastDay \in Nat \ {0}
    BY <2>1, <2>8
  <2>10. w \in Nat /\ \A d \in Int : Cardinality({k \in K : k[1] = d}) <= w
    BY <2>1, <2>2, <2>9, WidthBounds DEF w
  <2>11. SUFFICES ASSUME b[1] <= a[1] + lb PROVE FALSE
    BY <2>1, <2>4, <2>8
  <2>12. Position(K, b) < Position(K, a) + (lb + 1) * w
    BY <2>1, <2>2, <2>10, <2>11, PositionsApart
  <2>13. PICK v \in Int : v = (lb + 1) * w
    BY <2>1, <2>10
  <2>14. Embargo + 1 >= v
    <3>1. Embargo + 1 >= w * (lb + 1)
      BY DEF K, w
    <3>2. w * (lb + 1) = (lb + 1) * w
      BY <2>1, <2>10, Z3
    <3> QED
      BY <2>13, <3>1, <3>2
  <2>15. Embargo \in Nat
    BY LabelAssumption
  <2> QED
    BY <2>7, <2>12, <2>13, <2>14, <2>15
<1> QED
  BY <1>1, LabelInvAlways, PTL
=============================================================================
