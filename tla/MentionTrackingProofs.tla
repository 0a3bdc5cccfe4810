------------------------ MODULE MentionTrackingProofs ------------------------
(***************************************************************************)
(* Proofs about MentionTracking, for any number of posts, tickers, jobs    *)
(* and horizons, any holidays and any overlap of jobs that run, raise and  *)
(* crash: no stamped post lacks a mention, a bet is the right one, an      *)
(* outcome was measured over its own horizon, and the tables implement     *)
(* BetLedger.                                                              *)
(***************************************************************************)
EXTENDS MentionTracking, FiniteSetTheorems, TLAPS

-----------------------------------------------------------------------------
(* The calendar *)

LEMMA DayType ==
  ASSUME NEW t \in Int, -1 <= t
  PROVE  /\ Day(t) \in Int /\ Slot(t) \in 0..3 /\ t = 4 * Day(t) + Slot(t) /\ -1 <= Day(t)
BY SMT DEF Day, Slot

(* A weekend lasts two days, so the next weekday is at most three off.     *)
LEMMA NextBusinessDayBounds ==
  ASSUME NEW d \in Int, -1 <= d
  PROVE  /\ NextBusinessDay(d) \in (d + 1)..(d + 3)
         /\ IsWeekday(NextBusinessDay(d))
         /\ \A e \in (d + 1)..(NextBusinessDay(d) - 1) : ~IsWeekday(e)
<1> DEFINE W == {e \in (d + 1)..(d + 3) : IsWeekday(e)}
<1>1. IsWeekday(d + 1) \/ IsWeekday(d + 2) \/ IsWeekday(d + 3)
  BY MentionAssumption, SMT DEF IsWeekday
<1>2. PICK m \in W : \A e \in W : m <= e
  <2>1. CASE IsWeekday(d + 1)
    BY <2>1
  <2>2. CASE ~IsWeekday(d + 1) /\ IsWeekday(d + 2)
    BY <2>2
  <2>3. CASE ~IsWeekday(d + 1) /\ ~IsWeekday(d + 2) /\ IsWeekday(d + 3)
    BY <2>3
  <2> QED
    BY <1>1, <2>1, <2>2, <2>3
<1>3. NextBusinessDay(d) = Min(W)
  BY DEF NextBusinessDay
<1>4. Min(W) \in W /\ \A e \in W : Min(W) <= e
  BY <1>2 DEF Min
<1> QED
  BY <1>3, <1>4

LEMMA EntryDayType ==
  ASSUME NEW t \in Int, -1 <= t
  PROVE  EntryDay(t) \in Nat
<1>1. CASE Timing(t) = "overnight"
  <2>1. Slot(t) # 3
    BY <1>1 DEF Timing
  <2>2. Day(t) \in Nat
    BY <2>1, DayType, SMT
  <2> QED
    BY <1>1, <2>2 DEF EntryDay
<1>2. CASE Timing(t) # "overnight"
  BY <1>2, DayType, NextBusinessDayBounds, SMT DEF EntryDay
<1> QED
  BY <1>1, <1>2

(* The entry of a post out of hours is the first weekday open after it.    *)
LEMMA EntryIsFirstOpen ==
  ASSUME NEW t \in Moments, OutOfHours(t)
  PROVE  LET Opens == {d \in 0..(LastDay + 4) : IsWeekday(d) /\ t < OpenOf(d)} IN
         /\ EntryDay(t) = Min(Opens)
         /\ EntryDay(t) \in 0..(LastDay + 4)
         /\ ~(IsWeekday(Day(t)) /\ Slot(t) = 1)
<1> DEFINE Opens == {d \in 0..(LastDay + 4) : IsWeekday(d) /\ t < OpenOf(d)}
<1> DEFINE E == EntryDay(t)
<1>1. t \in Nat /\ Day(t) \in 0..LastDay /\ Slot(t) \in 0..3 /\ t = 4 * Day(t) + Slot(t)
  BY MentionAssumption, SMT DEF Moments, Day, Slot
<1>2. IsWeekday(Day(t)) /\ Slot(t) # 1
  BY <1>1, SMT DEF OutOfHours, Timing
<1>3. E \in Opens /\ \A d \in Opens : E <= d
  <2>1. CASE Slot(t) = 0
    <3>1. E = Day(t)
      BY <1>2, <2>1 DEF EntryDay, Timing
    <3> QED
      BY <1>1, <1>2, <2>1, <3>1, MentionAssumption, SMT DEF OpenOf
  <2>2. CASE Slot(t) \in {2, 3}
    <3>1. E = NextBusinessDay(Day(t))
      BY <1>2, <2>2 DEF EntryDay, Timing
    <3>2. /\ E \in (Day(t) + 1)..(Day(t) + 3) /\ IsWeekday(E)
          /\ \A e \in (Day(t) + 1)..(E - 1) : ~IsWeekday(e)
      <4>1. Day(t) \in Int /\ -1 <= Day(t)
        BY <1>1, MentionAssumption, SMT
      <4> HIDE DEF E
      <4> QED
        BY <3>1, <4>1, NextBusinessDayBounds
    <3>3. E \in Opens
      BY <1>1, <3>2, MentionAssumption, SMT DEF OpenOf
    <3>4. ASSUME NEW d \in Opens PROVE E <= d
      <4>1. Day(t) < d
        BY <1>1, <2>2, SMT DEF OpenOf
      <4> QED
        BY <1>1, <3>2, <4>1, SMT
    <3> QED
      BY <3>3, <3>4
  <2> QED
    BY <1>1, <1>2, <2>1, <2>2
<1>4. \A d \in Opens : d \in Int
  BY MentionAssumption
<1>5. Min(Opens) = E
  BY <1>3, <1>4, SMT DEF Min
<1> QED
  BY <1>2, <1>3, <1>5

-----------------------------------------------------------------------------
(* Types *)

Types == MentionTypeOK /\ now \in Awake

AnyBars == Panels \cup {NoBars}

LEMMA IdleType == Idle \in JobType
BY MentionAssumption, SMT DEF Idle, JobType, Stages

LEMMA InitTypes == MentionInit => Types
<1> SUFFICES ASSUME MentionInit PROVE Types
  OBVIOUS
<1>1. NoBet \in [entry: Nat \cup {-1}, base: AnyBars, result: [h: Horizons \cup {0}, whole: BOOLEAN]]
  BY SMT DEF NoBet, NoResult, AnyBars
<1>2. job \in [Jobs -> JobType]
  BY IdleType DEF MentionInit
<1>3. now \in Moments /\ now \in Awake
  BY MentionAssumption DEF MentionInit, Moments
<1>4. [key |-> -1, bars |-> NoBars] \in [key: 0..(LastDay + 1) \cup {-1}, bars: AnyBars]
  BY SMT DEF AnyBars
<1>5. postedAt \in [Posts -> 0..LastPublish \cup {Unpublished}] /\ faults \in 0..MaxFaults
  BY MentionAssumption, SMT DEF MentionInit, Unpublished
<1> QED
  BY <1>1, <1>2, <1>3, <1>4, <1>5 DEF MentionInit, Types, MentionTypeOK, AnyBars

-----------------------------------------------------------------------------
(* The invariant: what the tables hold, and what each job goes by *)

Resting == {"idle", "fetched", "extracted"}
Posted(p) == postedAt[p] # Unpublished
Stored(p) == stored[p] # "no"
SeenBars(bars) == bars = NoBars \/ \E m \in Awake : m <= now /\ bars = BarsAt(m)
Warranted(k) ==
  /\ Posted(k[1]) /\ OutOfHours(postedAt[k[1]])
  /\ mentions[<<k[1], k[2]>>] = "negative"

OwnHorizon(k) ==
  Settled(k) =>
    /\ bets[k].result.h = k[3]
    /\ Cardinality({d \in TradingDays : bets[k].entry < d /\ OpenOf(d) <= now}) >= k[3]

BetOK(k) ==
  Placed(k) => /\ Warranted(k)
               /\ bets[k].entry = EntryDay(postedAt[k[1]])
               /\ bets[k].base \in Panels

TablesOK ==
  /\ \A p \in Posts : Stored(p) => Posted(p)
  /\ \A p \in Posts, t \in Tickers : mentions[<<p, t>>] # "none" => Stored(p)
  /\ StampedComplete
  /\ \A k \in Keys : BetOK(k) /\ OwnHorizon(k)
  /\ \A t \in Tickers : SeenBars(cache[t].bars)

FetchOK(l) == l.stage = "fetch" => \A p \in l.posts : Posted(p)
ExtractOK(l) ==
  l.stage \in {"extract", "mentions"} =>
    /\ \A p \in Posts : Named[p] \subseteq l.candidates[p]
    /\ \A p \in l.posts : Stored(p)
(* Every candidate of the post in hand has its row or is still to write.   *)
MentionsOK(l) ==
  l.stage = "mentions" =>
    /\ l.post \in Posts /\ Stored(l.post)
    /\ \A t \in l.candidates[l.post] :
         mentions[<<l.post, t>>] # "none" \/ \E f \in l.found : f[1] = t
RestOK(l) == l.stage \in Resting => l.writing = {}
PredictOK(l) ==
  l.stage = "predict" =>
    \A k \in l.keys : Warranted(k) /\ (k \in l.writing => l.bars[k[2]] # NoBars)
SettleOK(l) == l.stage = "settle" => \A k \in l.keys : Placed(k)
BarsOK(l) == \A t \in Tickers : SeenBars(l.bars[t])

JobOK(l) ==
  /\ FetchOK(l) /\ ExtractOK(l) /\ MentionsOK(l) /\ RestOK(l)
  /\ PredictOK(l) /\ SettleOK(l) /\ BarsOK(l)

MentionInv == Types /\ TablesOK /\ \A j \in Jobs : JobOK(job[j])

LEMMA IdleOK == JobOK(Idle)
BY SMT DEF Idle, JobOK, FetchOK, ExtractOK, MentionsOK, RestOK, PredictOK, SettleOK, BarsOK, SeenBars,
   Resting

LEMMA InitInv == MentionInit => MentionInv
<1> SUFFICES ASSUME MentionInit PROVE MentionInv
  OBVIOUS
<1>1. \A j \in Jobs : JobOK(job[j])
  BY IdleOK DEF MentionInit
<1>2. \A p \in Posts : ~Stored(p) /\ stored[p] # "stamped"
  BY DEF MentionInit, Stored
<1>3. \A k \in Keys : ~Placed(k) /\ ~Settled(k)
  BY DEF MentionInit, Placed, Settled, NoBet
<1>4. \A p \in Posts, t \in Tickers : mentions[<<p, t>>] = "none"
  BY DEF MentionInit
<1>5. \A t \in Tickers : SeenBars(cache[t].bars)
  BY DEF MentionInit, SeenBars
<1> QED
  BY <1>1, <1>2, <1>3, <1>4, <1>5, InitTypes
     DEF MentionInv, TablesOK, StampedComplete, BetOK, OwnHorizon

-----------------------------------------------------------------------------
(* A job's step leaves the locals of the others alone.                     *)
LEMMA LocalStep ==
  ASSUME NEW j \in Jobs, job \in [Jobs -> JobType], NEW new \in JobType, Local(j, new)
  PROVE  /\ job' \in [Jobs -> JobType]
         /\ job'[j] = new
         /\ \A i \in Jobs : i # j => job'[i] = job[i]
BY DEF Local

(* Steps that change no table and no clock keep the invariant if the new    *)
(* locals do.                                                              *)
LEMMA LocalKeeps ==
  ASSUME MentionInv, NEW j \in Jobs, NEW new \in JobType, JobOK(new), Local(j, new),
         UNCHANGED <<now, postedAt, stored, mentions, bets, cache>>, faults' \in 0..MaxFaults
  PROVE  MentionInv'
<1>1. Types'
  BY LocalStep DEF MentionInv, Types, MentionTypeOK
<1>2. TablesOK'
  BY DEF MentionInv, TablesOK, StampedComplete, BetOK, OwnHorizon, Warranted, Placed, Settled,
         SeenBars, Stored, Posted
<1>3. ASSUME NEW i \in Jobs PROVE JobOK(job[i])'
  <2>1. JobOK(job'[i])
    BY LocalStep DEF MentionInv, Types, MentionTypeOK
  <2> QED
    BY <2>1 DEF JobOK, FetchOK, ExtractOK, MentionsOK, RestOK, PredictOK, SettleOK, BarsOK,
                Warranted, Placed, SeenBars, Stored, Posted
<1> QED
  BY <1>1, <1>2, <1>3 DEF MentionInv

-----------------------------------------------------------------------------
(* The steps of a job that change its locals only *)

LEMMA StartFetchInv ==
  ASSUME MentionInv, NEW j \in Jobs, StartFetch(j)
  PROVE  MentionInv'
<1> DEFINE new == [Idle EXCEPT !.stage = "fetch", !.chain = j \in CronJobs,
                           !.posts = {p \in Posts : postedAt[p] # Unpublished}]
<1>1. job[j] \in JobType /\ JobOK(job[j]) /\ faults \in 0..MaxFaults
  BY DEF MentionInv, Types, MentionTypeOK
<1>2. "fetch" \in Stages /\ (j \in CronJobs) \in BOOLEAN /\ {p \in Posts : postedAt[p] # Unpublished} \in SUBSET Posts
  BY DEF Stages
<1>3. new \in JobType
  BY <1>2, IdleType DEF JobType
<1>4. JobOK(new)
  BY IdleOK, SMT DEF JobOK, FetchOK, ExtractOK, MentionsOK, RestOK, PredictOK, SettleOK, BarsOK, Resting, Idle, Posted
<1>5. Local(j, new) /\ UNCHANGED <<now, postedAt, stored, mentions, bets, cache, faults>>
  BY DEF StartFetch, clock, tables, Return, Die
<1> HIDE DEF new
<1> QED
  BY <1>1, <1>3, <1>4, <1>5, LocalKeeps

LEMMA SeePostInv ==
  ASSUME MentionInv, NEW j \in Jobs, NEW p \in job[j].posts, SeePost(j, p)
  PROVE  MentionInv'
<1> DEFINE new == IF stored[p] = "no" THEN [job[j] EXCEPT !.writing = {p}]
                              ELSE [job[j] EXCEPT !.posts = @ \ {p}]
<1>1. job[j] \in JobType /\ JobOK(job[j]) /\ faults \in 0..MaxFaults
  BY DEF MentionInv, Types, MentionTypeOK
<1>2. new \in JobType
  BY <1>1, SMT DEF JobType
<1>3. JobOK(new)
  BY <1>1, SMT DEF SeePost, JobOK, FetchOK, ExtractOK, MentionsOK, RestOK, PredictOK, SettleOK, BarsOK, Resting
<1>4. Local(j, new) /\ UNCHANGED <<now, postedAt, stored, mentions, bets, cache, faults>>
  BY DEF SeePost, clock, tables, Return, Die
<1> HIDE DEF new
<1> QED
  BY <1>1, <1>2, <1>3, <1>4, LocalKeeps

LEMMA EndFetchInv ==
  ASSUME MentionInv, NEW j \in Jobs, EndFetch(j)
  PROVE  MentionInv'
<1> DEFINE new == IF job[j].chain THEN [Idle EXCEPT !.stage = "fetched", !.chain = TRUE] ELSE Idle
<1>1. job[j] \in JobType /\ JobOK(job[j]) /\ faults \in 0..MaxFaults
  BY DEF MentionInv, Types, MentionTypeOK
<1>2. "fetched" \in Stages /\ TRUE \in BOOLEAN
  BY DEF Stages
<1>3. new \in JobType
  BY <1>2, IdleType DEF JobType
<1>4. JobOK(new)
  BY IdleOK, SMT DEF JobOK, FetchOK, ExtractOK, MentionsOK, RestOK, PredictOK, SettleOK, BarsOK, Resting, Idle
<1>5. Local(j, new) /\ UNCHANGED <<now, postedAt, stored, mentions, bets, cache, faults>>
  BY DEF EndFetch, clock, tables, Return, Die
<1> HIDE DEF new
<1> QED
  BY <1>1, <1>3, <1>4, <1>5, LocalKeeps

LEMMA StartExtractInv ==
  ASSUME MentionInv, NEW j \in Jobs, NEW batch, NEW listed \in BOOLEAN, StartExtract(j, batch, listed)
  PROVE  MentionInv'
<1> DEFINE new == [job[j] EXCEPT !.stage = "extract", !.posts = batch,
                             !.candidates = [p \in Posts |-> Candidates(p, listed)]]
<1>1. job[j] \in JobType /\ JobOK(job[j]) /\ faults \in 0..MaxFaults
  BY DEF MentionInv, Types, MentionTypeOK
<1>2. batch \subseteq Posts /\ \A p \in batch : Stored(p)
  BY DEF StartExtract, IsBatch, Unstamped, Stored
<1>3. \A p \in Posts : Candidates(p, listed) \subseteq Tickers /\ Named[p] \subseteq Candidates(p, listed)
  BY MentionAssumption DEF Candidates
<1>4. "extract" \in Stages /\ batch \in SUBSET Posts
      /\ [p \in Posts |-> Candidates(p, listed)] \in [Posts -> SUBSET Tickers]
  BY <1>2, <1>3 DEF Stages
<1>5. new \in JobType
  BY <1>1, <1>4 DEF JobType
<1>6. JobOK(new)
  BY <1>1, <1>2, <1>3, SMT DEF JobOK, FetchOK, ExtractOK, MentionsOK, RestOK, PredictOK, SettleOK, BarsOK, Resting
<1>7. Local(j, new) /\ UNCHANGED <<now, postedAt, stored, mentions, bets, cache, faults>>
  BY DEF StartExtract, clock, tables, Return, Die
<1> HIDE DEF new
<1> QED
  BY <1>1, <1>5, <1>6, <1>7, LocalKeeps

LEMMA ExtractInv ==
  ASSUME MentionInv, NEW j \in Jobs, NEW p \in job[j].posts,
         NEW answer \in [job[j].candidates[p] -> Sentiments], Extract(j, p, answer)
  PROVE  MentionInv'
<1> DEFINE new == [job[j] EXCEPT !.stage = "mentions", !.post = p,
                             !.found = {<<t, answer[t]>> : t \in job[j].candidates[p]}]
<1>1. job[j] \in JobType /\ JobOK(job[j]) /\ faults \in 0..MaxFaults
  BY DEF MentionInv, Types, MentionTypeOK
<1>2. "mentions" \in Stages /\ p \in Posts /\ {<<t, answer[t]>> : t \in job[j].candidates[p]} \in SUBSET (Tickers \X Sentiments)
  BY <1>1, SMT DEF JobType, Stages
<1>3. \A t \in job[j].candidates[p] :
        \E f \in {<<u, answer[u]>> : u \in job[j].candidates[p]} : f[1] = t
  <2> TAKE t \in job[j].candidates[p]
  <2> WITNESS <<t, answer[t]>> \in {<<u, answer[u]>> : u \in job[j].candidates[p]}
  <2> QED
    OBVIOUS
<1>4. new \in JobType
  BY <1>1, <1>2 DEF JobType
<1>5. JobOK(new)
  BY <1>1, <1>2, <1>3, SMT DEF Extract, JobOK, FetchOK, ExtractOK, MentionsOK, RestOK, PredictOK, SettleOK, BarsOK, Resting
<1>6. Local(j, new) /\ UNCHANGED <<now, postedAt, stored, mentions, bets, cache, faults>>
  BY DEF Extract, clock, tables, Return, Die
<1> HIDE DEF new
<1> QED
  BY <1>1, <1>4, <1>5, <1>6, LocalKeeps

LEMMA SeeMentionInv ==
  ASSUME MentionInv, NEW j \in Jobs, NEW f \in job[j].found, SeeMention(j, f)
  PROVE  MentionInv'
<1> DEFINE new == IF mentions[<<job[j].post, f[1]>>] = "none" THEN [job[j] EXCEPT !.writing = {f}]
                                                     ELSE [job[j] EXCEPT !.found = @ \ {f}]
<1>1. job[j] \in JobType /\ JobOK(job[j]) /\ faults \in 0..MaxFaults
  BY DEF MentionInv, Types, MentionTypeOK
<1>2. new \in JobType
  BY <1>1, SMT DEF JobType
<1>3. JobOK(new)
  BY <1>1, SMT DEF SeeMention, JobOK, FetchOK, ExtractOK, MentionsOK, RestOK, PredictOK, SettleOK, BarsOK, Resting
<1>4. Local(j, new) /\ UNCHANGED <<now, postedAt, stored, mentions, bets, cache, faults>>
  BY DEF SeeMention, clock, tables, Return, Die
<1> HIDE DEF new
<1> QED
  BY <1>1, <1>2, <1>3, <1>4, LocalKeeps

LEMMA EndExtractInv ==
  ASSUME MentionInv, NEW j \in Jobs, EndExtract(j)
  PROVE  MentionInv'
<1> DEFINE new == IF job[j].chain THEN [Idle EXCEPT !.stage = "extracted", !.chain = TRUE] ELSE Idle
<1>1. job[j] \in JobType /\ JobOK(job[j]) /\ faults \in 0..MaxFaults
  BY DEF MentionInv, Types, MentionTypeOK
<1>2. "extracted" \in Stages /\ TRUE \in BOOLEAN
  BY DEF Stages
<1>3. new \in JobType
  BY <1>2, IdleType DEF JobType
<1>4. JobOK(new)
  BY IdleOK, SMT DEF JobOK, FetchOK, ExtractOK, MentionsOK, RestOK, PredictOK, SettleOK, BarsOK, Resting, Idle
<1>5. Local(j, new) /\ UNCHANGED <<now, postedAt, stored, mentions, bets, cache, faults>>
  BY DEF EndExtract, clock, tables, Return, Die
<1> HIDE DEF new
<1> QED
  BY <1>1, <1>3, <1>4, <1>5, LocalKeeps

LEMMA StartTrackInv ==
  ASSUME MentionInv, NEW j \in Jobs, NEW h \in Horizons, StartTrack(j, h)
  PROVE  MentionInv'
<1> DEFINE new == [job[j] EXCEPT !.stage = "predict", !.horizon = h, !.keys = Untracked(h)]
<1>1. job[j] \in JobType /\ JobOK(job[j]) /\ faults \in 0..MaxFaults
  BY DEF MentionInv, Types, MentionTypeOK
<1>2. \A k \in Untracked(h) : Warranted(k)
  <2> SUFFICES ASSUME NEW k \in Untracked(h) PROVE Warranted(k)
    OBVIOUS
  <2>1. k[1] \in Posts /\ k[2] \in Tickers /\ mentions[<<k[1], k[2]>>] = "negative"
    BY DEF Untracked, Keys
  <2>2. Posted(k[1])
    BY <2>1 DEF MentionInv, TablesOK
  <2> QED
    BY <2>1, <2>2 DEF Untracked, Warranted
<1>3. "predict" \in Stages /\ Untracked(h) \in SUBSET Keys
  BY DEF Stages, Untracked
<1>4. job[j].writing = {}
  BY <1>1, SMT DEF StartTrack, JobOK, RestOK, Resting
<1>5. new \in JobType
  BY <1>1, <1>3 DEF JobType
<1>6. JobOK(new)
  BY <1>1, <1>2, <1>4, SMT DEF JobOK, FetchOK, ExtractOK, MentionsOK, RestOK, PredictOK, SettleOK, BarsOK, Resting
<1>7. Local(j, new) /\ UNCHANGED <<now, postedAt, stored, mentions, bets, cache, faults>>
  BY DEF StartTrack, clock, tables, Return, Die
<1> HIDE DEF new
<1> QED
  BY <1>1, <1>5, <1>6, <1>7, LocalKeeps

LEMMA ReadBarsInv ==
  ASSUME MentionInv, NEW j \in Jobs, NEW t \in Tickers, ReadBars(j, t)
  PROVE  MentionInv'
<1> DEFINE new == [job[j] EXCEPT !.bars[t] = cache[t].bars]
<1>1. job[j] \in JobType /\ JobOK(job[j]) /\ faults \in 0..MaxFaults
  BY DEF MentionInv, Types, MentionTypeOK
<1>2. cache[t].bars \in AnyBars /\ SeenBars(cache[t].bars)
  BY DEF MentionInv, Types, MentionTypeOK, TablesOK, AnyBars
<1>3. new \in JobType
  BY <1>1, <1>2 DEF JobType, AnyBars
<1>4. JobOK(new)
  BY <1>1, <1>2, SMT DEF ReadBars, Needs, Known, JobOK, FetchOK, ExtractOK, MentionsOK, RestOK, PredictOK, SettleOK, BarsOK, Resting
<1>5. Local(j, new) /\ UNCHANGED <<now, postedAt, stored, mentions, bets, cache, faults>>
  BY DEF ReadBars, clock, tables, Return, Die
<1> HIDE DEF new
<1> QED
  BY <1>1, <1>3, <1>4, <1>5, LocalKeeps

LEMMA SeeBetInv ==
  ASSUME MentionInv, NEW j \in Jobs, NEW k \in job[j].keys, SeeBet(j, k)
  PROVE  MentionInv'
<1> DEFINE new == IF k[2] \notin job[j].failed /\ NotYetBet(k) THEN [job[j] EXCEPT !.writing = {k}]
                                                     ELSE [job[j] EXCEPT !.keys = @ \ {k}]
<1>1. job[j] \in JobType /\ JobOK(job[j]) /\ faults \in 0..MaxFaults
  BY DEF MentionInv, Types, MentionTypeOK
<1>2. new \in JobType
  BY <1>1, SMT DEF JobType
<1>3. JobOK(new)
  BY <1>1, SMT DEF SeeBet, Known, JobOK, FetchOK, ExtractOK, MentionsOK, RestOK, PredictOK, SettleOK, BarsOK, Resting
<1>4. Local(j, new) /\ UNCHANGED <<now, postedAt, stored, mentions, bets, cache, faults>>
  BY DEF SeeBet, clock, tables, Return, Die
<1> HIDE DEF new
<1> QED
  BY <1>1, <1>2, <1>3, <1>4, LocalKeeps

LEMMA StartSettleInv ==
  ASSUME MentionInv, NEW j \in Jobs, StartSettle(j)
  PROVE  MentionInv'
<1> DEFINE new == [job[j] EXCEPT !.stage = "settle", !.keys = Ripe]
<1>1. job[j] \in JobType /\ JobOK(job[j]) /\ faults \in 0..MaxFaults
  BY DEF MentionInv, Types, MentionTypeOK
<1>2. "settle" \in Stages /\ Ripe \in SUBSET Keys
  BY DEF Stages, Ripe
<1>3. new \in JobType
  BY <1>1, <1>2 DEF JobType
<1>4. JobOK(new)
  BY <1>1, SMT DEF Ripe, JobOK, FetchOK, ExtractOK, MentionsOK, RestOK, PredictOK, SettleOK, BarsOK, Resting
<1>5. Local(j, new) /\ UNCHANGED <<now, postedAt, stored, mentions, bets, cache, faults>>
  BY DEF StartSettle, clock, tables, Return, Die
<1> HIDE DEF new
<1> QED
  BY <1>1, <1>3, <1>4, <1>5, LocalKeeps

LEMMA EndTrackInv ==
  ASSUME MentionInv, NEW j \in Jobs, EndTrack(j)
  PROVE  MentionInv'
<1> DEFINE new == Idle
<1>1. job[j] \in JobType /\ JobOK(job[j]) /\ faults \in 0..MaxFaults
  BY DEF MentionInv, Types, MentionTypeOK
<1>2. new \in JobType
  BY IdleType
<1>3. JobOK(new)
  BY IdleOK
<1>4. Local(j, new) /\ UNCHANGED <<now, postedAt, stored, mentions, bets, cache, faults>>
  BY DEF EndTrack, clock, tables, Return, Die
<1> HIDE DEF new
<1> QED
  BY <1>1, <1>2, <1>3, <1>4, LocalKeeps

-----------------------------------------------------------------------------
(* Steps that change the tables or the time.  The tables only grow.        *)

Begun(e, m) == {d \in TradingDays : e < d /\ OpenOf(d) <= m}

(* The bars of a download are not those of no download.                    *)
LEMMA PanelsAreBars == \A bars \in Panels : bars # NoBars
<1>1. ASSUME NEW m \in Awake PROVE BarsAt(m).days # {-1}
  BY MentionAssumption, SMT DEF BarsAt, TradingDays
<1>2. NoBars.days = {-1}
  BY DEF NoBars
<1> QED
  BY <1>1, <1>2 DEF Panels

LEMMA BegunGrows ==
  ASSUME NEW e, NEW m \in Int, NEW n \in Int, m <= n
  PROVE  /\ IsFiniteSet(Begun(e, n)) /\ Begun(e, m) \subseteq Begun(e, n)
         /\ Cardinality(Begun(e, m)) \in Nat /\ Cardinality(Begun(e, n)) \in Nat
         /\ Cardinality(Begun(e, m)) <= Cardinality(Begun(e, n))
<1>1. IsFiniteSet(0..LastDay)
  BY MentionAssumption, FS_Interval
<1>2. \A x \in {m, n} : Begun(e, x) \subseteq 0..LastDay
  BY DEF Begun, TradingDays
<1>3. \A x \in {m, n} : IsFiniteSet(Begun(e, x))
  BY <1>1, <1>2, FS_Subset
<1>4. Begun(e, m) \subseteq Begun(e, n)
  BY MentionAssumption, SMT DEF Begun, OpenOf, TradingDays
<1> QED
  BY <1>3, <1>4, FS_Subset, FS_CardinalityType

Grows ==
  /\ now \in Int /\ now' \in Int /\ now <= now'
  /\ \A p \in Posts : /\ Posted(p) => postedAt'[p] = postedAt[p]
                      /\ Stored(p) => stored'[p] # "no"
  /\ \A p \in Posts, t \in Tickers :
       mentions[<<p, t>>] # "none" => mentions'[<<p, t>>] = mentions[<<p, t>>]
  /\ \A k \in Keys : Placed(k) => bets'[k] # NoBet

LEMMA WarrantedGrows ==
  ASSUME Grows, NEW k \in Keys, Warranted(k)
  PROVE  Warranted(k)' /\ postedAt'[k[1]] = postedAt[k[1]]
<1>1. k[1] \in Posts /\ k[2] \in Tickers
  BY DEF Keys
<1>2. mentions'[<<k[1], k[2]>>] = mentions[<<k[1], k[2]>>]
  BY <1>1 DEF Grows, Warranted
<1> QED
  BY <1>1, <1>2 DEF Grows, Warranted, Posted

(* What a job goes by stays true whatever the others add.                  *)
LEMMA OthersKeep ==
  ASSUME Grows, NEW i \in Jobs, job[i] \in JobType, JobOK(job[i]), job'[i] = job[i]
  PROVE  JobOK(job[i])'
<1> DEFINE l == job[i]
<1>1. /\ l.posts \subseteq Posts /\ l.keys \subseteq Keys
      /\ l.candidates \in [Posts -> SUBSET Tickers] /\ l.bars \in [Tickers -> AnyBars]
  BY DEF JobType, AnyBars
<1>2. FetchOK(job[i])'
  BY <1>1 DEF Grows, JobOK, FetchOK, Posted
<1>3. ExtractOK(job[i])'
  BY <1>1 DEF Grows, JobOK, ExtractOK, Stored
<1>4. MentionsOK(job[i])'
  <2> SUFFICES ASSUME l.stage = "mentions" PROVE MentionsOK(job[i])'
    BY DEF MentionsOK
  <2>1. l.post \in Posts /\ Stored(l.post) /\ l.candidates[l.post] \subseteq Tickers
    BY <1>1 DEF JobOK, MentionsOK
  <2>2. \A t \in l.candidates[l.post] :
          mentions'[<<l.post, t>>] # "none" \/ \E f \in l.found : f[1] = t
    BY <2>1 DEF Grows, JobOK, MentionsOK
  <2> QED
    BY <2>1, <2>2 DEF Grows, MentionsOK, Stored
<1>5. RestOK(job[i])'
  BY DEF JobOK, RestOK
<1>6. PredictOK(job[i])'
  <2> SUFFICES ASSUME l.stage = "predict", NEW k \in l.keys
               PROVE  Warranted(k)' /\ (k \in l.writing => l.bars[k[2]] # NoBars)
    BY DEF PredictOK
  <2> QED
    BY <1>1, WarrantedGrows DEF JobOK, PredictOK
<1>7. SettleOK(job[i])'
  BY <1>1 DEF Grows, JobOK, SettleOK, Placed
<1>8. BarsOK(job[i])'
  <2>1. \A m \in Awake : m \in Int
    BY MentionAssumption, SMT
  <2> QED
    BY <2>1, SMT DEF Grows, JobOK, BarsOK, SeenBars
<1> QED
  BY <1>2, <1>3, <1>4, <1>5, <1>6, <1>7, <1>8 DEF JobOK

LEMMA TablesKeep ==
  ASSUME MentionInv, Types', Grows, UNCHANGED <<bets, cache>>, StampedComplete',
         \A p \in Posts : Stored(p)' => Posted(p)',
         \A p \in Posts, t \in Tickers : mentions'[<<p, t>>] # "none" => Stored(p)'
  PROVE  TablesOK'
<1>1. ASSUME NEW k \in Keys PROVE BetOK(k)'
  BY <1>1, WarrantedGrows DEF MentionInv, TablesOK, BetOK, Placed
<1>2. ASSUME NEW k \in Keys PROVE OwnHorizon(k)'
  <2> SUFFICES ASSUME Settled(k) PROVE OwnHorizon(k)'
    BY DEF OwnHorizon, Settled
  <2>1. /\ bets[k].result.h = k[3] /\ k[3] \in Int
        /\ Cardinality(Begun(bets[k].entry, now)) >= k[3]
    <3>1. OwnHorizon(k) /\ k[3] \in Horizons
      BY DEF MentionInv, TablesOK, Keys
    <3>2. k[3] \in Nat
      <4>1. Horizons \subseteq Nat
        BY MentionAssumption
      <4> QED
        BY <3>1, <4>1
    <3>3. Begun(bets[k].entry, now) = {d \in TradingDays : bets[k].entry < d /\ OpenOf(d) <= now}
      BY DEF Begun
    <3> QED
      BY <3>1, <3>2, <3>3 DEF OwnHorizon
  <2>2. Cardinality(Begun(bets[k].entry, now')) >= k[3]
    BY <2>1, BegunGrows, SMT DEF Grows
  <2> QED
    BY <2>1, <2>2 DEF OwnHorizon, Begun
<1>3. ASSUME NEW t \in Tickers PROVE SeenBars(cache[t].bars)'
  <2>1. \A m \in Awake : m \in Int
    BY MentionAssumption, SMT
  <2> QED
    BY <2>1, SMT DEF Grows, MentionInv, TablesOK, SeenBars
<1> QED
  BY <1>1, <1>2, <1>3 DEF TablesOK

(* The shape of a step that writes a row: the tables grow, the locals of j *)
(* become new.                                                             *)
LEMMA WriteKeeps ==
  ASSUME MentionInv, NEW j \in Jobs, NEW new \in JobType, Local(j, new),
         Types', Grows, TablesOK', JobOK(job[j])'
  PROVE  MentionInv'
<1>1. ASSUME NEW i \in Jobs PROVE JobOK(job[i])'
  <2>1. CASE i = j
    BY <2>1
  <2>2. CASE i # j
    BY <2>2, LocalStep, OthersKeep DEF MentionInv, Types, MentionTypeOK
  <2> QED
    BY <2>1, <2>2
<1> QED
  BY <1>1 DEF MentionInv

LEMMA IdleNextOK ==
  ASSUME NEW j \in Jobs, job'[j] = Idle
  PROVE  JobOK(job[j])'
BY SMT DEF Idle, JobOK, FetchOK, ExtractOK, MentionsOK, RestOK, PredictOK, SettleOK, BarsOK, SeenBars,
   Resting

LEMMA NowIsInt ==
  ASSUME Types PROVE now \in Int
BY MentionAssumption DEF Types, MentionTypeOK, Moments

LEMMA InsertPostInv ==
  ASSUME MentionInv, NEW j \in Jobs, NEW p \in job[j].posts, InsertPost(j, p)
  PROVE  MentionInv'
<1> DEFINE new == IF stored[p] = "no" THEN [job[j] EXCEPT !.writing = {}, !.posts = @ \ {p}] ELSE Idle
<1>1. /\ job \in [Jobs -> JobType] /\ job[j] \in JobType /\ JobOK(job[j])
      /\ p \in Posts /\ now \in Int /\ job[j].stage = "fetch"
      /\ stored \in [Posts -> {"no", "new", "stamped"}]
  BY NowIsInt DEF MentionInv, Types, MentionTypeOK, JobType, InsertPost
<1>2. new \in JobType
  BY <1>1, IdleType DEF JobType
<1>3. Local(j, new) /\ UNCHANGED <<now, postedAt, mentions, bets, cache, faults>>
  BY DEF InsertPost, clock, Die
<1>4. stored' = [stored EXCEPT ![p] = IF stored[p] = "no" THEN "new" ELSE @]
  BY <1>1 DEF InsertPost
<1>5. Types'
  <2>1. stored' \in [Posts -> {"no", "new", "stamped"}]
    BY <1>1, <1>4
  <2> HIDE DEF new
  <2> QED
    BY <1>1, <1>2, <1>3, <2>1, LocalStep DEF MentionInv, Types, MentionTypeOK
<1>6. Grows
  BY <1>1, <1>3, <1>4 DEF Grows, Posted, Stored, Placed
<1>7. Posted(p)
  BY <1>1 DEF JobOK, FetchOK
<1>8. TablesOK'
  <2>1. StampedComplete'
    BY <1>1, <1>3, <1>4 DEF MentionInv, TablesOK, StampedComplete
  <2>2. \A q \in Posts : Stored(q)' => Posted(q)'
    BY <1>1, <1>3, <1>4, <1>7 DEF MentionInv, TablesOK, Stored, Posted
  <2>3. \A q \in Posts, t \in Tickers : mentions'[<<q, t>>] # "none" => Stored(q)'
    BY <1>1, <1>3, <1>4 DEF MentionInv, TablesOK, Stored
  <2> QED
    BY <1>3, <1>5, <1>6, <2>1, <2>2, <2>3, TablesKeep
<1>9. JobOK(job[j])'
  <2>1. job'[j] = new
    BY <1>1, <1>3 DEF Local
  <2>2. CASE stored[p] = "no"
    BY <1>1, <1>3, <2>1, <2>2, SMT DEF JobOK, FetchOK, ExtractOK, MentionsOK, RestOK, PredictOK,
       SettleOK, BarsOK, SeenBars, Resting, Posted
  <2>3. CASE stored[p] # "no"
    BY <1>3, <2>1, <2>3, IdleNextOK
  <2> QED
    BY <2>2, <2>3
<1> HIDE DEF new
<1> QED
  BY <1>2, <1>3, <1>5, <1>6, <1>8, <1>9, WriteKeeps

LEMMA InsertMentionInv ==
  ASSUME MentionInv, NEW j \in Jobs, NEW f \in job[j].found, InsertMention(j, f)
  PROVE  MentionInv'
<1> DEFINE m == <<job[j].post, f[1]>>
<1> DEFINE new == IF mentions[m] = "none" THEN [job[j] EXCEPT !.writing = {}, !.found = @ \ {f}] ELSE Idle
<1>1. /\ job \in [Jobs -> JobType] /\ job[j] \in JobType /\ JobOK(job[j]) /\ now \in Int
      /\ f \in Tickers \X Sentiments /\ job[j].stage = "mentions"
      /\ mentions \in [Posts \X Tickers -> Sentiments \cup {"none"}]
  BY NowIsInt DEF MentionInv, Types, MentionTypeOK, JobType, InsertMention
<1>2. /\ job[j].post \in Posts /\ Stored(job[j].post) /\ m \in Posts \X Tickers
      /\ f[1] \in Tickers /\ f[2] \in Sentiments /\ f[2] # "none"
  BY <1>1, SMT DEF JobOK, MentionsOK, Sentiments
<1>3. new \in JobType
  BY <1>1, IdleType DEF JobType
<1>4. Local(j, new) /\ UNCHANGED <<now, postedAt, stored, bets, cache, faults>>
  BY DEF InsertMention, clock, Die
<1>5. mentions' = [mentions EXCEPT ![m] = IF mentions[m] = "none" THEN f[2] ELSE @]
  BY <1>1, <1>2 DEF InsertMention
<1>6. \A q \in Posts, t \in Tickers :
        /\ mentions[<<q, t>>] # "none" => mentions'[<<q, t>>] = mentions[<<q, t>>]
        /\ mentions'[<<q, t>>] # "none" => mentions[<<q, t>>] # "none" \/ q = job[j].post
  BY <1>1, <1>2, <1>5
<1>7. Types'
  <2>1. mentions' \in [Posts \X Tickers -> Sentiments \cup {"none"}]
    BY <1>1, <1>2, <1>5
  <2> HIDE DEF new
  <2> QED
    BY <1>1, <1>3, <1>4, <2>1, LocalStep DEF MentionInv, Types, MentionTypeOK
<1>8. Grows
  BY <1>1, <1>4, <1>6 DEF Grows, Posted, Stored, Placed
<1>9. TablesOK'
  <2>1. StampedComplete'
    <3>1. \A p \in Posts : Named[p] \subseteq Tickers
      BY MentionAssumption
    <3> QED
      BY <3>1, <1>4, <1>6 DEF MentionInv, TablesOK, StampedComplete
  <2>2. \A q \in Posts : Stored(q)' => Posted(q)'
    BY <1>4 DEF MentionInv, TablesOK, Stored, Posted
  <2>3. \A q \in Posts, t \in Tickers : mentions'[<<q, t>>] # "none" => Stored(q)'
    BY <1>2, <1>4, <1>6 DEF MentionInv, TablesOK, Stored
  <2> QED
    BY <1>4, <1>7, <1>8, <2>1, <2>2, <2>3, TablesKeep
<1>10. JobOK(job[j])'
  <2>1. job'[j] = new
    BY <1>1, <1>4 DEF Local
  <2>2. CASE mentions[m] = "none"
    <3>1. job'[j] = [job[j] EXCEPT !.writing = {}, !.found = @ \ {f}]
      BY <2>1, <2>2
    <3>2. job[j].candidates[job[j].post] \subseteq Tickers
      BY <1>1, <1>2 DEF JobType
    <3>3. mentions'[m] # "none"
      BY <1>1, <1>2, <1>5, <2>2
    <3>4. MentionsOK(job[j])'
      <4>1. ASSUME NEW t \in job[j].candidates[job[j].post]
            PROVE  mentions'[<<job[j].post, t>>] # "none" \/ \E g \in job[j].found \ {f} : g[1] = t
        BY <1>1, <1>2, <1>6, <3>2, <3>3 DEF JobOK, MentionsOK
      <4> QED
        BY <1>1, <1>2, <1>4, <3>1, <4>1 DEF MentionsOK, Stored, JobType
    <3>5. ExtractOK(job[j])'
      BY <1>1, <1>4, <3>1 DEF JobOK, ExtractOK, Stored, JobType
    <3>6. BarsOK(job[j])'
      BY <1>1, <1>4, <3>1 DEF JobOK, BarsOK, SeenBars, JobType
    <3> QED
      BY <1>1, <3>1, <3>4, <3>5, <3>6, SMT
         DEF JobOK, FetchOK, RestOK, PredictOK, SettleOK, Resting, JobType
  <2>3. CASE mentions[m] # "none"
    BY <2>1, <2>3, IdleNextOK
  <2> QED
    BY <2>2, <2>3
<1> HIDE DEF new
<1> QED
  BY <1>3, <1>4, <1>7, <1>8, <1>9, <1>10, WriteKeeps

LEMMA StampInv ==
  ASSUME MentionInv, NEW j \in Jobs, Stamp(j)
  PROVE  MentionInv'
<1> DEFINE p == job[j].post
<1> DEFINE new == [job[j] EXCEPT !.stage = "extract", !.posts = @ \ {p}, !.post = NoPost,
                                 !.found = {}, !.writing = {}]
<1>1. /\ job \in [Jobs -> JobType] /\ job[j] \in JobType /\ JobOK(job[j]) /\ now \in Int
      /\ job[j].stage = "mentions" /\ job[j].found = {}
      /\ stored \in [Posts -> {"no", "new", "stamped"}]
  BY NowIsInt DEF MentionInv, Types, MentionTypeOK, JobType, Stamp, AllWritten
<1>2. p \in Posts /\ Stored(p) /\ Named[p] \subseteq job[j].candidates[p]
  BY <1>1 DEF JobOK, MentionsOK, ExtractOK
<1>3. \A t \in Named[p] : mentions[<<p, t>>] # "none"
  BY <1>1, <1>2 DEF JobOK, MentionsOK
<1>4. new \in JobType
  <2>1. "extract" \in Stages
    BY DEF Stages
  <2> QED
    BY <1>1, <2>1 DEF JobType
<1>5. Local(j, new) /\ UNCHANGED <<now, postedAt, mentions, bets, cache, faults>>
  BY DEF Stamp, clock
<1>6. stored' = [stored EXCEPT ![p] = "stamped"]
  BY DEF Stamp
<1>7. Types'
  <2>1. stored' \in [Posts -> {"no", "new", "stamped"}]
    BY <1>1, <1>6
  <2> HIDE DEF new
  <2> QED
    BY <1>1, <1>4, <1>5, <2>1, LocalStep DEF MentionInv, Types, MentionTypeOK
<1>8. Grows
  BY <1>1, <1>5, <1>6 DEF Grows, Posted, Stored, Placed
<1>9. TablesOK'
  <2>1. StampedComplete'
    BY <1>1, <1>3, <1>5, <1>6 DEF MentionInv, TablesOK, StampedComplete
  <2>2. \A q \in Posts : Stored(q)' => Posted(q)'
    BY <1>1, <1>2, <1>5, <1>6 DEF MentionInv, TablesOK, Stored, Posted
  <2>3. \A q \in Posts, t \in Tickers : mentions'[<<q, t>>] # "none" => Stored(q)'
    BY <1>1, <1>5, <1>6 DEF MentionInv, TablesOK, Stored
  <2> QED
    BY <1>5, <1>7, <1>8, <2>1, <2>2, <2>3, TablesKeep
<1>10. JobOK(job[j])'
  <2>1. job'[j] = new
    BY <1>1, <1>5 DEF Local
  <2>2. \A q \in Posts : Stored(q) => Stored(q)'
    BY <1>1, <1>6 DEF Stored
  <2>3. BarsOK(job[j])'
    BY <1>1, <1>5, <2>1 DEF JobOK, BarsOK, SeenBars, JobType
  <2> QED
    BY <1>1, <2>1, <2>2, <2>3, SMT
       DEF JobOK, FetchOK, ExtractOK, MentionsOK, RestOK, PredictOK, SettleOK, Resting, JobType
<1> HIDE DEF new
<1> QED
  BY <1>4, <1>5, <1>7, <1>8, <1>9, <1>10, WriteKeeps

LEMMA DownloadBarsInv ==
  ASSUME MentionInv, NEW j \in Jobs, NEW t \in Tickers, DownloadBars(j, t)
  PROVE  MentionInv'
<1> DEFINE new == [job[j] EXCEPT !.bars[t] = BarsAt(now)]
<1>1. /\ job \in [Jobs -> JobType] /\ job[j] \in JobType /\ JobOK(job[j]) /\ now \in Int
      /\ now \in Awake /\ now \in Moments /\ BarsAt(now) \in Panels
      /\ job[j].stage \in {"predict", "settle"}
      /\ cache \in [Tickers -> [key: 0..(LastDay + 1) \cup {-1}, bars: AnyBars]]
  BY NowIsInt DEF MentionInv, Types, MentionTypeOK, DownloadBars, Needs, Panels, AnyBars
<1>2. new \in JobType
  BY <1>1 DEF JobType
<1>3. Local(j, new) /\ UNCHANGED <<now, postedAt, stored, mentions, bets, faults>>
  BY DEF DownloadBars, clock, tables
<1>4. cache' = [cache EXCEPT ![t] = [key |-> UtcDay(now), bars |-> BarsAt(now)]]
  BY DEF DownloadBars
<1>5. UtcDay(now) \in 0..(LastDay + 1)
  BY <1>1, MentionAssumption, SMT DEF UtcDay, Day, Slot, Moments
<1>6. SeenBars(BarsAt(now))
  BY <1>1 DEF SeenBars
<1>7. Types'
  <2>1. cache' \in [Tickers -> [key: 0..(LastDay + 1) \cup {-1}, bars: AnyBars]]
    BY <1>1, <1>4, <1>5 DEF AnyBars
  <2> HIDE DEF new
  <2> QED
    BY <1>2, <1>3, <2>1, <1>1, LocalStep DEF MentionInv, Types, MentionTypeOK, AnyBars
<1>8. Grows
  BY <1>1, <1>3 DEF Grows, Posted, Stored, Placed
<1>9. TablesOK'
  <2>1. \A u \in Tickers : SeenBars(cache[u].bars)'
    BY <1>1, <1>3, <1>4, <1>6 DEF MentionInv, TablesOK, SeenBars
  <2> QED
    BY <1>3, <2>1 DEF MentionInv, TablesOK, StampedComplete, BetOK, OwnHorizon, Warranted, Placed,
                      Settled, Stored, Posted
<1>10. JobOK(job[j])'
  <2>1. job'[j] = new
    BY <1>1, <1>3 DEF Local
  <2>2. \A u \in Tickers : job'[j].bars[u] = IF u = t THEN BarsAt(now) ELSE job[j].bars[u]
    BY <1>1, <2>1 DEF JobType
  <2>3. BarsOK(job[j])'
    BY <1>1, <1>3, <1>6, <2>2 DEF JobOK, BarsOK, SeenBars
  <2>4. BarsAt(now) # NoBars
    BY <1>1, PanelsAreBars
  <2>5. PredictOK(job[j])'
    <3> SUFFICES ASSUME job[j].stage = "predict", NEW k \in job[j].keys
                 PROVE  /\ Warranted(k)'
                        /\ k \in job[j].writing => job'[j].bars[k[2]] # NoBars
      BY <2>1 DEF PredictOK
    <3>1. k[2] \in Tickers
      BY <1>1 DEF JobType, Keys
    <3> QED
      BY <1>1, <1>3, <2>2, <2>4, <3>1 DEF JobOK, PredictOK, Warranted, Posted
  <2> QED
    BY <1>1, <1>3, <2>1, <2>3, <2>5, SMT
       DEF JobOK, FetchOK, ExtractOK, MentionsOK, RestOK, SettleOK, Resting, Placed
<1> HIDE DEF new
<1> QED
  BY <1>2, <1>3, <1>7, <1>8, <1>9, <1>10, WriteKeeps

LEMMA DownloadFailsInv ==
  ASSUME MentionInv, NEW j \in Jobs, NEW t \in Tickers, DownloadFails(j, t)
  PROVE  MentionInv'
<1> DEFINE new == [job[j] EXCEPT !.failed = @ \cup {t}]
<1>1. job[j] \in JobType /\ JobOK(job[j]) /\ faults \in 0..MaxFaults
  BY DEF MentionInv, Types, MentionTypeOK
<1>2. new \in JobType
  BY <1>1 DEF JobType
<1>3. JobOK(new)
  BY <1>1, SMT DEF JobOK, FetchOK, ExtractOK, MentionsOK, RestOK, PredictOK, SettleOK, BarsOK, Resting
<1>4. Local(j, new) /\ UNCHANGED <<now, postedAt, stored, mentions, bets, cache>>
  BY DEF DownloadFails, clock, tables
<1>5. faults' \in 0..MaxFaults
  BY <1>1, MentionAssumption, SMT DEF DownloadFails
<1> HIDE DEF new
<1> QED
  BY <1>2, <1>3, <1>4, <1>5, LocalKeeps

LEMMA CrashInv ==
  ASSUME MentionInv, NEW j \in Jobs, Crash(j)
  PROVE  MentionInv'
<1>1. Local(j, Idle) /\ UNCHANGED <<now, postedAt, stored, mentions, bets, cache>>
  BY DEF Crash, Die, clock, tables
<1>2. faults' \in 0..MaxFaults
  BY MentionAssumption, SMT DEF Crash, MentionInv, Types, MentionTypeOK
<1> QED
  BY <1>1, <1>2, IdleType, IdleOK, LocalKeeps

(* Only the clock, or the archive, moves.                                  *)
LEMMA WorldKeeps ==
  ASSUME MentionInv, Types', Grows, UNCHANGED <<tables, cache, job>>
  PROVE  MentionInv'
<1>1. TablesOK'
  <2>1. StampedComplete'
    BY DEF MentionInv, TablesOK, StampedComplete, tables
  <2>2. \A q \in Posts : Stored(q)' => Posted(q)'
    BY DEF MentionInv, TablesOK, Stored, Posted, tables, Grows
  <2>3. \A q \in Posts, t \in Tickers : mentions'[<<q, t>>] # "none" => Stored(q)'
    BY DEF MentionInv, TablesOK, Stored, tables
  <2>4. UNCHANGED <<bets, cache>>
    BY DEF tables
  <2> QED
    BY <2>1, <2>2, <2>3, <2>4, TablesKeep
<1>2. ASSUME NEW i \in Jobs PROVE JobOK(job[i])'
  BY OthersKeep DEF MentionInv, Types, MentionTypeOK
<1> QED
  BY <1>1, <1>2 DEF MentionInv

LEMMA PublishInv ==
  ASSUME MentionInv, NEW p \in Posts, Publish(p)
  PROVE  MentionInv'
<1>1. /\ now \in 0..LastPublish
      /\ now' = now /\ UNCHANGED <<tables, cache, job, faults>>
      /\ postedAt \in [Posts -> 0..LastPublish \cup {Unpublished}]
      /\ postedAt' = [postedAt EXCEPT ![p] = now]
  BY MentionAssumption, SMT DEF Publish, MentionInv, Types, MentionTypeOK, Moments
<1>2. Types'
  BY <1>1 DEF MentionInv, Types, MentionTypeOK, tables
<1>3. Grows
  BY <1>1, NowIsInt DEF Grows, Publish, Posted, Stored, Placed, tables, MentionInv
<1> QED
  BY <1>1, <1>2, <1>3, WorldKeeps

LEMMA TickInv ==
  ASSUME MentionInv, Tick
  PROVE  MentionInv'
<1>1. /\ now' \in Awake /\ now < now' /\ UNCHANGED <<postedAt, tables, cache, job, faults>>
  BY DEF Tick
<1>2. now' \in Moments /\ now' \in Int
  BY <1>1, MentionAssumption, SMT DEF Moments
<1>3. Types'
  BY <1>1, <1>2 DEF MentionInv, Types, MentionTypeOK, tables
<1>4. Grows
  <2>1. now \in Int /\ now <= now'
    BY <1>1, <1>2, NowIsInt, SMT DEF MentionInv
  <2> QED
    BY <1>1, <1>2, <2>1 DEF Grows, Posted, Stored, Placed, tables
<1> QED
  BY <1>1, <1>3, <1>4, WorldKeeps

LEMMA InsertBetInv ==
  ASSUME MentionInv, NEW j \in Jobs, NEW k \in job[j].keys, InsertBet(j, k)
  PROVE  MentionInv'
<1> DEFINE new == IF NotYetBet(k) THEN [job[j] EXCEPT !.writing = {}, !.keys = @ \ {k}] ELSE Idle
<1> DEFINE Row == [entry: Nat \cup {-1}, base: AnyBars, result: [h: Horizons \cup {0}, whole: BOOLEAN]]
<1>1. /\ job \in [Jobs -> JobType] /\ job[j] \in JobType /\ JobOK(job[j]) /\ now \in Int
      /\ job[j].stage = "predict" /\ k \in job[j].writing
      /\ bets \in [Keys -> Row] /\ postedAt \in [Posts -> 0..LastPublish \cup {Unpublished}]
  BY NowIsInt DEF MentionInv, Types, MentionTypeOK, InsertBet, AnyBars
<1>2. k \in Keys /\ k[1] \in Posts /\ k[2] \in Tickers
  BY <1>1 DEF JobType, Keys
<1>3. Warranted(k) /\ job[j].bars[k[2]] \in Panels /\ job[j].bars[k[2]] # NoBars
  BY <1>1, <1>2 DEF JobOK, PredictOK, JobType
<1>4. EntryDay(postedAt[k[1]]) \in Nat
  <2>1. postedAt[k[1]] \in Int /\ -1 <= postedAt[k[1]]
    BY <1>1, <1>2, MentionAssumption, SMT DEF Unpublished
  <2> QED
    BY <2>1, EntryDayType
<1>5. NewBet(j, k) \in Row /\ NewBet(j, k) # NoBet /\ NewBet(j, k).result = NoResult
  <2>1. NoResult \in [h: Horizons \cup {0}, whole: BOOLEAN]
    BY DEF NoResult
  <2> QED
    BY <1>3, <1>4, <2>1 DEF NewBet, AnyBars, NoBet
<1>6. new \in JobType
  BY <1>1, IdleType DEF JobType
<1>7. Local(j, new) /\ UNCHANGED <<now, postedAt, stored, mentions, cache, faults>>
  BY DEF InsertBet, clock, Die
<1>8. bets' = [bets EXCEPT ![k] = IF NotYetBet(k) THEN NewBet(j, k) ELSE @]
  BY <1>1, <1>2 DEF InsertBet
<1>9. \A x \in Keys : bets'[x] = IF x = k /\ NotYetBet(k) THEN NewBet(j, k) ELSE bets[x]
  BY <1>1, <1>8
<1>10. Types'
  <2>1. bets' \in [Keys -> Row]
    BY <1>1, <1>5, <1>8
  <2> HIDE DEF new
  <2> QED
    BY <1>1, <1>6, <1>7, <2>1, LocalStep DEF MentionInv, Types, MentionTypeOK, AnyBars
<1>11. Grows
  BY <1>1, <1>5, <1>7, <1>9 DEF Grows, Posted, Stored, Placed
<1>12. TablesOK'
  <2>1. ASSUME NEW x \in Keys PROVE BetOK(x)' /\ OwnHorizon(x)'
    <3>1. CASE x = k /\ NotYetBet(k)
      BY <1>2, <1>3, <1>5, <1>7, <1>9, <3>1
         DEF BetOK, OwnHorizon, Placed, Settled, Warranted, Posted, NewBet
    <3>2. CASE ~(x = k /\ NotYetBet(k))
      BY <1>7, <1>9, <3>2
         DEF MentionInv, TablesOK, BetOK, OwnHorizon, Placed, Settled, Warranted, Posted
    <3> QED
      BY <3>1, <3>2
  <2> QED
    BY <1>7, <2>1 DEF MentionInv, TablesOK, StampedComplete, Stored, Posted, SeenBars
<1>13. JobOK(job[j])'
  <2>1. job'[j] = new
    BY <1>1, <1>7 DEF Local
  <2>2. CASE NotYetBet(k)
    <3>1. job'[j] = [job[j] EXCEPT !.writing = {}, !.keys = @ \ {k}]
      BY <2>1, <2>2
    <3>2. PredictOK(job[j])'
      BY <1>1, <1>7, <3>1 DEF JobOK, PredictOK, Warranted, Posted, JobType
    <3>3. BarsOK(job[j])'
      BY <1>1, <1>7, <3>1 DEF JobOK, BarsOK, SeenBars, JobType
    <3> QED
      BY <1>1, <3>1, <3>2, <3>3, SMT
         DEF JobOK, FetchOK, ExtractOK, MentionsOK, RestOK, SettleOK, Resting, JobType
  <2>3. CASE ~NotYetBet(k)
    BY <1>7, <2>1, <2>3, IdleNextOK
  <2> QED
    BY <2>2, <2>3
<1> HIDE DEF new
<1> QED
  BY <1>6, <1>7, <1>10, <1>11, <1>12, <1>13, WriteKeeps

(* What a job takes for an outcome was measured on sessions that had begun. *)
LEMMA OutcomeHasBegun ==
  ASSUME MentionInv, NEW bars, SeenBars(bars), NEW e \in Nat, NEW h \in Int, Decomposes(bars, e, h)
  PROVE  Cardinality(Begun(e, now)) >= h
<1>1. bars # NoBars
  <2>1. NoBars.days = {-1} /\ e # -1
    BY SMT DEF NoBars
  <2> QED
    BY <2>1 DEF Decomposes
<1>2. PICK m \in Awake : m <= now /\ bars = BarsAt(m)
  BY <1>1 DEF SeenBars
<1>3. After(bars, e) = Begun(e, m)
  BY <1>2 DEF After, Begun, BarsAt
<1>4. m \in Int /\ now \in Int
  BY MentionAssumption, NowIsInt, SMT DEF MentionInv
<1>5. /\ Cardinality(Begun(e, m)) \in Nat /\ Cardinality(Begun(e, now)) \in Nat
      /\ Cardinality(Begun(e, m)) <= Cardinality(Begun(e, now))
  BY <1>2, <1>4, BegunGrows
<1>6. Cardinality(Begun(e, m)) >= h
  BY <1>3 DEF Decomposes
<1> QED
  BY <1>5, <1>6, SMT

LEMMA SettleInv ==
  ASSUME MentionInv, NEW j \in Jobs, NEW k \in job[j].keys, Settle(j, k)
  PROVE  MentionInv'
<1> DEFINE new == [job[j] EXCEPT !.keys = @ \ {k}]
<1> DEFINE Result == [h: Horizons \cup {0}, whole: BOOLEAN]
<1> DEFINE Row == [entry: Nat \cup {-1}, base: AnyBars, result: Result]
<1> DEFINE s == <<k[1], k[2], job[j].horizon>>
<1> DEFINE enters == HasOutcome(j, k) /\ Placed(s)
<1>1. /\ job \in [Jobs -> JobType] /\ job[j] \in JobType /\ JobOK(job[j]) /\ now \in Int
      /\ job[j].stage = "settle" /\ bets \in [Keys -> Row]
      /\ postedAt \in [Posts -> 0..LastPublish \cup {Unpublished}]
  BY NowIsInt DEF MentionInv, Types, MentionTypeOK, Settle, AnyBars
<1>2. /\ k \in Keys /\ k[1] \in Posts /\ k[2] \in Tickers /\ job[j].horizon \in Horizons
      /\ s \in Keys /\ s[1] = k[1] /\ s[3] = job[j].horizon /\ Placed(k)
  BY <1>1 DEF JobType, Keys, JobOK, SettleOK
<1>3. Local(j, new) /\ UNCHANGED <<now, postedAt, stored, mentions, cache, faults>>
  BY DEF Settle, clock
<1>4. new \in JobType
  BY <1>1 DEF JobType
<1>5. Outcome(j, k) \in Result /\ Outcome(j, k).h = job[j].horizon
  BY <1>2 DEF Outcome, Realized
<1>6. \A x \in Keys : bets'[x] = IF x = s /\ enters THEN [bets[x] EXCEPT !.result = Outcome(j, k)]
                                                    ELSE bets[x]
  BY <1>1 DEF Settle, SettledKey
<1>7. bets' \in [Keys -> Row]
  <2>1. ASSUME NEW x \in Keys PROVE bets'[x] \in Row
    <3>1. bets[x] \in Row
      BY <1>1
    <3>2. CASE x = s /\ enters
      <4>1. bets'[x] = [bets[x] EXCEPT !.result = Outcome(j, k)]
        BY <1>6, <3>2
      <4> HIDE DEF Result, enters, s
      <4> QED
        BY <1>5, <3>1, <4>1
    <3>3. CASE ~(x = s /\ enters)
      <4>1. bets'[x] = bets[x]
        BY <1>6, <3>3
      <4> QED
        BY <3>1, <4>1
    <3> QED
      BY <3>2, <3>3
  <2>2. bets' = [x \in Keys |-> bets'[x]]
    BY <1>1 DEF Settle, SettledKey
  <2> QED
    BY <2>1, <2>2
<1>8. \A x \in Keys : /\ bets'[x].entry = bets[x].entry /\ bets'[x].base = bets[x].base
                      /\ Placed(x) => bets'[x] # NoBet
  <2>1. \A x \in Keys : bets'[x].entry = bets[x].entry /\ bets'[x].base = bets[x].base
    BY <1>1, <1>6
  <2>2. \A x \in Keys : Placed(x) => bets[x].base # NoBars
    BY PanelsAreBars DEF MentionInv, TablesOK, BetOK
  <2> QED
    BY <2>1, <2>2 DEF NoBet
<1>9. Types'
  <2> HIDE DEF new
  <2> QED
    BY <1>1, <1>3, <1>4, <1>7, LocalStep DEF MentionInv, Types, MentionTypeOK, AnyBars
<1>10. Grows
  BY <1>1, <1>3, <1>8 DEF Grows, Posted, Stored
<1>11. enters => Cardinality(Begun(bets[s].entry, now)) >= job[j].horizon
  <2> SUFFICES ASSUME enters PROVE Cardinality(Begun(bets[s].entry, now)) >= job[j].horizon
    OBVIOUS
  <2>1. bets[s].entry = bets[k].entry /\ bets[k].entry \in Nat
    <3>1. bets[s].entry = EntryDay(postedAt[k[1]]) /\ bets[k].entry = EntryDay(postedAt[k[1]])
      BY <1>2 DEF MentionInv, TablesOK, BetOK
    <3>2. postedAt[k[1]] \in Int /\ -1 <= postedAt[k[1]]
      BY <1>1, <1>2, MentionAssumption, SMT DEF Unpublished
    <3> QED
      BY <3>1, <3>2, EntryDayType
  <2>2. Decomposes(job[j].bars[k[2]], bets[k].entry, job[j].horizon)
    BY DEF HasOutcome
  <2>3. SeenBars(job[j].bars[k[2]]) /\ job[j].horizon \in Int
    BY <1>1, <1>2, MentionAssumption DEF JobOK, BarsOK
  <2> QED
    BY <2>1, <2>2, <2>3, OutcomeHasBegun
<1>12. TablesOK'
  <2>1. ASSUME NEW x \in Keys PROVE BetOK(x)'
    <3>1. CASE Placed(x)
      BY <1>3, <1>8, <3>1 DEF MentionInv, TablesOK, BetOK, Warranted, Posted
    <3>2. CASE ~Placed(x)
      BY <1>6, <3>2 DEF BetOK, Placed
    <3> QED
      BY <3>1, <3>2
  <2>2. ASSUME NEW x \in Keys PROVE OwnHorizon(x)'
    <3>1. CASE x = s /\ enters
      <4>1. bets'[x].result = Outcome(j, k)
        BY <1>1, <1>6, <3>1
      <4> QED
        BY <1>2, <1>3, <1>5, <1>8, <1>11, <3>1, <4>1 DEF OwnHorizon, Begun
    <3>2. CASE ~(x = s /\ enters)
      BY <1>3, <1>6, <3>2 DEF MentionInv, TablesOK, OwnHorizon, Settled
    <3> QED
      BY <3>1, <3>2
  <2> QED
    BY <1>3, <2>1, <2>2 DEF MentionInv, TablesOK, StampedComplete, Stored, Posted, SeenBars
<1>13. JobOK(job[j])'
  <2>1. job'[j] = new
    BY <1>1, <1>3 DEF Local
  <2>2. SettleOK(job[j])'
    BY <1>1, <1>8, <2>1 DEF JobOK, SettleOK, Placed, JobType
  <2>3. BarsOK(job[j])'
    BY <1>1, <1>3, <2>1 DEF JobOK, BarsOK, SeenBars, JobType
  <2> QED
    BY <1>1, <2>1, <2>2, <2>3, SMT
       DEF JobOK, FetchOK, ExtractOK, MentionsOK, RestOK, PredictOK, Resting, JobType
<1> HIDE DEF new
<1> QED
  BY <1>3, <1>4, <1>9, <1>10, <1>12, <1>13, WriteKeeps

-----------------------------------------------------------------------------
(* The invariant holds always *)

LEMMA StartKeeps ==
  ASSUME MentionInv, NEW j \in Jobs, Start(j)
  PROVE  MentionInv'
<1>1. CASE StartFetch(j)
  BY <1>1, StartFetchInv
<1>2. ASSUME NEW batch \in SUBSET Unstamped, NEW listed \in BOOLEAN, StartExtract(j, batch, listed)
      PROVE  MentionInv'
  BY <1>2, StartExtractInv
<1>3. ASSUME NEW h \in Horizons, StartTrack(j, h)
      PROVE  MentionInv'
  BY <1>3, StartTrackInv
<1> QED
  BY <1>1, <1>2, <1>3 DEF Start

LEMMA WorkKeeps ==
  ASSUME MentionInv, NEW j \in Jobs, Work(j)
  PROVE  MentionInv'
<1>1. ASSUME NEW p \in job[j].posts, SeePost(j, p) \/ InsertPost(j, p)
      PROVE  MentionInv'
  BY <1>1, SeePostInv, InsertPostInv
<1>2. CASE EndFetch(j)
  BY <1>2, EndFetchInv
<1>3. ASSUME NEW batch \in SUBSET Unstamped, NEW listed \in BOOLEAN, StartExtract(j, batch, listed)
      PROVE  MentionInv'
  BY <1>3, StartExtractInv
<1>4. ASSUME NEW p \in job[j].posts, NEW answer \in [job[j].candidates[p] -> Sentiments],
             Extract(j, p, answer)
      PROVE  MentionInv'
  BY <1>4, ExtractInv
<1>5. ASSUME NEW f \in job[j].found, SeeMention(j, f) \/ InsertMention(j, f)
      PROVE  MentionInv'
  BY <1>5, SeeMentionInv, InsertMentionInv
<1>6. CASE Stamp(j)
  BY <1>6, StampInv
<1>7. CASE EndExtract(j)
  BY <1>7, EndExtractInv
<1>8. CASE StartTrack(j, CronHorizon)
  BY <1>8, MentionAssumption, StartTrackInv
<1>9. ASSUME NEW t \in Tickers, ReadBars(j, t)
      PROVE  MentionInv'
  BY <1>9, ReadBarsInv
<1>10. ASSUME NEW k \in job[j].keys, SeeBet(j, k) \/ InsertBet(j, k) \/ Settle(j, k)
       PROVE  MentionInv'
  BY <1>10, SeeBetInv, InsertBetInv, SettleInv
<1>11. CASE StartSettle(j)
  BY <1>11, StartSettleInv
<1>12. CASE EndTrack(j)
  BY <1>12, EndTrackInv
<1> QED
  BY <1>1, <1>2, <1>3, <1>4, <1>5, <1>6, <1>7, <1>8, <1>9, <1>10, <1>11, <1>12 DEF Work

LEMMA MentionInvAlways == MentionSpec => []MentionInv
<1>1. MentionInv /\ [MentionNext]_mentionVars => MentionInv'
  <2> SUFFICES ASSUME MentionInv, [MentionNext]_mentionVars
               PROVE  MentionInv'
    OBVIOUS
  <2>1. CASE Tick
    BY <2>1, TickInv
  <2>2. ASSUME NEW p \in Posts, Publish(p) PROVE MentionInv'
    BY <2>2, PublishInv
  <2>3. ASSUME NEW j \in Jobs, Start(j) \/ Work(j) \/ Crash(j) PROVE MentionInv'
    BY <2>3, StartKeeps, WorkKeeps, CrashInv
  <2>4. ASSUME NEW j \in Jobs, NEW t \in Tickers, DownloadBars(j, t) \/ DownloadFails(j, t)
        PROVE  MentionInv'
    BY <2>4, DownloadBarsInv, DownloadFailsInv
  <2>5. CASE UNCHANGED mentionVars
    BY <2>5
       DEF mentionVars, MentionInv, Types, MentionTypeOK, TablesOK, StampedComplete, BetOK, OwnHorizon,
           JobOK, FetchOK, ExtractOK, MentionsOK, RestOK, PredictOK, SettleOK, BarsOK, Warranted,
           Placed, Settled, SeenBars, Stored, Posted
  <2> QED
    BY <2>1, <2>2, <2>3, <2>4, <2>5 DEF MentionNext
<1> QED
  BY <1>1, InitInv, PTL DEF MentionSpec

-----------------------------------------------------------------------------
(* What the invariant says of the tables *)

LEMMA PostedAtMoment ==
  ASSUME MentionInv, NEW p \in Posts, Posted(p)
  PROVE  postedAt[p] \in Moments
BY MentionAssumption, SMT DEF MentionInv, Types, MentionTypeOK, Posted, Moments

(* Every variable of the mention pipeline keeps its type: no entry day,    *)
(* cache key or panel outside those the calendar and the archive allow.    *)
THEOREM MentionTypesAlways == MentionSpec => []MentionTypeOK
BY MentionInvAlways, PTL DEF MentionInv, Types

(* However extraction jobs overlap, raise on a row that was taken or die   *)
(* half way, a post that is stamped, and so never read again, has the row  *)
(* of every company its text names (mention_pipeline.run_extraction_batch, *)
(* writers.mark_post_extracted).                                           *)
THEOREM StampedCompleteAlways == MentionSpec => []StampedComplete
BY MentionInvAlways, PTL DEF MentionInv, TablesOK

(* A prediction is on a negative mention of a stored post that appeared    *)
(* out of hours, and its entry is the first weekday that opens after the   *)
(* post, whichever weekend lies between (mention_event.entry_open_date,    *)
(* writers.list_untracked_mentions).                                       *)
THEOREM BetsFollowMentionsAlways == MentionSpec => []BetsFollowMentions
<1>1. MentionInv => BetsFollowMentions
  <2> SUFFICES ASSUME MentionInv, NEW k \in Keys, Placed(k)
               PROVE  LET t == postedAt[k[1]]
                          Opens == {d \in 0..(LastDay + 4) : IsWeekday(d) /\ t < OpenOf(d)}
                      IN /\ stored[k[1]] # "no" /\ mentions[<<k[1], k[2]>>] = "negative"
                         /\ bets[k].entry = Min(Opens)
                         /\ ~(IsWeekday(Day(t)) /\ Slot(t) = 1)
    BY DEF BetsFollowMentions
  <2>1. k[1] \in Posts /\ k[2] \in Tickers
    BY DEF Keys
  <2>2. Warranted(k) /\ bets[k].entry = EntryDay(postedAt[k[1]])
    BY DEF MentionInv, TablesOK, BetOK
  <2>3. stored[k[1]] # "no" /\ mentions[<<k[1], k[2]>>] = "negative"
    BY <2>1, <2>2 DEF MentionInv, TablesOK, Warranted, Stored
  <2>4. postedAt[k[1]] \in Moments
    BY <2>1, <2>2, PostedAtMoment DEF Warranted
  <2> QED
    BY <2>2, <2>3, <2>4, EntryIsFirstOpen DEF Warranted
<1> QED
  BY <1>1, MentionInvAlways, PTL

(* An outcome stands under the horizon it was measured over, and only when *)
(* that many sessions after the entry had begun: a job may take the row of *)
(* another horizon for ripe, but never writes its own outcome into it      *)
(* (cli.research_mentions_track, writers.settle_mention_prediction).       *)
THEOREM SettledOnOwnHorizonAlways == MentionSpec => []SettledOnOwnHorizon
<1>1. MentionInv => SettledOnOwnHorizon
  BY DEF MentionInv, TablesOK, OwnHorizon, SettledOnOwnHorizon
<1> QED
  BY <1>1, MentionInvAlways, PTL

-----------------------------------------------------------------------------
(* The tables are a ledger *)

LEMMA LedgerStarts == MentionInit => Ledger!LedgerInit
<1> SUFFICES ASSUME MentionInit PROVE Ledger!LedgerInit
  OBVIOUS
<1>1. \A k \in Keys : bets[k] = NoBet
  BY DEF MentionInit
<1> QED
  BY <1>1 DEF Ledger!LedgerInit, Bet, NoBet

LEMMA SameBets == UNCHANGED bets => UNCHANGED Ledger!ledgerVars
BY DEF Ledger!ledgerVars, Bet

LEMMA InsertIsPlace ==
  ASSUME MentionInv, NEW j \in Jobs, NEW k \in job[j].keys, InsertBet(j, k)
  PROVE  [Ledger!LedgerNext]_Ledger!ledgerVars
<1>1. /\ job[j] \in JobType /\ JobOK(job[j]) /\ job[j].stage = "predict" /\ k \in job[j].writing
      /\ bets \in [Keys -> [entry: Nat \cup {-1}, base: AnyBars,
                            result: [h: Horizons \cup {0}, whole: BOOLEAN]]]
  BY DEF MentionInv, Types, MentionTypeOK, InsertBet, AnyBars
<1>2. k \in Keys /\ k[1] \in Posts /\ k[2] \in Tickers
  BY <1>1 DEF JobType, Keys
<1>3. CASE NotYetBet(k)
  <2>1. Warranted(k) /\ job[j].bars[k[2]] \in Panels
    BY <1>1, <1>2 DEF JobOK, PredictOK, JobType
  <2>2. EntryDay(postedAt[k[1]]) \in 0..(LastDay + 4)
    BY <1>2, <2>1, PostedAtMoment, EntryIsFirstOpen DEF Warranted
  <2>3. \A x \in Keys : bets'[x] = IF x = k THEN NewBet(j, k) ELSE bets[x]
    BY <1>1, <1>2, <1>3 DEF InsertBet
  <2>4. Bet(k)' \in [entry: 0..(LastDay + 4), base: Panels]
    BY <1>2, <2>1, <2>2, <2>3 DEF Bet, NewBet
  <2>5. Bet(k) = [entry |-> -1, base |-> NoBars]
    BY <1>3 DEF Bet, NotYetBet, NoBet
  <2>6. \A x \in Keys : x # k => Bet(x)' = Bet(x)
    BY <2>3 DEF Bet
  <2>7. \A x \in Keys : bets'[x].result = bets[x].result
    BY <1>3, <2>3 DEF NewBet, NotYetBet, NoBet
  <2>8. Ledger!Place(k)
    BY <1>2, <2>4, <2>5, <2>6, <2>7 DEF Ledger!Place
  <2> QED
    BY <1>2, <2>8 DEF Ledger!LedgerNext
<1>4. CASE ~NotYetBet(k)
  BY <1>4, SameBets DEF InsertBet
<1> QED
  BY <1>3, <1>4

LEMMA SettleIsEnter ==
  ASSUME MentionInv, NEW j \in Jobs, NEW k \in job[j].keys, Settle(j, k)
  PROVE  [Ledger!LedgerNext]_Ledger!ledgerVars
<1> DEFINE s == <<k[1], k[2], job[j].horizon>>
<1>1. /\ job[j] \in JobType
      /\ bets \in [Keys -> [entry: Nat \cup {-1}, base: AnyBars,
                            result: [h: Horizons \cup {0}, whole: BOOLEAN]]]
  BY DEF MentionInv, Types, MentionTypeOK, AnyBars
<1>2. s \in Keys /\ s[3] = job[j].horizon
  BY <1>1 DEF JobType, Keys
<1>3. CASE HasOutcome(j, k) /\ Placed(s)
  <2>1. \A x \in Keys : bets'[x] = IF x = s THEN [bets[x] EXCEPT !.result = Outcome(j, k)] ELSE bets[x]
    BY <1>1, <1>2, <1>3 DEF Settle, SettledKey
  <2>2. \A x \in Keys : Bet(x)' = Bet(x)
    BY <1>1, <2>1 DEF Bet
  <2>3. \A x \in Keys : bets'[x].result = IF x = s THEN Outcome(j, k) ELSE bets[x].result
    BY <1>1, <2>1
  <2>4. Bet(s) # [entry |-> -1, base |-> NoBars]
    BY <1>2, <1>3, PanelsAreBars DEF MentionInv, TablesOK, BetOK, Bet
  <2>5. Outcome(j, k) \in OutcomesOfKey(s)
    BY <1>2 DEF Outcome, Realized, OutcomesOfKey
  <2> HIDE DEF s
  <2>6. PICK x \in Keys : x = s
    BY <1>2
  <2>7. Ledger!Enter(x)
    BY <2>2, <2>3, <2>4, <2>5, <2>6 DEF Ledger!Enter
  <2> QED
    BY <2>7 DEF Ledger!LedgerNext
<1>4. CASE ~(HasOutcome(j, k) /\ Placed(s))
  BY <1>4, SameBets DEF Settle, SettledKey
<1> QED
  BY <1>3, <1>4

(* The tables of mention_predictions implement the ledger the report reads, *)
(* whatever jobs overlap, crash and run again: a bet is placed once and     *)
(* never changes, an outcome is entered under its own key and never goes    *)
(* (writers.insert_mention_prediction, writers.settle_mention_prediction).  *)
THEOREM MentionsImplementLedger == MentionSpec => BetsAreALedger
<1>1. MentionInv /\ [MentionNext]_mentionVars => [Ledger!LedgerNext]_Ledger!ledgerVars
  <2> SUFFICES ASSUME MentionInv, [MentionNext]_mentionVars
               PROVE  [Ledger!LedgerNext]_Ledger!ledgerVars
    OBVIOUS
  <2>1. ASSUME NEW j \in Jobs, NEW k \in job[j].keys, InsertBet(j, k) \/ Settle(j, k)
        PROVE  [Ledger!LedgerNext]_Ledger!ledgerVars
    BY <2>1, InsertIsPlace, SettleIsEnter
  <2>2. CASE UNCHANGED bets
    BY <2>2, SameBets
  <2>3. ASSUME NEW j \in Jobs, Work(j)
        PROVE  UNCHANGED bets \/ \E k \in job[j].keys : InsertBet(j, k) \/ Settle(j, k)
    BY <2>3 DEF Work, SeePost, InsertPost, EndFetch, StartExtract, Extract, SeeMention, InsertMention,
                Stamp, EndExtract, StartTrack, ReadBars, SeeBet, StartSettle, EndTrack, tables
  <2>4. ASSUME NEW j \in Jobs, Start(j) PROVE UNCHANGED bets
    BY <2>4 DEF Start, StartFetch, StartExtract, StartTrack, tables
  <2>5. ASSUME NEW j \in Jobs, Crash(j) \/ \E t \in Tickers : DownloadBars(j, t) \/ DownloadFails(j, t)
        PROVE  UNCHANGED bets
    BY <2>5 DEF Crash, DownloadBars, DownloadFails, tables
  <2>6. Tick \/ (\E p \in Posts : Publish(p)) \/ UNCHANGED mentionVars => UNCHANGED bets
    BY DEF Tick, Publish, tables, mentionVars
  <2> QED
    BY <2>1, <2>2, <2>3, <2>4, <2>5, <2>6 DEF MentionNext
<1> QED
  BY <1>1, InitInv, LedgerStarts, MentionInvAlways, PTL DEF MentionSpec, BetsAreALedger, Ledger!LedgerSpec
==============================================================================
