--------------------------- MODULE MentionTracking ---------------------------
(***************************************************************************)
(* The mention pipeline: `research mentions-fetch`, `mentions-extract` and *)
(* `mentions-track` (bloasis/cli.py), the code they call                   *)
(* (bloasis/analysis/mention_*.py), their tables (bloasis/storage) and the *)
(* wrapper scripts/mentions-track-cron.sh that runs the three in a row.    *)
(*                                                                         *)
(* A job is one process.  Jobs may overlap, be repeated for ever and crash *)
(* between any two transactions.  Every insert reads first and inserts     *)
(* then, in two steps, so a job can find its row taken in between: the     *)
(* insert raises and the job dies.                                         *)
(*                                                                         *)
(* A moment is a quarter of a day in New York: before the open, session,   *)
(* after the close, and evening, when the UTC date has already changed.    *)
(* One extractor version is modelled, the only one the code constructs.    *)
(***************************************************************************)
EXTENDS Integers, FiniteSets, FiniteSetsExt

CONSTANTS
  Posts, Tickers, Jobs,
  CronJobs,      \* the jobs the wrapper runs; the others are run by hand
  ByHand,        \* bound: the commands run by hand
  Named,         \* [Posts -> SUBSET Tickers]: found by the name dictionary
  Bare,          \* [Posts -> SUBSET Tickers]: found by the ticker whitelist only
  Horizons, CronHorizon,
  FirstWeekday,  \* weekday of day 0, Monday is 0
  Holidays,      \* weekdays without a session
  Limit,         \* posts of one extraction batch
  LastDay,       \* bound: days modelled
  Awake,         \* bound: the moments at which anything happens
  LastPublish,   \* bound: the last moment a post may appear
  MaxFaults      \* bound: crashes and failed downloads

ASSUME MentionAssumption ==
  /\ Named \in [Posts -> SUBSET Tickers] /\ Bare \in [Posts -> SUBSET Tickers]
  /\ CronJobs \subseteq Jobs /\ ByHand \subseteq {"fetch", "extract", "track"}
  /\ Horizons \subseteq Nat \ {0} /\ CronHorizon \in Horizons
  /\ FirstWeekday \in 0..6 /\ Holidays \subseteq Nat
  /\ Awake \subseteq 0..(4 * LastDay + 3) /\ Awake # {}
  /\ {Limit, LastDay, MaxFaults} \subseteq Nat /\ LastPublish \in 0..(4 * LastDay + 3)

VARIABLES
  now,        \* the present moment
  postedAt,   \* post -> moment it appeared in the public archive, or Unpublished
  stored,     \* social_posts: post -> "no", "new" or "stamped"
  mentions,   \* social_post_mentions: <<post, ticker>> -> sentiment or "none"
  bets,       \* mention_predictions: <<post, ticker, horizon>> -> row or NoBet
  cache,      \* parquet file of a ticker: the UTC day it is keyed by, its bars
  job,        \* the locals of each job
  faults

mentionVars == <<now, postedAt, stored, mentions, bets, cache, job, faults>>
clock == <<now, postedAt>>
tables == <<stored, mentions, bets>>

Keys == Posts \X Tickers \X Horizons
Sentiments == {"negative", "other"}
Unpublished == -1

(*************************** time and the calendar *************************)

Moments == 0..(4 * LastDay + 3)
Day(t) == t \div 4
Slot(t) == t % 4
UtcDay(t) == Day(t) + (IF Slot(t) = 3 THEN 1 ELSE 0)
OpenOf(d) == 4 * d + 1

IsWeekday(d) == (FirstWeekday + d) % 7 < 5
TradingDays == {d \in 0..LastDay : IsWeekday(d) /\ d \notin Holidays}

Timing(t) ==
  CASE ~IsWeekday(Day(t)) -> "weekend"
    [] IsWeekday(Day(t)) /\ Slot(t) = 0 -> "overnight"
    [] IsWeekday(Day(t)) /\ Slot(t) = 1 -> "in_hours"
    [] IsWeekday(Day(t)) /\ Slot(t) \in {2, 3} -> "after_hours"

OutOfHours(t) == Timing(t) \in {"after_hours", "overnight"}

(* At most two days of a weekend lie between a day and the next weekday.   *)
NextBusinessDay(d) == Min({e \in (d + 1)..(d + 3) : IsWeekday(e)})

EntryNextDay(t) == NextBusinessDay(Day(t))
EntryDay(t) == IF Timing(t) = "overnight" THEN Day(t) ELSE NextBusinessDay(Day(t))

(********************************** bars ***********************************)

(* The daily bars a download returns: the sessions begun so far, of which  *)
(* one that lasts has a partial bar.                                       *)
NoBars == [days |-> {-1}, partial |-> {}]
BarsAt(t) ==
  [days |-> {d \in TradingDays : OpenOf(d) <= t},
   partial |-> {d \in TradingDays : d = Day(t) /\ Slot(t) = 1}]
Panels == {BarsAt(t) : t \in Awake}

After(bars, e) == {d \in bars.days : e < d}
ExitDay(bars, e, h) ==
  CHOOSE d \in After(bars, e) : Cardinality({x \in After(bars, e) : x <= d}) = h

(* decompose_event_return has a value for this entry and horizon.          *)
Decomposes(bars, e, h) == e \in bars.days /\ Cardinality(After(bars, e)) >= h

Realized(bars, e, h) == [h |-> h, whole |-> ExitDay(bars, e, h) \notin bars.partial]

NoResult == [h |-> 0, whole |-> FALSE]
NoBet == [entry |-> -1, base |-> NoBars, result |-> NoResult]
Placed(k) == bets[k] # NoBet
Settled(k) == bets[k].result # NoResult

(********************************** jobs ***********************************)

(* chain: run by the wrapper; horizon: of mentions-track; posts: still to  *)
(* insert or extract; candidates: of each post; post, found: being         *)
(* extracted; keys: of predictions still to write or settle; bars:         *)
(* bars_cache; writing: the key an insert found absent, as a singleton.    *)
NoPost == "no post"
Idle ==
  [stage |-> "idle", chain |-> FALSE, horizon |-> CronHorizon, posts |-> {}, candidates |-> [p \in Posts |-> {}],
   post |-> NoPost, found |-> {}, keys |-> {}, bars |-> [t \in Tickers |-> NoBars],
   failed |-> {}, writing |-> {}]

Stages == {"idle", "fetch", "fetched", "extract", "mentions", "extracted", "predict", "settle"}

JobType ==
  [stage: Stages, chain: BOOLEAN, horizon: Horizons, posts: SUBSET Posts, candidates: [Posts -> SUBSET Tickers],
   post: Posts \cup {NoPost}, found: SUBSET (Tickers \X Sentiments), keys: SUBSET Keys,
   bars: [Tickers -> Panels \cup {NoBars}], failed: SUBSET Tickers,
   writing: SUBSET (Posts \cup (Tickers \X Sentiments) \cup Keys)]

Local(j, locals) == job' = [job EXCEPT ![j] = locals]
Die(j) == Local(j, Idle)
(* A command ends: by hand the job is over, the wrapper goes on.           *)
Return(j, stage) ==
  Local(j, IF job[j].chain THEN [Idle EXCEPT !.stage = stage, !.chain = TRUE] ELSE Idle)

MentionInit ==
  /\ now \in Awake /\ \A t \in Awake : now <= t
  /\ postedAt = [p \in Posts |-> Unpublished]
  /\ stored = [p \in Posts |-> "no"]
  /\ mentions = [m \in Posts \X Tickers |-> "none"]
  /\ bets = [k \in Keys |-> NoBet]
  /\ cache = [t \in Tickers |-> [key |-> -1, bars |-> NoBars]]
  /\ job = [j \in Jobs |-> Idle]
  /\ faults = 0

(***************************** mentions-fetch ******************************)

(* The archive as it is now; a download that fails ends the job at once.   *)
StartFetch(j) ==
  /\ job[j].stage = "idle"
  /\ Local(j, [Idle EXCEPT !.stage = "fetch", !.chain = j \in CronJobs,
                           !.posts = {p \in Posts : postedAt[p] # Unpublished}])
  /\ UNCHANGED <<clock, tables, cache, faults>>

SeePost(j, p) ==
  /\ job[j].stage = "fetch" /\ p \in job[j].posts /\ job[j].writing = {}
  /\ Local(j, IF stored[p] = "no" THEN [job[j] EXCEPT !.writing = {p}]
                                  ELSE [job[j] EXCEPT !.posts = @ \ {p}])
  /\ UNCHANGED <<clock, tables, cache, faults>>

InsertPost(j, p) ==
  /\ job[j].stage = "fetch" /\ p \in job[j].writing
  /\ IF stored[p] = "no"
     THEN /\ stored' = [stored EXCEPT ![p] = "new"]
          /\ Local(j, [job[j] EXCEPT !.writing = {}, !.posts = @ \ {p}])
     ELSE Die(j) /\ UNCHANGED stored
  /\ UNCHANGED <<clock, mentions, bets, cache, faults>>

EndFetch(j) ==
  /\ job[j].stage = "fetch" /\ job[j].posts = {}
  /\ Return(j, "fetched")
  /\ UNCHANGED <<clock, tables, cache, faults>>

(**************************** mentions-extract *****************************)

Unstamped == {p \in Posts : stored[p] = "new"}

(* The newest posts without a stamp, at most Limit of them.                *)
IsBatch(batch) ==
  /\ batch \subseteq Unstamped
  /\ Cardinality(batch) = Min({Limit, Cardinality(Unstamped)})
  /\ \A p \in batch, q \in Unstamped \ batch : postedAt[q] <= postedAt[p]

Candidates(p, listed) == Named[p] \cup (IF listed THEN Bare[p] ELSE {})

StartExtract(j, batch, listed) ==
  /\ job[j].stage = (IF j \in CronJobs THEN "fetched" ELSE "idle")
  /\ IsBatch(batch)
  /\ Local(j, [job[j] EXCEPT !.stage = "extract", !.posts = batch,
                             !.candidates = [p \in Posts |-> Candidates(p, listed)]])
  /\ UNCHANGED <<clock, tables, cache, faults>>

(* All candidates of a post are classified before any row is written; a    *)
(* model that fails answers "other".                                       *)
Extract(j, p, answer) ==
  /\ job[j].stage = "extract" /\ p \in job[j].posts
  /\ Local(j, [job[j] EXCEPT !.stage = "mentions", !.post = p,
                             !.found = {<<t, answer[t]>> : t \in job[j].candidates[p]}])
  /\ UNCHANGED <<clock, tables, cache, faults>>

SeeMention(j, f) ==
  /\ job[j].stage = "mentions" /\ f \in job[j].found /\ job[j].writing = {}
  /\ Local(j, IF mentions[<<job[j].post, f[1]>>] = "none" THEN [job[j] EXCEPT !.writing = {f}]
                                                      ELSE [job[j] EXCEPT !.found = @ \ {f}])
  /\ UNCHANGED <<clock, tables, cache, faults>>

InsertMention(j, f) ==
  /\ job[j].stage = "mentions" /\ f \in job[j].writing
  /\ IF mentions[<<job[j].post, f[1]>>] = "none"
     THEN /\ mentions' = [mentions EXCEPT ![<<job[j].post, f[1]>>] = f[2]]
          /\ Local(j, [job[j] EXCEPT !.writing = {}, !.found = @ \ {f}])
     ELSE Die(j) /\ UNCHANGED mentions
  /\ UNCHANGED <<clock, stored, bets, cache, faults>>

NoneInHand(j) == job[j].writing = {}
AllWritten(j) == job[j].found = {}

Stamp(j) ==
  /\ job[j].stage = "mentions" /\ AllWritten(j)
  /\ stored' = [stored EXCEPT ![job[j].post] = "stamped"]
  /\ Local(j, [job[j] EXCEPT !.stage = "extract", !.posts = @ \ {job[j].post}, !.post = NoPost,
                             !.found = {}, !.writing = {}])
  /\ UNCHANGED <<clock, mentions, bets, cache, faults>>

EndExtract(j) ==
  /\ job[j].stage = "extract" /\ job[j].posts = {}
  /\ Return(j, "extracted")
  /\ UNCHANGED <<clock, tables, cache, faults>>

(***************************** mentions-track ******************************)

NotYetSettled(k) == bets[k].result = NoResult
(* The key of the table: at most one prediction for it.                    *)
NotYetBet(k) == bets[k] = NoBet

Untracked(h) ==
  {k \in Keys : /\ k[3] = h /\ NotYetBet(k)
                /\ mentions[<<k[1], k[2]>>] = "negative"
                /\ OutOfHours(postedAt[k[1]])}

StartTrack(j, h) ==
  /\ job[j].stage = (IF j \in CronJobs THEN "extracted" ELSE "idle")
  /\ j \in CronJobs => h = CronHorizon
  /\ Local(j, [job[j] EXCEPT !.stage = "predict", !.horizon = h, !.keys = Untracked(h)])
  /\ UNCHANGED <<clock, tables, cache, faults>>

Known(j, t) == job[j].bars[t] # NoBars \/ t \in job[j].failed
Needs(j, t) == job[j].stage \in {"predict", "settle"} /\ ~Known(j, t) /\ \E k \in job[j].keys : k[2] = t

(* The bars of a ticker are read once per job: from the file keyed by      *)
(* today's UTC date if there is one, else by a download that writes it.    *)
FromCache(t) == cache[t].key = UtcDay(now)

ReadBars(j, t) ==
  /\ Needs(j, t) /\ FromCache(t)
  /\ Local(j, [job[j] EXCEPT !.bars[t] = cache[t].bars])
  /\ UNCHANGED <<clock, tables, cache, faults>>

DownloadBars(j, t) ==
  /\ Needs(j, t) /\ ~FromCache(t)
  /\ cache' = [cache EXCEPT ![t] = [key |-> UtcDay(now), bars |-> BarsAt(now)]]
  /\ Local(j, [job[j] EXCEPT !.bars[t] = BarsAt(now)])
  /\ UNCHANGED <<clock, tables, faults>>

DownloadFails(j, t) ==
  /\ Needs(j, t) /\ ~FromCache(t) /\ faults < MaxFaults
  /\ faults' = faults + 1
  /\ Local(j, [job[j] EXCEPT !.failed = @ \cup {t}])
  /\ UNCHANGED <<clock, tables, cache>>

NewBetOfFile(j, k) ==
  [entry |-> EntryDay(postedAt[k[1]]), base |-> cache[k[2]], result |-> NoResult]
NewBet(j, k) ==
  [entry |-> EntryDay(postedAt[k[1]]), base |-> job[j].bars[k[2]], result |-> NoResult]

SeeBet(j, k) ==
  /\ job[j].stage = "predict" /\ k \in job[j].keys /\ job[j].writing = {}
  /\ Known(j, k[2])
  /\ Local(j, IF k[2] \notin job[j].failed /\ NotYetBet(k)
              THEN [job[j] EXCEPT !.writing = {k}]
              ELSE [job[j] EXCEPT !.keys = @ \ {k}])
  /\ UNCHANGED <<clock, tables, cache, faults>>

InsertBet(j, k) ==
  /\ job[j].stage = "predict" /\ k \in job[j].writing
  /\ IF NotYetBet(k)
     THEN /\ bets' = [bets EXCEPT ![k] = NewBet(j, k)]
          /\ Local(j, [job[j] EXCEPT !.writing = {}, !.keys = @ \ {k}])
     ELSE Die(j) /\ UNCHANGED bets
  /\ UNCHANGED <<clock, stored, mentions, cache, faults>>

(* Ripeness counts calendar days; every horizon is listed.                 *)
Ripe == {k \in Keys : Placed(k) /\ ~Settled(k) /\ bets[k].entry + k[3] <= UtcDay(now)}

StartSettle(j) ==
  /\ job[j].stage = "predict" /\ job[j].keys = {}
  /\ Local(j, [job[j] EXCEPT !.stage = "settle", !.keys = Ripe])
  /\ UNCHANGED <<clock, tables, cache, faults>>

HasBarAfterExit(j, k) ==
  k[2] \notin job[j].failed /\ Decomposes(job[j].bars[k[2]], bets[k].entry, job[j].horizon + 1)
HasOutcome(j, k) ==
  k[2] \notin job[j].failed /\ Decomposes(job[j].bars[k[2]], bets[k].entry, job[j].horizon)

OwnKey(j, k) == k
(* The row an outcome is written to is addressed by the job's horizon, not *)
(* by that of the row it was computed for.                                 *)
SettledKey(j, k) == <<k[1], k[2], job[j].horizon>>
Outcome(j, k) == Realized(job[j].bars[k[2]], bets[k].entry, job[j].horizon)

Settle(j, k) ==
  /\ job[j].stage = "settle" /\ k \in job[j].keys /\ Known(j, k[2])
  /\ IF HasOutcome(j, k) /\ Placed(SettledKey(j, k))
     THEN bets' = [bets EXCEPT ![SettledKey(j, k)].result = Outcome(j, k)]
     ELSE UNCHANGED bets
  /\ Local(j, [job[j] EXCEPT !.keys = @ \ {k}])
  /\ UNCHANGED <<clock, stored, mentions, cache, faults>>

EndTrack(j) ==
  /\ job[j].stage = "settle" /\ job[j].keys = {}
  /\ Die(j)
  /\ UNCHANGED <<clock, tables, cache, faults>>

(**************************** faults and the world *************************)

Crash(j) ==
  /\ job[j].stage # "idle" /\ faults < MaxFaults
  /\ faults' = faults + 1
  /\ Die(j)
  /\ UNCHANGED <<clock, tables, cache>>

Publish(p) ==
  /\ postedAt[p] = Unpublished /\ now <= LastPublish
  /\ postedAt' = [postedAt EXCEPT ![p] = now]
  /\ UNCHANGED <<now, tables, cache, job, faults>>

Tick ==
  /\ \E t \in Awake : /\ now < t /\ \A u \in Awake : now < u => t <= u
                      /\ now' = t
  /\ UNCHANGED <<postedAt, tables, cache, job, faults>>

(* The next command of the wrapper, or one run by hand.                    *)
StartsByHand(j, command) == j \notin CronJobs /\ command \in ByHand

(* A step a running job takes when nothing goes wrong outside it.          *)
Work(j) ==
  \/ \E p \in job[j].posts : SeePost(j, p) \/ InsertPost(j, p)
  \/ EndFetch(j)
  \/ /\ j \in CronJobs
     /\ \E batch \in SUBSET Unstamped, listed \in BOOLEAN : StartExtract(j, batch, listed)
  \/ \E p \in job[j].posts : \E answer \in [job[j].candidates[p] -> Sentiments] : Extract(j, p, answer)
  \/ \E f \in job[j].found : SeeMention(j, f) \/ InsertMention(j, f)
  \/ Stamp(j) \/ EndExtract(j)
  \/ j \in CronJobs /\ StartTrack(j, CronHorizon)
  \/ \E t \in Tickers : ReadBars(j, t)
  \/ \E k \in job[j].keys : SeeBet(j, k) \/ InsertBet(j, k) \/ Settle(j, k)
  \/ StartSettle(j) \/ EndTrack(j)

Start(j) ==
  \/ (j \in CronJobs \/ StartsByHand(j, "fetch")) /\ StartFetch(j)
  \/ /\ StartsByHand(j, "extract")
     /\ \E batch \in SUBSET Unstamped, listed \in BOOLEAN : StartExtract(j, batch, listed)
  \/ StartsByHand(j, "track") /\ \E h \in Horizons : StartTrack(j, h)

MentionNext ==
  \/ Tick
  \/ \E p \in Posts : Publish(p)
  \/ \E j \in Jobs : Start(j) \/ Work(j) \/ Crash(j) \/ \E t \in Tickers : DownloadBars(j, t) \/ DownloadFails(j, t)

(* Time passes, the wrapper is started again and again, a job that runs    *)
(* goes on, and a download that is tried again and again succeeds.         *)
MentionSpec ==
  /\ MentionInit /\ [][MentionNext]_mentionVars
  /\ WF_mentionVars(Tick)
  /\ \A j \in Jobs : WF_mentionVars(Work(j))
  /\ \A j \in CronJobs : /\ WF_mentionVars(StartFetch(j))
                         /\ \A t \in Tickers : SF_mentionVars(DownloadBars(j, t))

(******************************* properties ********************************)

MentionTypeOK ==
  /\ now \in Moments /\ faults \in 0..MaxFaults
  /\ postedAt \in [Posts -> 0..LastPublish \cup {Unpublished}]
  /\ stored \in [Posts -> {"no", "new", "stamped"}]
  /\ mentions \in [Posts \X Tickers -> Sentiments \cup {"none"}]
  /\ bets \in [Keys -> [entry: Nat \cup {-1}, base: Panels \cup {NoBars},
                        result: [h: Horizons \cup {0}, whole: BOOLEAN]]]
  /\ cache \in [Tickers -> [key: 0..(LastDay + 1) \cup {-1}, bars: Panels \cup {NoBars}]]
  /\ job \in [Jobs -> JobType]

(* A stamp is final: no later batch reads the post again.  So a stamped    *)
(* post has the row of every company the dictionary finds in it, however   *)
(* jobs overlapped or died (run_extraction_batch, mark_post_extracted).    *)
StampedComplete ==
  \A p \in Posts : stored[p] = "stamped" => \A t \in Named[p] : mentions[<<p, t>>] # "none"

(* A bet is on a negative mention of a stored post that appeared while no  *)
(* session was on, and its entry is the first weekday open after the post  *)
(* (list_untracked_mentions, entry_open_date).                             *)
BetsFollowMentions ==
  \A k \in Keys : Placed(k) =>
    LET t == postedAt[k[1]]
        Opens == {d \in 0..(LastDay + 4) : IsWeekday(d) /\ t < OpenOf(d)}
    IN /\ stored[k[1]] # "no" /\ mentions[<<k[1], k[2]>>] = "negative"
       /\ bets[k].entry = Min(Opens)
       /\ ~(IsWeekday(Day(t)) /\ Slot(t) = 1)

(* The outcome under a key was measured over that key's horizon, and not   *)
(* before the session it ends in had begun (mentions-track, SETTLE).       *)
SettledOnOwnHorizon ==
  \A k \in Keys : Settled(k) =>
    /\ bets[k].result.h = k[3]
    /\ Cardinality({d \in TradingDays : bets[k].entry < d /\ OpenOf(d) <= now}) >= k[3]

(* The tables as the ledger the report reads: a bet is placed once and     *)
(* stands, an outcome is entered under its own key and stays.              *)
OutcomesOfKey(k) == [h: {k[3]}, whole: BOOLEAN]
Bet(k) == [entry |-> bets[k].entry, base |-> bets[k].base]
Ledger == INSTANCE BetLedger WITH
  Bets <- [entry: 0..(LastDay + 4), base: Panels],
  NoBet <- [entry |-> -1, base |-> NoBars],
  OutcomesOf <- OutcomesOfKey,
  NoOutcome <- NoResult,
  bet <- [k \in Keys |-> Bet(k)],
  outcome <- [k \in Keys |-> bets[k].result]
BetsAreALedger == Ledger!LedgerSpec

(* With the wrapper started again and again, a bet at its horizon whose    *)
(* entry is a session and whose last session has begun is settled, through *)
(* crashes, failed downloads, stale files and jobs run by hand.            *)
Due(k) ==
  /\ Placed(k) /\ k[3] = CronHorizon
  /\ Decomposes(BarsAt(now), bets[k].entry, k[3])
DueBetsSettle == \A k \in Keys : Due(k) ~> Settled(k)

(* The same for every bet that lies in the past, as the docs have it.      *)
Past(k) == Placed(k) /\ bets[k].entry + k[3] < LastDay /\ Day(now) = LastDay
PastBetsSettle == \A k \in Keys : Past(k) ~> Settled(k)
=============================================================================
