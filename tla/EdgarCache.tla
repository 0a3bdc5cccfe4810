----------------------------- MODULE EdgarCache -----------------------------
(***************************************************************************)
(* The EDGAR client (bloasis/data/fetchers/sec_edgar.py): its expiring     *)
(* JSON files, the paged filing list of a registrant and of the registrant *)
(* it succeeded, and the texts it extracts, against a server on which      *)
(* filings arrive at any time.                                             *)
(*                                                                         *)
(* A run is one process with one EdgarClient; runs follow one another.  It *)
(* lists the 10-Ks of one ticker and then reads texts.  A file is written  *)
(* in place: a run that dies in the middle leaves it cut short, with a     *)
(* fresh modification time.                                                *)
(*                                                                         *)
(* Filings of a registrant are numbered as they arrive; what the server    *)
(* answers follows from how many there are, so the content of a file is    *)
(* that number.  The newest Recent filings are in the snapshot, the older  *)
(* ones on pages of PageSize, so a new filing moves every page boundary.   *)
(***************************************************************************)
EXTENDS Integers, FiniteSets, FiniteSetsExt

CONSTANTS
  Registrants,
  Current,       \* the registrant SEC's ticker map names
  Predecessor,   \* CikSuccession: [Registrants -> Registrants \cup {None}]
  Evidence,      \* the number of the filing that proves a succession
  None,
  FirstFilings,  \* filings at the start
  Recent, PageSize,
  Since,         \* filings numbered below it are older than `since`
  MaxAge,
  LastDay,       \* bound: days
  MaxFilings,    \* bound: filings of one registrant
  Extracted,     \* bound: the filings whose text is asked for
  Faults         \* SUBSET {"crash", "network", "http"}: what may go wrong

ASSUME EdgarAssumption ==
  /\ Current \in Registrants /\ None \notin Registrants
  /\ Predecessor \in [Registrants -> Registrants \cup {None}]
  /\ FirstFilings \in [Registrants -> Nat] /\ Evidence \in [Registrants -> 1..MaxFilings]
  /\ {Recent, PageSize} \subseteq Nat \ {0}
  /\ {Since, MaxAge, LastDay, MaxFilings} \subseteq Nat
  /\ Extracted \subseteq Registrants \X (1..MaxFilings)
  /\ Faults \subseteq {"crash", "network", "http"}

VARIABLES
  day,
  filedOn,   \* the server: registrant -> number of a filing -> day
  disk,      \* file -> its content and age, or NoFile
  text,      \* risk_factors/: filing -> "none", "cut" or "whole"
  run        \* the locals of the run

world == <<day, filedOn>>
edgarVars == <<day, filedOn, disk, text, run>>

Numbers == 1..MaxFilings
Filings == Registrants \X Numbers
Unfiled == -1
LongAgo == 0
NoFile == [n |-> -1, whole |-> FALSE, day |-> 0, current |-> FALSE]
Count(r) == Cardinality({i \in Numbers : filedOn[r][i] # Unfiled})

(******************************* the server ********************************)

(* With n filings: the numbers in the snapshot, the pages, their numbers.  *)
RecentOf(n) == {i \in Numbers : n - Recent < i /\ i <= n}
PageTop(n, k) == n - Recent - (k - 1) * PageSize
PageOf(n, k) == {i \in Numbers : PageTop(n, k) - PageSize < i /\ i <= PageTop(n, k)}
PagesOf(n) == {k \in 1..MaxFilings : PageTop(n, k) >= 1}

Snapshot(r) == <<r, 0>>
Page(r, k) == <<r, k>>
Files == Registrants \X (0..MaxFilings)

(********************************* a run ***********************************)

(* asks: the file being asked for; got: a download not yet written;        *)
(* listed: the filings read so far; pages: still to ask for; disabled:     *)
(* _refresh_disabled; warned: a stale copy was served; visited: `seen` of  *)
(* list_10k; seen: what the texts read looked like; began: on which day.   *)
Fresh ==
  [step |-> "idle", asks |-> Snapshot(Current), got |-> -1, listed |-> {}, pages |-> {},
   disabled |-> FALSE, warned |-> FALSE, visited |-> {}, seen |-> {}, began |-> 0]

Steps == {"idle", "ask", "write", "close", "listed", "text", "raised"}

Local(locals) == run' = locals
Reading == run.step = "ask"
Asked == disk[run.asks]

EdgarInit ==
  /\ day = 0
  /\ filedOn = [r \in Registrants |-> [i \in Numbers |-> IF i <= FirstFilings[r] THEN LongAgo ELSE Unfiled]]
  /\ disk = [f \in Files |-> NoFile]
  /\ text = [a \in Extracted |-> "none"]
  /\ run = Fresh

Begin ==
  /\ run.step \in {"idle", "listed", "raised"}
  /\ Local([Fresh EXCEPT !.step = "ask", !.began = day])
  /\ UNCHANGED <<world, disk, text>>

(* A snapshot is valid for MaxAge, a page while it does not predate its    *)
(* snapshot.                                                               *)
Young(file) == file.day >= day - MaxAge
PageYoung == Young(Asked)
PageValid == Asked.current
Valid == (IF run.asks[2] = 0 THEN Young(Asked) ELSE PageValid) \/ run.disabled

(* Pages whose newest filing, by the snapshot, is on or after `since`.     *)
Wanted(n) == {k \in PagesOf(n) : PageTop(n, k) >= Since}

(* What follows a registrant's last block: its predecessor, if a block     *)
(* that was read lists the evidence, or the answer.                        *)
ProvenBySnapshot(r, locals) == Evidence[r] \in RecentOf(disk[Snapshot(r)].n)
Proven(r, locals) == <<r, Evidence[r]>> \in locals.listed

FollowUnchecked(locals) ==
  LET r == locals.asks[1]
  IN IF Proven(r, locals) /\ Predecessor[r] \notin locals.visited
     THEN [locals EXCEPT !.asks = Snapshot(Predecessor[r])]
     ELSE [locals EXCEPT !.step = "listed"]
Follow(locals) ==
  LET r == locals.asks[1]
      next == Predecessor[r]
  IN IF next # None /\ Proven(r, locals) /\ next \notin locals.visited
     THEN [locals EXCEPT !.asks = Snapshot(next)]
     ELSE [locals EXCEPT !.step = "listed"]

Advance(locals) ==
  IF locals.pages = {} THEN Follow(locals)
  ELSE [locals EXCEPT !.asks = Page(@[1], Min(locals.pages)), !.pages = @ \ {Min(locals.pages)}]

(* The file asked for is in hand, with content n.                          *)
Take(n, warns) ==
  LET f == run.asks
      block == IF f[2] = 0 THEN RecentOf(n) ELSE PageOf(n, f[2])
      back == [run EXCEPT !.step = "ask", !.got = -1, !.warned = @ \/ warns,
                          !.listed = @ \cup {<<f[1], i>> : i \in block}]
  IN Local(Advance(
       IF f[2] = 0 THEN [back EXCEPT !.pages = Wanted(n), !.visited = @ \cup {f[1]}]
                   ELSE back))

(* json.loads of a file that was cut short raises.                         *)
Serve(warns) ==
  IF Asked.whole THEN Take(Asked.n, warns)
                 ELSE Local([run EXCEPT !.step = "raised"])

ReadValid ==
  /\ Reading /\ Asked # NoFile /\ Valid
  /\ Serve(FALSE)
  /\ UNCHANGED <<world, disk, text>>

Missing == Asked = NoFile
NeedsFetch == Reading /\ (Missing \/ ~Valid)

Fetch ==
  /\ NeedsFetch
  /\ Local([run EXCEPT !.step = "write", !.got = Count(run.asks[1])])
  /\ UNCHANGED <<world, disk, text>>

(* Without a copy the failure propagates; else the old copy is served, and *)
(* after a network failure or throttling no refresh is tried again.        *)
FetchFails(why) ==
  /\ NeedsFetch /\ why \in Faults \ {"crash"}
  /\ IF Missing THEN Local([run EXCEPT !.step = "raised"])
     ELSE IF why = "network" THEN Local([run EXCEPT !.disabled = TRUE, !.warned = TRUE])
     ELSE Serve(TRUE)
  /\ UNCHANGED <<world, disk, text>>

(* A page just written does not predate its snapshot; a snapshot just      *)
(* written outdates all its pages.                                         *)
Written(whole) ==
  [f \in Files |->
    IF f = run.asks THEN [n |-> run.got, whole |-> whole, day |-> day, current |-> TRUE]
    ELSE IF run.asks[2] = 0 /\ f[1] = run.asks[1] THEN [disk[f] EXCEPT !.current = FALSE]
    ELSE disk[f]]

OpenFile ==
  /\ run.step = "write"
  /\ disk' = Written(FALSE)
  /\ Local([run EXCEPT !.step = "close"])
  /\ UNCHANGED <<world, text>>

CloseFile ==
  /\ run.step = "close"
  /\ disk' = Written(TRUE)
  /\ Take(run.got, FALSE)
  /\ UNCHANGED <<world, text>>

(* risk_factors: a text on disk is served for ever.                        *)
OpenText(a) ==
  /\ run.step = "listed" /\ a \in run.listed /\ text[a] = "none"
  /\ text' = [text EXCEPT ![a] = "cut"]
  /\ Local([run EXCEPT !.step = "text", !.asks = a])
  /\ UNCHANGED <<world, disk>>

CloseText ==
  /\ run.step = "text"
  /\ text' = [text EXCEPT ![run.asks] = "whole"]
  /\ Local([run EXCEPT !.step = "listed", !.seen = @ \cup {"whole"}])
  /\ UNCHANGED <<world, disk>>

ReadText(a) ==
  /\ run.step = "listed" /\ a \in run.listed /\ text[a] # "none"
  /\ Local([run EXCEPT !.seen = @ \cup {text[a]}])
  /\ UNCHANGED <<world, disk, text>>

Crash ==
  /\ "crash" \in Faults /\ run.step \in {"ask", "write", "close", "text"}
  /\ Local(Fresh)
  /\ UNCHANGED <<world, disk, text>>

(* A filing arrives.                                                       *)
File(r) ==
  /\ Count(r) < MaxFilings
  /\ filedOn' = [filedOn EXCEPT ![r][Count(r) + 1] = day]
  /\ UNCHANGED <<day, disk, text, run>>

(* A download lasts less than a day.                                       *)
NextDay ==
  /\ day < LastDay /\ day' = day + 1
  /\ run.step \notin {"write", "close"}
  /\ UNCHANGED <<filedOn, disk, text, run>>

EdgarNext ==
  \/ \E r \in Registrants : File(r)
  \/ NextDay
  \/ Begin \/ ReadValid \/ Fetch \/ OpenFile \/ CloseFile \/ Crash
  \/ \E why \in Faults : FetchFails(why)
  \/ CloseText
  \/ \E a \in Extracted : OpenText(a) \/ ReadText(a)

EdgarSpec == EdgarInit /\ [][EdgarNext]_edgarVars

(******************************* properties ********************************)

Contents == [n: 0..MaxFilings, whole: BOOLEAN, day: 0..LastDay, current: BOOLEAN]

EdgarTypeOK ==
  /\ day \in 0..LastDay
  /\ filedOn \in [Registrants -> [Numbers -> 0..LastDay \cup {Unfiled}]]
  /\ disk \in [Files -> Contents \cup {NoFile}]
  /\ text \in [Extracted -> {"none", "cut", "whole"}]
  /\ run \in [step: Steps, asks: Files, got: -1..MaxFilings, listed: SUBSET Filings,
              pages: SUBSET Numbers, disabled: BOOLEAN, warned: BOOLEAN,
              visited: SUBSET Registrants, seen: SUBSET {"cut", "whole"}, began: 0..LastDay]

Clean == run.step \in {"listed", "text"} /\ ~run.warned
KnownFor(r, i, before) == filedOn[r][i] # Unfiled /\ filedOn[r][i] < before

(* The pages of r are of one piece with its snapshot: nothing was filed    *)
(* between their downloads, or all the older filings are on one page.      *)
OfOnePiece(r) ==
  LET n == disk[Snapshot(r)].n IN
  Count(r) <= Recent + PageSize \/ \A k \in Wanted(n) : disk[Page(r, k)].n = n

(* The filings that a list made on this day should have, of r.             *)
Due(r) == {i \in Numbers : i >= Since /\ KnownFor(r, i, run.began - MaxAge)}

(* A list that came without a warning has every filing of the registrants  *)
(* it covers that was filed, inside the window, more than MaxAge before    *)
(* the run began: whatever copies of snapshot and pages it was made from,  *)
(* old, new or cut, no filing falls between a snapshot and its page        *)
(* (list_10k, _cached_json).                                               *)
CleanListsComplete ==
  Clean => \A r \in run.visited : OfOnePiece(r) => \A i \in Due(r) : <<r, i>> \in run.listed

(* It also covers the predecessor of a registrant it covers, if the filing *)
(* that proves the succession is inside the window (_verified_predecessor).*)
HistoryKept ==
  Clean =>
    \A r \in run.visited :
      Predecessor[r] # None /\ OfOnePiece(r) /\ Evidence[r] \in Due(r)
        => Predecessor[r] \in run.visited

(* sec_edgar.py:507-510 "Pages whose `filingTo` is on/after `since` ... are *)
(* read too; a cached page older than its snapshot is refetched, because   *)
(* new filings shift the page boundaries and a stale page can miss rows":  *)
(* no row is missed, whatever was filed between the downloads.             *)
PagesMissNothing ==
  Clean => \A r \in run.visited : \A i \in Due(r) : <<r, i>> \in run.listed

(* The text of a filing that a run reads is the whole section.             *)
TextsWhole == run.seen \subseteq {"whole"}
=============================================================================
