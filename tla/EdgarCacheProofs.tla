-------------------------- MODULE EdgarCacheProofs --------------------------
(***************************************************************************)
(* Proofs about EdgarCache, for any registrants, page sizes and ages of    *)
(* files, and wherever runs crash or downloads fail: a list that came      *)
(* without a warning misses no filing and no predecessor, unless the pages *)
(* it was made from were filed to while they were downloaded.              *)
(***************************************************************************)
EXTENDS EdgarCache, SumLemmas

-----------------------------------------------------------------------------
(* The invariant.  Its parts speak of a server fo, a disk dk, the locals l *)
(* of a run and a day t.                                                   *)

(* Filings arrive in the order of their numbers.                           *)
Filed(fo, r) == {i \in Numbers : fo[r][i] # Unfiled}
Size(fo, r) == Cardinality(Filed(fo, r))
ServerGood(fo, t) ==
  \A r \in Registrants : /\ Filed(fo, r) = 1..Size(fo, r)
                         /\ \A i \in Numbers : fo[r][i] <= t

(* n filings are all that were there before day d.                         *)
Covers(fo, r, n, d) ==
  /\ 0 <= n /\ n <= Size(fo, r)
  /\ \A i \in Numbers : n < i /\ fo[r][i] # Unfiled => d <= fo[r][i]

(* A file covers what was filed before its day, and a page that does not   *)
(* predate its snapshot has as many filings.                               *)
DiskGood(fo, dk, t) ==
  \A f \in Files :
    /\ dk[f] # NoFile => dk[f].day <= t /\ Covers(fo, f[1], dk[f].n, dk[f].day)
    /\ f[2] # 0 /\ dk[f].current => dk[Snapshot(f[1])].n <= dk[f].n

Busy(l) == l.step \in {"ask", "write", "close"}

(* A download in hand, and where a run is.                                 *)
LocalsGood(fo, dk, l, t) ==
  /\ l.step \in {"write", "close"} =>
       /\ Covers(fo, l.asks[1], l.got, t)
       /\ l.asks[2] # 0 => dk[Snapshot(l.asks[1])].n <= l.got
  /\ Busy(l) /\ l.asks[2] = 0 => l.asks[1] \notin l.visited /\ l.pages = {}
  /\ Busy(l) /\ l.asks[2] # 0 => l.asks[1] \in l.visited
  /\ l.disabled => l.warned
  /\ l.began <= t

(* Of a registrant that a run covers: the snapshot was young when the run  *)
(* began, its filings are listed, every wanted page is still to come or    *)
(* was listed with as many filings, and the evidence of a succession, once *)
(* listed, leads on.                                                       *)
Todo(l, r, k) ==
  Busy(l) /\ l.asks[1] = r /\ l.asks[2] # 0 /\ (k \in l.pages \/ k = l.asks[2])
Done(dk, l, r, k) ==
  LET n == dk[Page(r, k)].n IN
  /\ dk[Snapshot(r)].n <= n
  /\ dk[Page(r, k)] # NoFile
  /\ \A i \in PageOf(n, k) : <<r, i>> \in l.listed
Covered(dk, l, r) ==
  LET c == dk[Snapshot(r)] IN
  /\ c # NoFile /\ l.began - MaxAge <= c.day
  /\ \A i \in RecentOf(c.n) : <<r, i>> \in l.listed
  /\ \A k \in Wanted(c.n) : Todo(l, r, k) \/ Done(dk, l, r, k)
Followed(l, r) ==
  <<r, Evidence[r]>> \in l.listed /\ Predecessor[r] # None =>
    \/ Predecessor[r] \in l.visited
    \/ Busy(l) /\ (l.asks[1] = r \/ l.asks = Snapshot(Predecessor[r]))

WalkGood(dk, l) ==
  l.step \in {"ask", "write", "close", "listed", "text"} /\ ~l.warned =>
    \A r \in l.visited : Covered(dk, l, r) /\ Followed(l, r)

EdgarInv ==
  /\ EdgarTypeOK
  /\ ServerGood(filedOn, day)
  /\ DiskGood(filedOn, disk, day)
  /\ LocalsGood(filedOn, disk, run, day)
  /\ WalkGood(disk, run)

-----------------------------------------------------------------------------
(* Numbers of filings and pages *)

LEMMA Constants ==
  /\ MaxFilings \in Nat /\ Recent \in Nat /\ PageSize \in Nat /\ Recent >= 1 /\ PageSize >= 1
  /\ Since \in Nat /\ MaxAge \in Nat /\ LastDay \in Nat
  /\ \A i \in Numbers : i \in Nat /\ 1 <= i /\ i <= MaxFilings
  /\ Current \in Registrants /\ None \notin Registrants
  /\ \A r \in Registrants : Evidence[r] \in Numbers /\ Predecessor[r] \in Registrants \cup {None}
  /\ Extracted \subseteq Files
<1>1. /\ MaxFilings \in Nat /\ Recent \in Nat /\ PageSize \in Nat /\ Recent >= 1 /\ PageSize >= 1
      /\ Since \in Nat /\ MaxAge \in Nat /\ LastDay \in Nat
  BY EdgarAssumption
<1>2. \A i \in Numbers : i \in Nat /\ 1 <= i /\ i <= MaxFilings
  BY <1>1 DEF Numbers
<1>3. /\ Current \in Registrants /\ None \notin Registrants
      /\ \A r \in Registrants : Evidence[r] \in Numbers /\ Predecessor[r] \in Registrants \cup {None}
  BY EdgarAssumption DEF Numbers
<1>4. 1..MaxFilings \subseteq 0..MaxFilings
  BY <1>1
<1>5. Extracted \subseteq Files
  BY <1>4, EdgarAssumption DEF Files
<1> QED
  BY <1>1, <1>2, <1>3, <1>5

LEMMA FilesOf ==
  ASSUME NEW r \in Registrants
  PROVE  /\ Snapshot(r) \in Files /\ Snapshot(r)[1] = r /\ Snapshot(r)[2] = 0
         /\ \A k \in Numbers : Page(r, k) \in Files /\ Page(r, k)[1] = r /\ Page(r, k)[2] = k
BY Constants DEF Snapshot, Page, Files, Numbers

LEMMA FileParts ==
  ASSUME NEW f \in Files
  PROVE  /\ f[1] \in Registrants /\ f[2] \in 0..MaxFilings /\ f = <<f[1], f[2]>>
         /\ f[2] = 0 => f = Snapshot(f[1])
         /\ f[2] # 0 => f[2] \in Numbers /\ f = Page(f[1], f[2])
BY Constants DEF Files, Snapshot, Page, Numbers

LEMMA LeastPage ==
  ASSUME NEW P, P \subseteq Numbers, P # {}
  PROVE  Min(P) \in P
<1>1. P \subseteq Nat
  BY Constants
<1>2. \E x \in P : \A y \in P : x <= y
  BY <1>1, LeastNat
<1> QED
  BY <1>2 DEF Min

LEMMA SizeBounds ==
  ASSUME NEW fo, NEW r \in Registrants
  PROVE  /\ IsFiniteSet(Filed(fo, r)) /\ Size(fo, r) \in 0..MaxFilings
<1>1. IsFiniteSet(1..MaxFilings) /\ Cardinality(1..MaxFilings) = MaxFilings
  <2>1. 1 \in Int /\ MaxFilings \in Int /\ (IF 1 > MaxFilings THEN 0 ELSE MaxFilings - 1 + 1) = MaxFilings
    BY Constants
  <2> QED
    BY <2>1, FS_Interval
<1>2. Filed(fo, r) \subseteq 1..MaxFilings
  BY DEF Filed, Numbers
<1>3. IsFiniteSet(Filed(fo, r)) /\ Cardinality(Filed(fo, r)) <= MaxFilings
  BY <1>1, <1>2, FS_Subset
<1>4. Cardinality(Filed(fo, r)) \in Nat
  BY <1>3, FS_CardinalityType
<1> QED
  BY <1>3, <1>4, Constants DEF Size

LEMMA CountIsSize ==
  ASSUME NEW r \in Registrants
  PROVE  Count(r) = Size(filedOn, r)
BY DEF Count, Size, Filed

LEMMA NotFewer ==
  ASSUME NEW a \in Nat, NEW p \in Nat, p >= 1
  PROVE  a <= a * p
BY Z3

(* A filing that the snapshot does not hold is on one of its pages.        *)
LEMMA PageOfFiling ==
  ASSUME NEW n \in 0..MaxFilings, NEW i \in Numbers, i <= n - Recent
  PROVE  \E k \in Numbers : i \in PageOf(n, k)
<1> DEFINE m == n - Recent - i
           T == {k \in Nat : m < k * PageSize}
<1>1. m \in Nat /\ n \in Nat /\ i \in Nat /\ i >= 1 /\ n <= MaxFilings
  BY Constants
<1>2. m + 1 \in T
  <2>1. m + 1 \in Nat /\ m + 1 <= (m + 1) * PageSize /\ (m + 1) * PageSize \in Nat
    BY <1>1, NotFewer, Constants
  <2> QED
    BY <1>1, <2>1
<1>3. PICK k \in T : \A y \in T : k <= y
  <2>1. T \subseteq Nat /\ T # {}
    BY <1>2
  <2> HIDE DEF T
  <2> QED
    BY <2>1, LeastNat
<1>4. k \in Nat /\ m < k * PageSize
  BY <1>3
<1>5. k >= 1
  BY <1>1, <1>4, Constants
<1>6. (k - 1) * PageSize <= m
  <2>1. k - 1 \notin T /\ k - 1 \in Nat
    BY <1>3, <1>4, <1>5
  <2>2. (k - 1) * PageSize \in Nat
    BY <2>1, Constants
  <2> QED
    BY <1>1, <2>1, <2>2
<1>7. k - 1 <= m
  <2>1. k - 1 \in Nat /\ (k - 1) * PageSize \in Nat
    BY <1>4, <1>5, Constants
  <2>2. k - 1 <= (k - 1) * PageSize
    BY <2>1, NotFewer, Constants
  <2> QED
    BY <1>1, <1>6, <2>1, <2>2
<1>8. k \in Numbers
  BY <1>1, <1>4, <1>5, <1>7, Constants DEF Numbers
<1>9. k * PageSize = (k - 1) * PageSize + PageSize
  BY <1>4, Constants
<1>10. (k - 1) * PageSize \in Int
  BY <1>4, Constants
<1>11. PageTop(n, k) - PageSize < i /\ i <= PageTop(n, k)
  BY <1>1, <1>4, <1>6, <1>9, <1>10, Constants DEF PageTop
<1> QED
  BY <1>8, <1>11 DEF PageOf

-----------------------------------------------------------------------------
(* A file in hand: the locals that Take(n, warns) leaves *)

Runs ==
  [step: Steps, asks: Files, got: -1..MaxFilings, listed: SUBSET Filings,
   pages: SUBSET Numbers, disabled: BOOLEAN, warned: BOOLEAN,
   visited: SUBSET Registrants, seen: SUBSET {"cut", "whole"}, began: 0..LastDay]

Block(f, n) == IF f[2] = 0 THEN RecentOf(n) ELSE PageOf(n, f[2])
Pending(l, n) == IF l.asks[2] = 0 THEN Wanted(n) ELSE l.pages
Seen(l) == IF l.asks[2] = 0 THEN l.visited \cup {l.asks[1]} ELSE l.visited
Listing(l, n) == l.listed \cup {<<l.asks[1], i>> : i \in Block(l.asks, n)}

(* The next page, the snapshot of the predecessor, or the answer.          *)
NextPage(l, n, m) ==
  /\ Pending(l, n) # {} /\ m.step = "ask"
  /\ \E k \in Pending(l, n) : m.asks = Page(l.asks[1], k) /\ m.pages = Pending(l, n) \ {k}
NextRegistrant(l, n, m) ==
  LET next == Predecessor[l.asks[1]] IN
  /\ Pending(l, n) = {} /\ m.pages = {} /\ m.step = "ask"
  /\ next # None /\ next \notin Seen(l) /\ m.asks = Snapshot(next)
NoMore(l, n, m) ==
  LET r == l.asks[1] IN
  /\ Pending(l, n) = {} /\ m.pages = {} /\ m.step = "listed" /\ m.asks = l.asks
  /\ Predecessor[r] # None /\ <<r, Evidence[r]>> \in Listing(l, n) => Predecessor[r] \in Seen(l)

TakesTo(l, n, warns, m) ==
  /\ m \in Runs
  /\ m.listed = Listing(l, n) /\ m.visited = Seen(l) /\ m.warned = (l.warned \/ warns)
  /\ m.disabled = l.disabled /\ m.began = l.began
  /\ NextPage(l, n, m) \/ NextRegistrant(l, n, m) \/ NoMore(l, n, m)

LEMMA BlockType ==
  ASSUME NEW f \in Files, NEW n
  PROVE  /\ Block(f, n) \subseteq Numbers /\ Wanted(n) \subseteq Numbers
         /\ {<<f[1], i>> : i \in Block(f, n)} \subseteq Filings
BY FileParts DEF Block, RecentOf, PageOf, Wanted, PagesOf, Numbers, Filings

LEMMA AdvanceShape ==
  ASSUME NEW b \in Runs, b.step = "ask"
  PROVE  LET r == b.asks[1]
             m == Advance(b)
         IN /\ m \in Runs
            /\ m.listed = b.listed /\ m.visited = b.visited /\ m.warned = b.warned
            /\ m.disabled = b.disabled /\ m.began = b.began
            /\ \/ /\ b.pages # {} /\ m.step = "ask"
                  /\ \E k \in b.pages : m.asks = Page(r, k) /\ m.pages = b.pages \ {k}
               \/ /\ b.pages = {} /\ m.pages = {} /\ m.step = "ask"
                  /\ Predecessor[r] # None /\ Predecessor[r] \notin b.visited
                  /\ m.asks = Snapshot(Predecessor[r])
               \/ /\ b.pages = {} /\ m.pages = {} /\ m.step = "listed" /\ m.asks = b.asks
                  /\ Predecessor[r] # None /\ <<r, Evidence[r]>> \in b.listed
                       => Predecessor[r] \in b.visited
<1> DEFINE r == b.asks[1]
<1>1. b.asks \in Files /\ r \in Registrants /\ b.pages \subseteq Numbers
  BY FileParts DEF Runs
<1>2. CASE b.pages # {}
  <2>1. PICK k : k = Min(b.pages)
    OBVIOUS
  <2>2. k \in b.pages /\ k \in Numbers
    BY <1>1, <1>2, <2>1, LeastPage
  <2>3. Page(r, k) \in Files
    BY <1>1, <2>2, FilesOf
  <2>4. Advance(b) = [b EXCEPT !.asks = Page(r, k), !.pages = b.pages \ {k}]
    BY <1>2, <2>1 DEF Advance
  <2> QED
    BY <1>1, <1>2, <2>2, <2>3, <2>4 DEF Runs
<1>3. CASE b.pages = {}
  <2>1. Advance(b) = Follow(b)
    BY <1>3 DEF Advance
  <2>2. CASE Predecessor[r] # None /\ Proven(r, b) /\ Predecessor[r] \notin b.visited
    <3>1. Follow(b) = [b EXCEPT !.asks = Snapshot(Predecessor[r])]
      BY <2>2 DEF Follow
    <3>2. Snapshot(Predecessor[r]) \in Files
      BY <1>1, <2>2, Constants, FilesOf
    <3> QED
      BY <1>1, <1>3, <2>1, <2>2, <3>1, <3>2 DEF Runs
  <2>3. CASE ~(Predecessor[r] # None /\ Proven(r, b) /\ Predecessor[r] \notin b.visited)
    <3>1. Follow(b) = [b EXCEPT !.step = "listed"]
      BY <2>3 DEF Follow
    <3> QED
      BY <1>1, <1>3, <2>1, <2>3, <3>1 DEF Runs, Proven, Steps
  <2> QED
    BY <2>2, <2>3
<1> QED
  BY <1>2, <1>3

LEMMA TakeShape ==
  ASSUME run \in Runs, NEW n, NEW warns \in BOOLEAN, Take(n, warns)
  PROVE  TakesTo(run, n, warns, run')
<1> DEFINE f == run.asks
           back == [run EXCEPT !.step = "ask", !.got = -1, !.warned = @ \/ warns,
                               !.listed = Listing(run, n)]
           b == IF f[2] = 0 THEN [back EXCEPT !.pages = Wanted(n), !.visited = @ \cup {f[1]}] ELSE back
<1>1. f \in Files /\ f[1] \in Registrants
  BY FileParts DEF Runs
<1>2. run' = Advance(b)
  BY DEF Take, Local, Listing, Block
<1>3. Listing(run, n) \subseteq Filings /\ Wanted(n) \subseteq Numbers
  BY <1>1, BlockType DEF Listing, Runs
<1>4. /\ b \in Runs /\ b.step = "ask" /\ b.asks = f
      /\ b.listed = Listing(run, n) /\ b.visited = Seen(run) /\ b.pages = Pending(run, n)
      /\ b.warned = (run.warned \/ warns) /\ b.disabled = run.disabled /\ b.began = run.began
  <2>1. -1 \in -1..MaxFilings
    BY Constants
  <2>2. /\ back \in Runs /\ back.step = "ask" /\ back.asks = f
        /\ back.listed = Listing(run, n) /\ back.visited = run.visited /\ back.pages = run.pages
        /\ back.warned = (run.warned \/ warns) /\ back.disabled = run.disabled
        /\ back.began = run.began
    BY <1>3, <2>1 DEF Runs, Steps
  <2> HIDE DEF back
  <2>3. CASE f[2] = 0
    <3>1. b = [back EXCEPT !.pages = Wanted(n), !.visited = @ \cup {f[1]}]
      BY <2>3
    <3> HIDE DEF b
    <3> QED
      BY <1>1, <1>3, <2>2, <2>3, <3>1 DEF Runs, Seen, Pending
  <2>4. CASE f[2] # 0
    BY <2>2, <2>4 DEF Seen, Pending
  <2> QED
    BY <2>3, <2>4
<1> HIDE DEF b
<1>5. PICK c : c = b
  OBVIOUS
<1>6. /\ c \in Runs /\ c.step = "ask" /\ c.asks = f
      /\ c.listed = Listing(run, n) /\ c.visited = Seen(run) /\ c.pages = Pending(run, n)
      /\ c.warned = (run.warned \/ warns) /\ c.disabled = run.disabled /\ c.began = run.began
  BY <1>4, <1>5
<1>7. run' = Advance(c)
  BY <1>2, <1>5
<1> QED
  BY <1>6, <1>7, AdvanceShape DEF TakesTo, NextPage, NextRegistrant, NoMore

LEMMA PendingType ==
  ASSUME NEW l \in Runs, NEW n
  PROVE  Pending(l, n) \subseteq Numbers
BY BlockType DEF Runs, Pending

(* Where a run stands after a file: it has covered the registrant of the   *)
(* file, unless pages are pending.                                         *)
LEMMA TakeKeepsLocals ==
  ASSUME NEW fo, NEW dk, NEW l \in Runs, NEW m, NEW n, NEW warns \in BOOLEAN, NEW t,
         Busy(l), LocalsGood(fo, dk, l, t), TakesTo(l, n, warns, m)
  PROVE  /\ LocalsGood(fo, dk, m, t) /\ l.asks[1] \in m.visited
         /\ \A k \in Pending(l, n) : Todo(m, l.asks[1], k)
<1>1. l.asks \in Files /\ l.asks[1] \in Registrants
  BY FileParts DEF Runs
<1>2. l.asks[1] \in Seen(l)
  BY DEF LocalsGood, Seen
<1>3. m.visited = Seen(l) /\ (m.disabled => m.warned) /\ m.began <= t
  BY DEF TakesTo, LocalsGood
<1>4. CASE NextPage(l, n, m)
  <2>1. PICK k \in Pending(l, n) : m.asks = Page(l.asks[1], k) /\ m.pages = Pending(l, n) \ {k}
    BY <1>4 DEF NextPage
  <2>2. m.step = "ask" /\ k \in Numbers
    BY <1>4, PendingType DEF NextPage
  <2>3. m.asks[1] = l.asks[1] /\ m.asks[2] = k /\ k # 0
    BY <1>1, <2>1, <2>2, FilesOf, Constants
  <2> QED
    BY <1>2, <1>3, <2>1, <2>2, <2>3 DEF LocalsGood, Todo, Busy
<1>5. CASE NextRegistrant(l, n, m)
  <2>1. /\ m.step = "ask" /\ m.pages = {} /\ Pending(l, n) = {}
        /\ m.asks = Snapshot(Predecessor[l.asks[1]]) /\ Predecessor[l.asks[1]] \notin Seen(l)
        /\ Predecessor[l.asks[1]] \in Registrants
    BY <1>1, <1>5, Constants DEF NextRegistrant
  <2>2. m.asks[1] = Predecessor[l.asks[1]] /\ m.asks[2] = 0
    BY <2>1, FilesOf
  <2> QED
    BY <1>2, <1>3, <2>1, <2>2 DEF LocalsGood, Busy
<1>6. CASE NoMore(l, n, m)
  BY <1>2, <1>3, <1>6 DEF NoMore, LocalsGood, Busy
<1> QED
  BY <1>4, <1>5, <1>6 DEF TakesTo

(* And its list stays complete, if it came without a warning and the file  *)
(* was good.                                                               *)
LEMMA TakeKeepsWalk ==
  ASSUME NEW fo, NEW dk, NEW l \in Runs, NEW m, NEW n, NEW warns \in BOOLEAN, NEW t,
         Busy(l), LocalsGood(fo, dk, l, t), WalkGood(dk, l), TakesTo(l, n, warns, m),
         dk[l.asks] # NoFile, dk[l.asks].n = n,
         ~l.warned /\ ~warns =>
           IF l.asks[2] = 0 THEN l.began - MaxAge <= dk[l.asks].day
                            ELSE dk[Snapshot(l.asks[1])].n <= n
  PROVE  WalkGood(dk, m)
<1> DEFINE r0 == l.asks[1]
<1>1. l.asks \in Files /\ r0 \in Registrants
  BY FileParts DEF Runs
<1> SUFFICES ASSUME ~m.warned, NEW r \in m.visited PROVE Covered(dk, m, r) /\ Followed(m, r)
  BY DEF WalkGood
<1>2. /\ ~l.warned /\ ~warns /\ m.visited = Seen(l) /\ m.listed = Listing(l, n) /\ m.began = l.began
      /\ l.listed \subseteq m.listed
  BY DEF TakesTo, Listing
<1>3. \A q \in l.visited : Covered(dk, l, q) /\ Followed(l, q)
  BY <1>2 DEF WalkGood, Busy
<1>4. r0 \in m.visited /\ \A k \in Pending(l, n) : Todo(m, r0, k)
  BY TakeKeepsLocals
<1>5. \A i \in Block(l.asks, n) : <<r0, i>> \in m.listed
  BY <1>2 DEF Listing
<1>6. CASE r # r0
  <2>1. r \in l.visited
    BY <1>2, <1>6 DEF Seen
  <2>2. Covered(dk, l, r) /\ Followed(l, r)
    BY <1>3, <2>1
  <2>3. Covered(dk, m, r)
    BY <1>2, <1>6, <2>2 DEF Covered, Todo, Done
  <2>4. Followed(m, r)
    <3>1. SUFFICES ASSUME <<r, Evidence[r]>> \in m.listed, Predecessor[r] # None
                   PROVE  Predecessor[r] \in m.visited
      BY DEF Followed
    <3>2. <<r, Evidence[r]>> \in l.listed
      BY <1>2, <1>6, <3>1 DEF Listing
    <3>3. Predecessor[r] \in l.visited \/ l.asks = Snapshot(Predecessor[r])
      BY <1>6, <2>2, <3>1, <3>2 DEF Followed
    <3>4. Predecessor[r] \in l.visited \/ Predecessor[r] = r0
      BY <3>3 DEF Snapshot
    <3> QED
      BY <1>2, <1>4, <3>4 DEF Seen
  <2> QED
    BY <2>3, <2>4
<1>7. CASE r = r0
  <2> DEFINE c == dk[Snapshot(r)]
  <2>1. Covered(dk, m, r)
    <3>1. CASE l.asks[2] = 0
      <4>1. l.asks = Snapshot(r)
        BY <1>1, <1>7, <3>1, FileParts
      <4>2. c # NoFile /\ c.n = n /\ m.began - MaxAge <= c.day
        BY <1>2, <3>1, <4>1
      <4>3. \A i \in RecentOf(n) : <<r, i>> \in m.listed
        BY <1>5, <1>7, <3>1 DEF Block
      <4>4. \A k \in Wanted(n) : Todo(m, r, k)
        BY <1>4, <1>7, <3>1 DEF Pending
      <4> QED
        BY <4>2, <4>3, <4>4 DEF Covered
    <3>2. CASE l.asks[2] # 0
      <4>1. l.asks = Page(r, l.asks[2])
        BY <1>1, <1>7, <3>2, FileParts
      <4>2. Covered(dk, l, r)
        BY <1>3, <1>7, <3>2 DEF LocalsGood
      <4>3. Done(dk, m, r, l.asks[2])
        BY <1>2, <1>5, <1>7, <3>2, <4>1 DEF Done, Block
      <4>4. ASSUME NEW k \in Wanted(c.n) PROVE Todo(m, r, k) \/ Done(dk, m, r, k)
        <5>1. CASE k = l.asks[2]
          BY <4>3, <5>1
        <5>2. CASE k # l.asks[2] /\ Todo(l, r, k)
          <6>1. k \in Pending(l, n)
            BY <3>2, <5>2 DEF Todo, Pending
          <6> QED
            BY <1>4, <1>7, <6>1
        <5>3. CASE Done(dk, l, r, k)
          BY <1>2, <5>3 DEF Done
        <5> QED
          BY <4>2, <5>1, <5>2, <5>3 DEF Covered
      <4> QED
        BY <1>2, <4>2, <4>4 DEF Covered
    <3> QED
      BY <3>1, <3>2
  <2>2. Followed(m, r)
    <3>1. CASE NextPage(l, n, m)
      BY <1>4, <1>7, <3>1 DEF NextPage, Followed, Todo
    <3>2. CASE NextRegistrant(l, n, m)
      BY <1>7, <3>2 DEF NextRegistrant, Followed, Busy
    <3>3. CASE NoMore(l, n, m)
      BY <1>2, <1>7, <3>3 DEF NoMore, Followed
    <3> QED
      BY <3>1, <3>2, <3>3 DEF TakesTo
  <2> QED
    BY <2>1, <2>2
<1> QED
  BY <1>6, <1>7

-----------------------------------------------------------------------------
(* The server *)

(* What covers a registrant goes on covering it when a filing arrives.     *)
Arrived(r, fo2) ==
  \E x \in Numbers : /\ x = Size(filedOn, r) + 1
                     /\ fo2 = [filedOn EXCEPT ![r][x] = day]

LEMMA ArrivalKeepsServer ==
  ASSUME EdgarTypeOK, ServerGood(filedOn, day), NEW r \in Registrants, NEW fo2, Arrived(r, fo2)
  PROVE  /\ fo2 \in [Registrants -> [Numbers -> 0..LastDay \cup {Unfiled}]]
         /\ ServerGood(fo2, day)
         /\ \A q \in Registrants : Size(filedOn, q) <= Size(fo2, q)
         /\ \A q \in Registrants, n \in Int, d \in Int :
              d <= day /\ Covers(filedOn, q, n, d) => Covers(fo2, q, n, d)
<1>1. PICK x \in Numbers : x = Size(filedOn, r) + 1 /\ fo2 = [filedOn EXCEPT ![r][x] = day]
  BY DEF Arrived
<1>2. /\ day \in Nat /\ day \in 0..LastDay /\ day # Unfiled
      /\ filedOn \in [Registrants -> [Numbers -> 0..LastDay \cup {Unfiled}]]
  BY Constants DEF EdgarTypeOK, Unfiled
<1>3. /\ fo2 \in [Registrants -> [Numbers -> 0..LastDay \cup {Unfiled}]]
      /\ \A q \in Registrants : q # r => fo2[q] = filedOn[q]
      /\ \A i \in Numbers : fo2[r][i] = IF i = x THEN day ELSE filedOn[r][i]
  BY <1>1, <1>2
<1>4. \A q \in Registrants : q # r => Filed(fo2, q) = Filed(filedOn, q) /\ Size(fo2, q) = Size(filedOn, q)
  BY <1>3 DEF Filed, Size
<1>5. Size(filedOn, r) \in Nat /\ Filed(filedOn, r) = 1..Size(filedOn, r)
  BY SizeBounds, Constants DEF ServerGood
<1>6. Filed(fo2, r) = 1..x /\ Size(fo2, r) = x
  <2>1. Filed(fo2, r) = Filed(filedOn, r) \cup {x}
    BY <1>2, <1>3 DEF Filed
  <2>2. PICK y \in Nat : y = Size(filedOn, r)
    BY <1>5
  <2>3. x = y + 1 /\ Filed(fo2, r) = (1..y) \cup {x}
    BY <1>1, <1>5, <2>1, <2>2
  <2>4. (1..y) \cup {y + 1} = 1..(y + 1)
    BY <2>2
  <2>5. Filed(fo2, r) = 1..x
    BY <2>3, <2>4
  <2>6. Cardinality(1..x) = x
    <3>1. x \in Int /\ 1 \in Int /\ (IF 1 > x THEN 0 ELSE x - 1 + 1) = x
      BY <1>1, <1>5
    <3> QED
      BY <3>1, FS_Interval
  <2> QED
    BY <2>5, <2>6 DEF Size
<1>7. ServerGood(fo2, day)
  <2>1. ASSUME NEW q \in Registrants
        PROVE  Filed(fo2, q) = 1..Size(fo2, q) /\ \A i \in Numbers : fo2[q][i] <= day
    BY <1>2, <1>3, <1>4, <1>6 DEF ServerGood
  <2> QED
    BY <2>1 DEF ServerGood
<1>8. \A q \in Registrants : Size(filedOn, q) <= Size(fo2, q) /\ Size(filedOn, q) \in Nat /\ Size(fo2, q) \in Nat
  <2>1. Size(filedOn, r) <= Size(fo2, r)
    BY <1>1, <1>5, <1>6
  <2>2. \A q \in Registrants : Size(filedOn, q) \in 0..MaxFilings /\ Size(fo2, q) \in 0..MaxFilings
    BY SizeBounds
  <2> QED
    BY <1>4, <2>1, <2>2, Constants
<1>9. ASSUME NEW q \in Registrants, NEW n \in Int, NEW d \in Int, d <= day, Covers(filedOn, q, n, d)
      PROVE  Covers(fo2, q, n, d)
  <2>1. n <= Size(fo2, q)
    BY <1>8, <1>9 DEF Covers
  <2>2. ASSUME NEW i \in Numbers, n < i, fo2[q][i] # Unfiled PROVE d <= fo2[q][i]
    BY <1>2, <1>3, <1>9, <2>2 DEF Covers
  <2> QED
    BY <1>9, <2>1, <2>2 DEF Covers
<1> QED
  BY <1>3, <1>7, <1>8, <1>9

(* What a download holds covers everything.                                *)
LEMMA DownloadCovers ==
  ASSUME EdgarTypeOK, ServerGood(filedOn, day), NEW r \in Registrants
  PROVE  Covers(filedOn, r, Size(filedOn, r), day)
<1>1. Size(filedOn, r) \in Nat /\ Filed(filedOn, r) = 1..Size(filedOn, r)
  BY SizeBounds, Constants DEF ServerGood
<1>2. ASSUME NEW i \in Numbers, Size(filedOn, r) < i, filedOn[r][i] # Unfiled PROVE FALSE
  <2>1. i \in Filed(filedOn, r)
    BY <1>2 DEF Filed
  <2> QED
    BY <1>1, <1>2, <2>1, Constants
<1> QED
  BY <1>1, <1>2 DEF Covers

-----------------------------------------------------------------------------
(* The disk *)

LEMMA FileTypes ==
  ASSUME EdgarTypeOK, NEW f \in Files
  PROVE  /\ disk[f] \in Contents \cup {NoFile} /\ disk[f].n \in -1..MaxFilings
         /\ disk[f].day \in 0..LastDay /\ disk[f].current \in BOOLEAN
         /\ disk[f] = NoFile => disk[f].n = -1 /\ ~disk[f].current
         /\ disk[f] # NoFile => disk[f] \in Contents /\ disk[f].n \in 0..MaxFilings
<1>1. disk[f] \in Contents \cup {NoFile}
  BY DEF EdgarTypeOK
<1>2. 0 \in 0..LastDay /\ -1 \in -1..MaxFilings /\ 0..MaxFilings \subseteq -1..MaxFilings
  BY Constants
<1>3. CASE disk[f] \in Contents
  <2>1. /\ disk[f].n \in 0..MaxFilings /\ disk[f].day \in 0..LastDay /\ disk[f].current \in BOOLEAN
        /\ NoFile.n = -1
    BY <1>3 DEF Contents, NoFile
  <2>2. disk[f].n # -1
    BY <2>1, Constants
  <2> QED
    BY <1>2, <1>3, <2>1, <2>2
<1>4. CASE disk[f] = NoFile
  BY <1>1, <1>2, <1>4 DEF NoFile
<1> QED
  BY <1>1, <1>3, <1>4

LEMMA WrittenFile ==
  ASSUME EdgarTypeOK, NEW whole \in BOOLEAN, run.step \in {"write", "close"},
         run.got \in 0..MaxFilings, NEW f \in Files
  PROVE  LET w == Written(whole) IN
         /\ w[f] \in Contents \cup {NoFile} /\ NoFile \notin Contents
         /\ f = run.asks => /\ w[f] # NoFile /\ w[f].n = run.got /\ w[f].day = day /\ w[f].current
                            /\ w[f].whole = whole
         /\ f # run.asks => /\ w[f].n = disk[f].n /\ w[f].day = disk[f].day
                            /\ (w[f] = NoFile <=> disk[f] = NoFile)
                            /\ (w[f].current => disk[f].current)
                            /\ run.asks[2] = 0 /\ f[1] = run.asks[1] => ~w[f].current
                            /\ run.asks[2] # 0 \/ f[1] # run.asks[1] => w[f] = disk[f]
<1> DEFINE w == Written(whole)
<1>0. NoFile \notin Contents
  BY Constants DEF NoFile, Contents
<1>1. disk[f] \in Contents \cup {NoFile} /\ day \in 0..LastDay
  BY FileTypes DEF EdgarTypeOK
<1>2. CASE f = run.asks
  <2>1. w[f] = [n |-> run.got, whole |-> whole, day |-> day, current |-> TRUE]
    BY <1>2 DEF Written
  <2>2. w[f] \in Contents
    BY <1>1, <2>1 DEF Contents
  <2>3. w[f].n = run.got /\ w[f].day = day /\ w[f].current /\ w[f].whole = whole
    BY <2>1
  <2>4. w[f] # NoFile
    BY <1>0, <2>2
  <2> HIDE DEF w
  <2> QED
    BY <1>0, <1>2, <2>2, <2>3, <2>4 DEF w
<1>3. CASE f # run.asks /\ run.asks[2] = 0 /\ f[1] = run.asks[1]
  <2>1. w[f] = [disk[f] EXCEPT !.current = FALSE]
    BY <1>3 DEF Written
  <2>2. CASE disk[f] \in Contents
    <3>1. w[f] \in Contents
      BY <2>1, <2>2 DEF Contents
    <3> QED
      BY <1>0, <1>3, <2>1, <2>2, <3>1 DEF Contents
  <2>3. CASE disk[f] = NoFile
    <3>1. w[f] = [[n |-> -1, whole |-> FALSE, day |-> 0, current |-> FALSE] EXCEPT !.current = FALSE]
      BY <2>1, <2>3 DEF NoFile
    <3>2. w[f] = NoFile
      BY <3>1 DEF NoFile
    <3> QED
      BY <1>0, <1>3, <2>3, <3>2 DEF NoFile
  <2> QED
    BY <1>1, <2>2, <2>3
<1>4. CASE f # run.asks /\ ~(run.asks[2] = 0 /\ f[1] = run.asks[1])
  <2>1. w[f] = disk[f]
    BY <1>4 DEF Written
  <2> QED
    BY <1>0, <1>1, <1>4, <2>1
<1> QED
  BY <1>2, <1>3, <1>4

(* Writing a download keeps the disk good, and spoils no list: the file is *)
(* a snapshot not yet covered or a page still to come.                     *)
LEMMA WritingKeeps ==
  ASSUME EdgarInv, NEW whole \in BOOLEAN, run.step \in {"write", "close"}
  PROVE  LET w == Written(whole) IN
         /\ w \in [Files -> Contents \cup {NoFile}]
         /\ DiskGood(filedOn, w, day)
         /\ LocalsGood(filedOn, w, run, day)
         /\ WalkGood(w, run)
         /\ w[run.asks] # NoFile /\ w[run.asks].n = run.got /\ w[run.asks].day = day
<1> DEFINE w == Written(whole)
           a == run.asks
<1>1. /\ a \in Files /\ a[1] \in Registrants /\ run \in Runs /\ day \in Nat
      /\ Covers(filedOn, a[1], run.got, day)
      /\ a[2] # 0 => disk[Snapshot(a[1])].n <= run.got
      /\ a[2] = 0 => a[1] \notin run.visited
      /\ a[2] # 0 => a[1] \in run.visited
  BY FileParts, Constants DEF EdgarInv, EdgarTypeOK, Runs, LocalsGood, Busy
<1>2. run.got \in 0..MaxFilings
  BY <1>1, Constants DEF Covers, Runs
<1>3. EdgarTypeOK /\ DiskGood(filedOn, disk, day) /\ WalkGood(disk, run)
      /\ LocalsGood(filedOn, disk, run, day)
  BY DEF EdgarInv
<1>4. w \in [Files -> Contents \cup {NoFile}]
  <2>1. \A f \in Files : w[f] \in Contents \cup {NoFile}
    <3> HIDE DEF w
    <3>1. ASSUME NEW f \in Files PROVE w[f] \in Contents \cup {NoFile}
      BY <1>2, <1>3, WrittenFile DEF w
    <3> QED
      BY <3>1
  <2>2. w = [f \in Files |-> w[f]]
    BY DEF Written
  <2> HIDE DEF w
  <2> QED
    BY <2>1, <2>2
<1>5. \A f \in Files : /\ f = a => w[f] # NoFile /\ w[f].n = run.got /\ w[f].day = day
                       /\ f # a => /\ w[f].n = disk[f].n /\ w[f].day = disk[f].day
                                   /\ (w[f] = NoFile <=> disk[f] = NoFile)
                                   /\ (w[f].current => disk[f].current)
                                   /\ a[2] = 0 /\ f[1] = a[1] => ~w[f].current
                                   /\ a[2] # 0 \/ f[1] # a[1] => w[f] = disk[f]
  BY <1>2, <1>3, WrittenFile
<1> HIDE DEF w
<1>6. DiskGood(filedOn, w, day)
  <2> SUFFICES ASSUME NEW f \in Files
               PROVE  /\ w[f] # NoFile => w[f].day <= day /\ Covers(filedOn, f[1], w[f].n, w[f].day)
                      /\ f[2] # 0 /\ w[f].current => w[Snapshot(f[1])].n <= w[f].n
    BY DEF DiskGood
  <2>1. f[1] \in Registrants /\ Snapshot(f[1]) \in Files
    BY FileParts, FilesOf
  <2>2. w[f] # NoFile => w[f].day <= day /\ Covers(filedOn, f[1], w[f].n, w[f].day)
    BY <1>1, <1>3, <1>5 DEF DiskGood
  <2>3. ASSUME f[2] # 0, w[f].current PROVE w[Snapshot(f[1])].n <= w[f].n
    <3>1. CASE f = a
      <4>1. Snapshot(f[1]) # a
        BY <2>1, <2>3, <3>1, FilesOf
      <4> QED
        BY <1>1, <1>5, <2>1, <2>3, <3>1, <4>1
    <3>2. CASE f # a
      <4>1. Snapshot(f[1]) # a
        BY <1>5, <2>1, <2>3, <3>2, FilesOf
      <4> QED
        BY <1>3, <1>5, <2>1, <2>3, <3>2, <4>1 DEF DiskGood
    <3> QED
      BY <3>1, <3>2
  <2> QED
    BY <2>2, <2>3
<1>7. LocalsGood(filedOn, w, run, day)
  <2>1. a[2] # 0 => w[Snapshot(a[1])].n <= run.got
    <3>1. ASSUME a[2] # 0 PROVE w[Snapshot(a[1])].n = disk[Snapshot(a[1])].n
      BY <1>1, <1>5, <3>1, FilesOf
    <3> QED
      BY <1>1, <3>1
  <2> QED
    BY <1>3, <2>1 DEF LocalsGood
<1>8. WalkGood(w, run)
  <2> SUFFICES ASSUME ~run.warned, NEW r \in run.visited PROVE Covered(w, run, r) /\ Followed(run, r)
    BY DEF WalkGood
  <2>1. r \in Registrants /\ Covered(disk, run, r) /\ Followed(run, r)
    BY <1>1, <1>3 DEF WalkGood, Runs
  <2>2. Snapshot(r) \in Files /\ w[Snapshot(r)] = disk[Snapshot(r)]
    <3>1. Snapshot(r) # a
      BY <1>1, <2>1, FilesOf
    <3> QED
      BY <1>1, <1>5, <2>1, <3>1, FilesOf
  <2>3. ASSUME NEW k \in Wanted(w[Snapshot(r)].n) PROVE Todo(run, r, k) \/ Done(w, run, r, k)
    <3>1. k \in Numbers
      BY <2>3 DEF Wanted, PagesOf, Numbers
    <3>2. Page(r, k) \in Files /\ Page(r, k)[1] = r /\ Page(r, k)[2] = k
      BY <2>1, <3>1, FilesOf
    <3>3. CASE Page(r, k) = a
      <4>1. a[1] = r /\ a[2] = k /\ k # 0
        BY <3>1, <3>2, <3>3, Constants
      <4> QED
        BY <4>1 DEF Todo, Busy
    <3>4. CASE Page(r, k) # a /\ Done(disk, run, r, k)
      <4>1. w[Page(r, k)] = disk[Page(r, k)]
        BY <1>1, <1>5, <2>1, <3>2, <3>4
      <4> QED
        BY <2>2, <3>4, <4>1 DEF Done
    <3> QED
      BY <2>1, <2>2, <3>3, <3>4 DEF Covered
  <2> QED
    BY <2>1, <2>2, <2>3 DEF Covered
<1>9. w[a] # NoFile /\ w[a].n = run.got /\ w[a].day = day
  BY <1>1, <1>5
<1> QED
  BY <1>4, <1>6, <1>7, <1>8, <1>9 DEF w

-----------------------------------------------------------------------------
(* The invariant is inductive *)

LEMMA EdgarInvInit == EdgarInit => EdgarInv
<1> SUFFICES ASSUME EdgarInit PROVE EdgarInv
  OBVIOUS
<1>1. /\ 0 \in 0..LastDay /\ Unfiled = -1 /\ LongAgo = 0 /\ -1 \in -1..MaxFilings
      /\ Snapshot(Current) \in Files
  BY Constants, FilesOf DEF Unfiled, LongAgo
<1>2. Fresh \in Runs /\ run = Fresh
  BY <1>1 DEF EdgarInit, Fresh, Runs, Steps
<1>3. /\ day = 0 /\ disk = [f \in Files |-> NoFile] /\ text = [a \in Extracted |-> "none"]
      /\ \A f \in Files : disk[f] = NoFile
  BY DEF EdgarInit
<1>4. /\ filedOn \in [Registrants -> [Numbers -> 0..LastDay \cup {Unfiled}]]
      /\ \A r \in Registrants, i \in Numbers :
           filedOn[r][i] = IF i <= FirstFilings[r] THEN LongAgo ELSE Unfiled
  BY <1>1 DEF EdgarInit
<1>5. EdgarTypeOK
  BY <1>1, <1>2, <1>3, <1>4 DEF EdgarTypeOK, Runs
<1>6. ServerGood(filedOn, day)
  <2>1. ASSUME NEW r \in Registrants PROVE Filed(filedOn, r) = 1..Size(filedOn, r)
    <3>1. PICK n : n = IF FirstFilings[r] <= MaxFilings THEN FirstFilings[r] ELSE MaxFilings
      OBVIOUS
    <3>2. n \in Nat /\ n <= MaxFilings /\ FirstFilings[r] \in Nat
      BY <3>1, EdgarAssumption, Constants
    <3>3. Filed(filedOn, r) = {i \in Numbers : i <= FirstFilings[r]}
      BY <1>1, <1>4 DEF Filed
    <3>4. Filed(filedOn, r) = 1..n
      BY <3>1, <3>2, <3>3, Constants DEF Numbers
    <3>5. Cardinality(1..n) = n
      <4>1. n \in Int /\ 1 \in Int /\ (IF 1 > n THEN 0 ELSE n - 1 + 1) = n
        BY <3>2
      <4> QED
        BY <4>1, FS_Interval
    <3> QED
      BY <3>4, <3>5 DEF Size
  <2>2. \A r \in Registrants, i \in Numbers : filedOn[r][i] <= day
    BY <1>1, <1>3, <1>4
  <2> QED
    BY <2>1, <2>2 DEF ServerGood
<1>7. DiskGood(filedOn, disk, day)
  BY <1>3, FileParts, FilesOf DEF DiskGood, NoFile
<1>8. LocalsGood(filedOn, disk, run, day) /\ WalkGood(disk, run)
  BY <1>1, <1>2, <1>3 DEF LocalsGood, WalkGood, Fresh, Busy
<1> QED
  BY <1>5, <1>6, <1>7, <1>8 DEF EdgarInv

(* What an action that moves only the locals has to show.                  *)
LEMMA LocalsMove ==
  ASSUME EdgarInv, UNCHANGED <<day, filedOn, disk>>, run' \in Runs,
         text' \in [Extracted -> {"none", "cut", "whole"}],
         LocalsGood(filedOn, disk, run', day), WalkGood(disk, run')
  PROVE  EdgarInv'
<1>1. EdgarTypeOK'
  BY DEF EdgarInv, EdgarTypeOK, Runs
<1>2. ServerGood(filedOn', day') /\ DiskGood(filedOn', disk', day')
  BY DEF EdgarInv
<1>3. LocalsGood(filedOn', disk', run', day') /\ WalkGood(disk', run')
  OBVIOUS
<1> QED
  BY <1>1, <1>2, <1>3 DEF EdgarInv

LEMMA TypesOf ==
  ASSUME EdgarInv
  PROVE  /\ run \in Runs /\ text \in [Extracted -> {"none", "cut", "whole"}]
         /\ run.asks \in Files /\ run.asks[1] \in Registrants
         /\ day \in Nat /\ day \in 0..LastDay /\ run.began \in Nat /\ run.began <= day
         /\ EdgarTypeOK /\ ServerGood(filedOn, day) /\ DiskGood(filedOn, disk, day)
         /\ LocalsGood(filedOn, disk, run, day) /\ WalkGood(disk, run)
BY FileParts, Constants DEF EdgarInv, EdgarTypeOK, Runs, LocalsGood

LEMMA ServeKeeps ==
  ASSUME EdgarInv, Reading, ~Missing, NEW warns \in BOOLEAN, Serve(warns),
         warns \/ Valid, UNCHANGED <<world, disk, text>>
  PROVE  EdgarInv'
<1>1. run.step = "ask" /\ Busy(run) /\ Asked # NoFile /\ Asked = disk[run.asks]
  BY DEF Reading, Missing, Asked, Busy
<1>2. UNCHANGED <<day, filedOn, disk, text>>
  BY DEF world
<1>3. CASE ~Asked.whole
  <2>1. run' = [run EXCEPT !.step = "raised"]
    BY <1>3 DEF Serve, Local
  <2>2. /\ run' \in Runs /\ run'.step = "raised" /\ run'.disabled = run.disabled
        /\ run'.warned = run.warned /\ run'.began = run.began
    BY <2>1, TypesOf DEF Runs, Steps
  <2>3. LocalsGood(filedOn, disk, run', day) /\ WalkGood(disk, run')
    BY <2>2, TypesOf DEF LocalsGood, WalkGood, Busy
  <2> QED
    BY <1>2, <2>2, <2>3, TypesOf, LocalsMove
<1>4. CASE Asked.whole
  <2>1. PICK n : n = Asked.n
    OBVIOUS
  <2>2. Take(n, warns)
    BY <1>4, <2>1 DEF Serve
  <2>3. TakesTo(run, n, warns, run')
    BY <2>2, TypesOf, TakeShape
  <2>4. PICK m : m = run'
    OBVIOUS
  <2>5. TakesTo(run, n, warns, m) /\ m \in Runs
    BY <2>3, <2>4 DEF TakesTo
  <2>6. LocalsGood(filedOn, disk, m, day)
    BY <1>1, <2>5, TypesOf, TakeKeepsLocals
  <2>7. ASSUME ~run.warned, ~warns
        PROVE  IF run.asks[2] = 0 THEN run.began - MaxAge <= disk[run.asks].day
                                  ELSE disk[Snapshot(run.asks[1])].n <= n
    <3>1. ~run.disabled /\ Valid
      BY <2>7, TypesOf DEF LocalsGood
    <3>2. IF run.asks[2] = 0 THEN Asked.day >= day - MaxAge ELSE Asked.current
      BY <3>1 DEF Valid, Young, PageValid
    <3>3. disk[run.asks].day \in Nat /\ day \in Nat /\ run.began \in Nat /\ run.began <= day /\ MaxAge \in Nat
      BY TypesOf, FileTypes, Constants
    <3> QED
      BY <1>1, <2>1, <3>2, <3>3, TypesOf DEF DiskGood
  <2>8. WalkGood(disk, m)
    BY <1>1, <2>1, <2>5, <2>7, TypesOf, TakeKeepsWalk
  <2> QED
    BY <1>2, <2>4, <2>5, <2>6, <2>8, TypesOf, LocalsMove
<1> QED
  BY <1>3, <1>4

LEMMA FetchKeeps == EdgarInv /\ Fetch => EdgarInv'
<1> SUFFICES ASSUME EdgarInv, Fetch PROVE EdgarInv'
  OBVIOUS
<1> DEFINE r == run.asks[1]
<1>1. /\ run.step = "ask" /\ UNCHANGED <<day, filedOn, disk, text>>
      /\ run' = [run EXCEPT !.step = "write", !.got = Size(filedOn, r)]
  BY TypesOf, CountIsSize DEF Fetch, NeedsFetch, Reading, Local, world
<1>2. Size(filedOn, r) \in 0..MaxFilings /\ Size(filedOn, r) \in -1..MaxFilings
      /\ Covers(filedOn, r, Size(filedOn, r), day)
  BY TypesOf, SizeBounds, DownloadCovers, Constants
<1>3. disk[Snapshot(r)].n <= Size(filedOn, r)
  <2>1. Snapshot(r) \in Files /\ Snapshot(r)[1] = r
    BY TypesOf, FilesOf
  <2>2. CASE disk[Snapshot(r)] = NoFile
    BY <1>2, <2>1, <2>2, TypesOf, FileTypes, Constants
  <2>3. CASE disk[Snapshot(r)] # NoFile
    BY <2>1, <2>3, TypesOf DEF DiskGood, Covers
  <2> QED
    BY <2>2, <2>3
<1>4. PICK m : m = [run EXCEPT !.step = "write", !.got = Size(filedOn, r)]
  OBVIOUS
<1>5. /\ m \in Runs /\ m.step = "write" /\ m.got = Size(filedOn, r) /\ m.asks = run.asks
      /\ m.listed = run.listed /\ m.pages = run.pages /\ m.disabled = run.disabled
      /\ m.warned = run.warned /\ m.visited = run.visited /\ m.began = run.began
  BY <1>2, <1>4, TypesOf DEF Runs, Steps
<1>6. LocalsGood(filedOn, disk, m, day)
  BY <1>1, <1>2, <1>3, <1>5, TypesOf DEF LocalsGood, Busy
<1>7. WalkGood(disk, m)
  BY <1>1, <1>5, TypesOf DEF WalkGood, Covered, Followed, Todo, Done, Busy
<1> QED
  BY <1>1, <1>4, <1>5, <1>6, <1>7, TypesOf, LocalsMove

LEMMA ReadValidKeeps == EdgarInv /\ ReadValid => EdgarInv'
<1> SUFFICES ASSUME EdgarInv, ReadValid PROVE EdgarInv'
  OBVIOUS
<1>1. Reading /\ ~Missing /\ Valid /\ Serve(FALSE) /\ UNCHANGED <<world, disk, text>>
  BY DEF ReadValid, Missing
<1> QED
  BY <1>1, ServeKeeps

LEMMA FetchFailsKeeps == EdgarInv /\ (\E why \in Faults : FetchFails(why)) => EdgarInv'
<1> SUFFICES ASSUME EdgarInv, NEW why \in Faults, FetchFails(why) PROVE EdgarInv'
  OBVIOUS
<1>1. Reading /\ run.step = "ask" /\ UNCHANGED <<world, disk, text>>
      /\ UNCHANGED <<day, filedOn, disk, text>>
  BY DEF FetchFails, NeedsFetch, Reading, world
<1>2. CASE Missing
  <2>1. run' = [run EXCEPT !.step = "raised"]
    BY <1>2 DEF FetchFails, Local
  <2>2. /\ run' \in Runs /\ run'.step = "raised" /\ run'.disabled = run.disabled
        /\ run'.warned = run.warned /\ run'.began = run.began
    BY <2>1, TypesOf DEF Runs, Steps
  <2>3. LocalsGood(filedOn, disk, run', day) /\ WalkGood(disk, run')
    BY <2>2, TypesOf DEF LocalsGood, WalkGood, Busy
  <2> QED
    BY <1>1, <2>2, <2>3, TypesOf, LocalsMove
<1>3. CASE ~Missing /\ why = "network"
  <2>1. run' = [run EXCEPT !.disabled = TRUE, !.warned = TRUE]
    BY <1>3 DEF FetchFails, Local
  <2>2. /\ run' \in Runs /\ run'.step = run.step /\ run'.disabled /\ run'.warned /\ run'.began = run.began
        /\ run'.asks = run.asks /\ run'.visited = run.visited /\ run'.pages = run.pages
        /\ run'.got = run.got
    BY <2>1, TypesOf DEF Runs
  <2>3. LocalsGood(filedOn, disk, run', day) /\ WalkGood(disk, run')
    BY <2>2, TypesOf DEF LocalsGood, WalkGood, Busy
  <2> QED
    BY <1>1, <2>2, <2>3, TypesOf, LocalsMove
<1>4. CASE ~Missing /\ why # "network"
  <2>1. Serve(TRUE)
    BY <1>4 DEF FetchFails
  <2> QED
    BY <1>1, <1>4, <2>1, ServeKeeps
<1> QED
  BY <1>2, <1>3, <1>4

LEMMA OpenFileKeeps == EdgarInv /\ OpenFile => EdgarInv'
<1> SUFFICES ASSUME EdgarInv, OpenFile PROVE EdgarInv'
  OBVIOUS
<1>1. /\ run.step = "write" /\ disk' = Written(FALSE) /\ run' = [run EXCEPT !.step = "close"]
      /\ UNCHANGED <<day, filedOn, text>>
  BY DEF OpenFile, Local, world
<1>2. PICK w : w = Written(FALSE)
  OBVIOUS
<1>3. /\ w \in [Files -> Contents \cup {NoFile}] /\ DiskGood(filedOn, w, day)
      /\ LocalsGood(filedOn, w, run, day) /\ WalkGood(w, run)
  BY <1>1, <1>2, WritingKeeps
<1>4. PICK m : m = [run EXCEPT !.step = "close"]
  OBVIOUS
<1>5. /\ m \in Runs /\ m.step = "close" /\ m.got = run.got /\ m.asks = run.asks
      /\ m.listed = run.listed /\ m.pages = run.pages /\ m.disabled = run.disabled
      /\ m.warned = run.warned /\ m.visited = run.visited /\ m.began = run.began
  BY <1>4, TypesOf DEF Runs, Steps
<1>6. LocalsGood(filedOn, w, m, day) /\ WalkGood(w, m)
  BY <1>1, <1>3, <1>5 DEF LocalsGood, WalkGood, Covered, Followed, Todo, Done, Busy
<1>7. disk' = w /\ run' = m /\ day' = day /\ filedOn' = filedOn /\ text' = text
  BY <1>1, <1>2, <1>4
<1>8. EdgarTypeOK'
  BY <1>3, <1>5, <1>7, TypesOf DEF EdgarTypeOK, Runs
<1> QED
  BY <1>3, <1>6, <1>7, <1>8, TypesOf DEF EdgarInv

LEMMA CloseFileKeeps == EdgarInv /\ CloseFile => EdgarInv'
<1> SUFFICES ASSUME EdgarInv, CloseFile PROVE EdgarInv'
  OBVIOUS
<1>1. /\ run.step = "close" /\ disk' = Written(TRUE) /\ Take(run.got, FALSE)
      /\ UNCHANGED <<day, filedOn, text>>
  BY DEF CloseFile, world
<1>2. PICK w : w = Written(TRUE)
  OBVIOUS
<1>3. PICK n : n = run.got
  OBVIOUS
<1>4. /\ w \in [Files -> Contents \cup {NoFile}] /\ DiskGood(filedOn, w, day)
      /\ LocalsGood(filedOn, w, run, day) /\ WalkGood(w, run)
      /\ w[run.asks] # NoFile /\ w[run.asks].n = n /\ w[run.asks].day = day
  BY <1>1, <1>2, <1>3, WritingKeeps
<1>5. PICK m : m = run'
  OBVIOUS
<1>6. TakesTo(run, n, FALSE, m)
  BY <1>1, <1>3, <1>5, TypesOf, TakeShape
<1>7. m \in Runs /\ Busy(run)
  BY <1>1, <1>6 DEF TakesTo, Busy
<1>8. LocalsGood(filedOn, w, m, day)
  BY <1>4, <1>6, <1>7, TypesOf, TakeKeepsLocals
<1>9. WalkGood(w, m)
  <2>1. IF run.asks[2] = 0 THEN run.began - MaxAge <= w[run.asks].day
                           ELSE w[Snapshot(run.asks[1])].n <= n
    BY <1>1, <1>3, <1>4, TypesOf, Constants DEF LocalsGood
  <2> QED
    BY <1>4, <1>6, <1>7, <2>1, TypesOf, TakeKeepsWalk
<1>10. disk' = w /\ run' = m /\ day' = day /\ filedOn' = filedOn /\ text' = text
  BY <1>1, <1>2, <1>5
<1>11. EdgarTypeOK'
  BY <1>4, <1>7, <1>10, TypesOf DEF EdgarTypeOK, Runs
<1> QED
  BY <1>4, <1>8, <1>9, <1>10, <1>11, TypesOf DEF EdgarInv

LEMMA BeginKeeps == EdgarInv /\ Begin => EdgarInv'
<1> SUFFICES ASSUME EdgarInv, Begin PROVE EdgarInv'
  OBVIOUS
<1>1. /\ run' = [Fresh EXCEPT !.step = "ask", !.began = day]
      /\ UNCHANGED <<day, filedOn, disk, text>>
  BY DEF Begin, Local, world
<1>2. -1 \in -1..MaxFilings /\ Snapshot(Current) \in Files
  BY Constants, FilesOf
<1>3. PICK m : m = run'
  OBVIOUS
<1>4. /\ m \in Runs /\ m.step = "ask" /\ m.visited = {} /\ m.pages = {} /\ ~m.disabled /\ m.began = day
      /\ m.asks = Snapshot(Current)
  BY <1>1, <1>2, <1>3, TypesOf DEF Fresh, Runs, Steps
<1>5. LocalsGood(filedOn, disk, m, day) /\ WalkGood(disk, m)
  BY <1>4, TypesOf, Constants, FilesOf DEF LocalsGood, WalkGood
<1> QED
  BY <1>1, <1>3, <1>4, <1>5, TypesOf, LocalsMove

LEMMA CrashKeeps == EdgarInv /\ Crash => EdgarInv'
<1> SUFFICES ASSUME EdgarInv, Crash PROVE EdgarInv'
  OBVIOUS
<1>1. run' = Fresh /\ UNCHANGED <<day, filedOn, disk, text>>
  BY DEF Crash, Local, world
<1>2. -1 \in -1..MaxFilings /\ Snapshot(Current) \in Files /\ 0 \in 0..LastDay
  BY Constants, FilesOf
<1>3. /\ Fresh \in Runs /\ Fresh.step = "idle" /\ ~Fresh.disabled /\ Fresh.began = 0
  BY <1>2 DEF Fresh, Runs, Steps
<1>4. LocalsGood(filedOn, disk, Fresh, day) /\ WalkGood(disk, Fresh)
  BY <1>3, TypesOf DEF LocalsGood, WalkGood, Busy
<1> QED
  BY <1>1, <1>3, <1>4, TypesOf, LocalsMove

(* The texts: the list stays as it is.                                     *)
LEMMA ListStays ==
  ASSUME EdgarInv, run.step \in {"listed", "text"}, NEW m \in Runs, m.step \in {"listed", "text"},
         m.listed = run.listed, m.visited = run.visited, m.warned = run.warned,
         m.disabled = run.disabled, m.began = run.began
  PROVE  LocalsGood(filedOn, disk, m, day) /\ WalkGood(disk, m)
BY TypesOf DEF LocalsGood, WalkGood, Covered, Followed, Todo, Done, Busy

LEMMA TextKeeps ==
  EdgarInv /\ (CloseText \/ (\E a \in Extracted : OpenText(a) \/ ReadText(a))) => EdgarInv'
<1>1. ASSUME EdgarInv, CloseText PROVE EdgarInv'
  <2>1. /\ run.step = "text" /\ UNCHANGED <<day, filedOn, disk>>
        /\ text' = [text EXCEPT ![run.asks] = "whole"]
        /\ run' = [run EXCEPT !.step = "listed", !.seen = @ \cup {"whole"}]
    BY <1>1 DEF CloseText, Local, world
  <2>2. PICK m : m = run'
    OBVIOUS
  <2>3. /\ m \in Runs /\ m.step = "listed" /\ m.listed = run.listed /\ m.visited = run.visited
        /\ m.warned = run.warned /\ m.disabled = run.disabled /\ m.began = run.began
    BY <1>1, <2>1, <2>2, TypesOf DEF Runs, Steps
  <2>4. text' \in [Extracted -> {"none", "cut", "whole"}]
    BY <1>1, <2>1, TypesOf
  <2> QED
    BY <1>1, <2>1, <2>2, <2>3, <2>4, ListStays, LocalsMove
<1>2. ASSUME EdgarInv, NEW a \in Extracted, OpenText(a) PROVE EdgarInv'
  <2>1. /\ run.step = "listed" /\ UNCHANGED <<day, filedOn, disk>>
        /\ text' = [text EXCEPT ![a] = "cut"]
        /\ run' = [run EXCEPT !.step = "text", !.asks = a]
    BY <1>2 DEF OpenText, Local, world
  <2>2. PICK m : m = run'
    OBVIOUS
  <2>3. /\ m \in Runs /\ m.step = "text" /\ m.listed = run.listed /\ m.visited = run.visited
        /\ m.warned = run.warned /\ m.disabled = run.disabled /\ m.began = run.began
    BY <1>2, <2>1, <2>2, TypesOf, Constants DEF Runs, Steps
  <2>4. text' \in [Extracted -> {"none", "cut", "whole"}]
    BY <1>2, <2>1, TypesOf
  <2> QED
    BY <1>2, <2>1, <2>2, <2>3, <2>4, ListStays, LocalsMove
<1>3. ASSUME EdgarInv, NEW a \in Extracted, ReadText(a) PROVE EdgarInv'
  <2>1. /\ run.step = "listed" /\ UNCHANGED <<day, filedOn, disk, text>> /\ text[a] # "none"
        /\ run' = [run EXCEPT !.seen = @ \cup {text[a]}]
    BY <1>3 DEF ReadText, Local, world
  <2>2. PICK m : m = run'
    OBVIOUS
  <2>3. text[a] \in {"cut", "whole"}
    BY <1>3, <2>1, TypesOf
  <2>4. /\ m \in Runs /\ m.step = "listed" /\ m.listed = run.listed /\ m.visited = run.visited
        /\ m.warned = run.warned /\ m.disabled = run.disabled /\ m.began = run.began
    BY <1>3, <2>1, <2>2, <2>3, TypesOf DEF Runs
  <2> QED
    BY <1>3, <2>1, <2>2, <2>4, TypesOf, ListStays, LocalsMove
<1> QED
  BY <1>1, <1>2, <1>3

LEMMA FileKeeps == EdgarInv /\ (\E r \in Registrants : File(r)) => EdgarInv'
<1> SUFFICES ASSUME EdgarInv, NEW r \in Registrants, File(r) PROVE EdgarInv'
  OBVIOUS
<1>1. /\ UNCHANGED <<day, disk, text, run>> /\ Size(filedOn, r) < MaxFilings
      /\ filedOn' = [filedOn EXCEPT ![r][Size(filedOn, r) + 1] = day]
  BY CountIsSize DEF File
<1>2. PICK fo2 : fo2 = filedOn'
  OBVIOUS
<1>3. Arrived(r, fo2)
  <2>1. Size(filedOn, r) + 1 \in Numbers
    BY <1>1, SizeBounds, Constants DEF Numbers
  <2> QED
    BY <1>1, <1>2, <2>1 DEF Arrived
<1>4. /\ fo2 \in [Registrants -> [Numbers -> 0..LastDay \cup {Unfiled}]] /\ ServerGood(fo2, day)
      /\ \A q \in Registrants, n \in Int, d \in Int :
           d <= day /\ Covers(filedOn, q, n, d) => Covers(fo2, q, n, d)
  BY <1>3, TypesOf, ArrivalKeepsServer
<1>5. DiskGood(fo2, disk, day)
  <2>1. ASSUME NEW f \in Files, disk[f] # NoFile
        PROVE  disk[f].day <= day /\ Covers(fo2, f[1], disk[f].n, disk[f].day)
    <3>1. disk[f].n \in Int /\ disk[f].day \in Int /\ f[1] \in Registrants
      BY TypesOf, FileTypes, FileParts, Constants
    <3> QED
      BY <1>4, <2>1, <3>1, TypesOf DEF DiskGood
  <2> QED
    BY <2>1, TypesOf DEF DiskGood
<1>6. LocalsGood(fo2, disk, run, day)
  <2>1. run.got \in Int
    BY TypesOf, Constants DEF Runs
  <2>2. run.step \in {"write", "close"} => Covers(fo2, run.asks[1], run.got, day)
    BY <1>4, <2>1, TypesOf DEF LocalsGood
  <2> QED
    BY <2>2, TypesOf DEF LocalsGood
<1>7. EdgarTypeOK'
  BY <1>1, <1>2, <1>4, TypesOf DEF EdgarTypeOK
<1> QED
  BY <1>1, <1>2, <1>4, <1>5, <1>6, <1>7, TypesOf DEF EdgarInv

LEMMA NextDayKeeps == EdgarInv /\ NextDay => EdgarInv'
<1> SUFFICES ASSUME EdgarInv, NextDay PROVE EdgarInv'
  OBVIOUS
<1>1. /\ day < LastDay /\ day' = day + 1 /\ run.step \notin {"write", "close"}
      /\ UNCHANGED <<filedOn, disk, text, run>>
  BY DEF NextDay
<1>2. PICK t : t = day + 1
  OBVIOUS
<1>3. t \in 0..LastDay /\ day <= t /\ t \in Nat
  BY <1>1, <1>2, TypesOf, Constants
<1>4. EdgarTypeOK'
  BY <1>1, <1>2, <1>3, TypesOf DEF EdgarTypeOK
<1>5. ServerGood(filedOn, t)
  <2>1. ASSUME NEW r \in Registrants, NEW i \in Numbers PROVE filedOn[r][i] <= t
    <3>1. filedOn[r][i] \in Int /\ filedOn[r][i] <= day
      BY TypesOf, Constants DEF EdgarTypeOK, ServerGood, Unfiled
    <3> QED
      BY <1>3, <3>1, TypesOf
  <2> QED
    BY <2>1, TypesOf DEF ServerGood
<1>6. DiskGood(filedOn, disk, t)
  <2>1. ASSUME NEW f \in Files, disk[f] # NoFile PROVE disk[f].day <= t
    <3>1. disk[f].day \in Int /\ disk[f].day <= day
      BY <2>1, TypesOf, FileTypes, Constants DEF DiskGood
    <3> QED
      BY <1>3, <3>1, TypesOf
  <2> QED
    BY <2>1, TypesOf DEF DiskGood
<1>7. LocalsGood(filedOn, disk, run, t)
  BY <1>1, <1>3, TypesOf DEF LocalsGood
<1> QED
  BY <1>1, <1>2, <1>4, <1>5, <1>6, <1>7, TypesOf DEF EdgarInv

THEOREM EdgarInvAlways == EdgarSpec => []EdgarInv
<1>1. EdgarInv /\ [EdgarNext]_edgarVars => EdgarInv'
  <2>1. EdgarInv /\ EdgarNext => EdgarInv'
    BY FileKeeps, NextDayKeeps, BeginKeeps, ReadValidKeeps, FetchKeeps, FetchFailsKeeps,
       OpenFileKeeps, CloseFileKeeps, CrashKeeps, TextKeeps DEF EdgarNext
  <2>2. EdgarInv /\ UNCHANGED edgarVars => EdgarInv'
    BY DEF EdgarInv, EdgarTypeOK, edgarVars
  <2> QED
    BY <2>1, <2>2
<1> QED
  BY <1>1, EdgarInvInit, PTL DEF EdgarSpec

-----------------------------------------------------------------------------
(* What a finished list has *)

LEMMA ListHas ==
  ASSUME EdgarInv, Clean, NEW r \in run.visited, OfOnePiece(r), NEW i \in Due(r)
  PROVE  <<r, i>> \in run.listed
<1> DEFINE c == disk[Snapshot(r)]
           n == c.n
<1>1. r \in Registrants /\ Snapshot(r) \in Files /\ Snapshot(r)[1] = r
  BY TypesOf, FilesOf DEF Runs
<1>2. Covered(disk, run, r) /\ ~Busy(run)
  BY TypesOf DEF Clean, WalkGood, Busy
<1>3. c # NoFile /\ n \in 0..MaxFilings /\ c.day \in Nat /\ Covers(filedOn, r, n, c.day)
  BY <1>1, <1>2, TypesOf, FileTypes, Constants DEF Covered, DiskGood
<1>4. i \in Numbers /\ i >= Since /\ filedOn[r][i] # Unfiled /\ filedOn[r][i] < run.began - MaxAge
  BY DEF Due, KnownFor
<1>5. i <= n
  <2>1. run.began - MaxAge <= c.day
    BY <1>2 DEF Covered
  <2>2. filedOn[r][i] \in Int
    BY <1>1, <1>4, TypesOf, Constants DEF EdgarTypeOK
  <2> QED
    BY <1>3, <1>4, <2>1, <2>2, TypesOf, Constants DEF Covers
<1>6. CASE n - Recent < i
  <2>1. i \in RecentOf(n)
    BY <1>4, <1>5, <1>6 DEF RecentOf
  <2> QED
    BY <1>2, <2>1 DEF Covered
<1>7. ASSUME NEW k \in Numbers, i \in PageOf(n, k)
      PROVE  /\ disk[Page(r, k)] # NoFile /\ n <= disk[Page(r, k)].n /\ k \in Wanted(n)
             /\ \A j \in PageOf(disk[Page(r, k)].n, k) : <<r, j>> \in run.listed
  <2>1. PageTop(n, k) \in Int
    BY <1>3, Constants DEF PageTop
  <2>2. k \in PagesOf(n) /\ PageTop(n, k) >= Since
    BY <1>4, <1>7, <2>1, Constants DEF PagesOf, PageOf, Numbers
  <2>3. k \in Wanted(n)
    BY <2>2 DEF Wanted
  <2>4. Done(disk, run, r, k)
    BY <1>2, <2>3 DEF Covered, Todo
  <2> QED
    BY <2>3, <2>4 DEF Done
<1>8. CASE i <= n - Recent /\ Count(r) <= Recent + PageSize
  <2>1. 1 \in Numbers /\ Size(filedOn, r) \in Nat /\ Size(filedOn, r) <= Recent + PageSize
    BY <1>1, <1>4, <1>8, CountIsSize, SizeBounds, Constants DEF Numbers
  <2>2. \A q \in Int : PageTop(q, 1) = q - Recent
    BY Constants DEF PageTop
  <2>3. i \in PageOf(n, 1)
    BY <1>3, <1>4, <1>8, <2>1, <2>2, Constants DEF PageOf, Covers
  <2>4. PICK p : p = Page(r, 1)
    OBVIOUS
  <2>5. p \in Files /\ p[1] = r
    BY <1>1, <2>1, <2>4, FilesOf
  <2>6. /\ disk[p] # NoFile /\ n <= disk[p].n
        /\ \A j \in PageOf(disk[p].n, 1) : <<r, j>> \in run.listed
    BY <1>7, <2>1, <2>3, <2>4
  <2>7. disk[p].n \in Int /\ disk[p].n <= Size(filedOn, r)
    BY <2>5, <2>6, TypesOf, FileTypes, Constants DEF DiskGood, Covers
  <2>8. i \in PageOf(disk[p].n, 1)
    BY <1>3, <1>4, <1>8, <2>1, <2>2, <2>6, <2>7, Constants DEF PageOf
  <2> QED
    BY <2>6, <2>8
<1>9. CASE i <= n - Recent /\ \A k \in Wanted(n) : disk[Page(r, k)].n = n
  <2>1. PICK k \in Numbers : i \in PageOf(n, k)
    BY <1>3, <1>4, <1>9, PageOfFiling
  <2>2. disk[Page(r, k)].n = n /\ \A j \in PageOf(disk[Page(r, k)].n, k) : <<r, j>> \in run.listed
    BY <1>7, <1>9, <2>1
  <2> QED
    BY <2>1, <2>2
<1>10. i <= n - Recent \/ n - Recent < i
  BY <1>3, <1>4, Constants
<1> QED
  BY <1>6, <1>8, <1>9, <1>10 DEF OfOnePiece

(* The server, the files on disk and the locals of a run stay in their     *)
(* types: filings are numbered without a gap and a download never counts   *)
(* more than the bound (list_10k, _cached_json).                           *)
THEOREM EdgarTypesAlways == EdgarSpec => []EdgarTypeOK
BY EdgarInvAlways, PTL DEF EdgarInv

(* A list that came without a warning has every filing that was due of the *)
(* registrants it covers, whatever crashed and whatever copies of snapshot *)
(* and pages it was made from, if the pages are of one piece with their    *)
(* snapshot (list_10k, _cached_json).                                      *)
THEOREM ListsAlwaysComplete == EdgarSpec => []CleanListsComplete
<1>1. EdgarInv => CleanListsComplete
  BY ListHas DEF CleanListsComplete
<1> QED
  BY <1>1, EdgarInvAlways, PTL

(* Such a list also covers the predecessor of a registrant it covers, if   *)
(* the filing that proves the succession was due (_verified_predecessor).  *)
THEOREM HistoryAlwaysKept == EdgarSpec => []HistoryKept
<1>1. EdgarInv => HistoryKept
  <2> SUFFICES ASSUME EdgarInv, Clean, NEW r \in run.visited, Predecessor[r] # None,
                      OfOnePiece(r), Evidence[r] \in Due(r)
               PROVE  Predecessor[r] \in run.visited
    BY DEF HistoryKept
  <2>1. <<r, Evidence[r]>> \in run.listed
    BY ListHas
  <2>2. Followed(run, r) /\ ~Busy(run)
    BY TypesOf DEF Clean, WalkGood, Busy
  <2> QED
    BY <2>1, <2>2 DEF Followed
<1> QED
  BY <1>1, EdgarInvAlways, PTL
=============================================================================
