------------------------- MODULE PaperSessionProofs -------------------------
(***************************************************************************)
(* Proofs about PaperSession, for any number of runs, symbols and nights:  *)
(* however runs, crashes, lost answers and the broker interleave, a row of *)
(* paper_orders never claims more than the broker did, a run that wrote    *)
(* its snapshot recorded its orders, the account is never sold below zero, *)
(* and runs started by the wrapper never stack their orders.               *)
(***************************************************************************)
EXTENDS PaperSession, SumLemmas

BookType == [side: {"buy", "sell"}, qty: Int, filled: Nat, status: BrokerStatus]
SentType == [symbol: Symbols, status: RowStatus, filled: Nat]

(* The state without its sums: positions and quantities are just integers. *)
Shape ==
  /\ score \in Signals
  /\ orders \in [Ids -> BookType]
  /\ positions \in [Symbols -> Int]
  /\ rows \in [Ids -> [status: RowStatus, filled: Nat]]
  /\ snapshots \subseteq Runs
  /\ run \in [Runs -> LocalsType]

LEMMA FreshType == Fresh \in LocalsType
BY SMT DEF Fresh, LocalsType, Steps

LEMMA InitShape == PaperInit => Shape
<1>1. NoOrder \in BookType
  BY DEF NoOrder, BookType, BrokerStatus
<1>2. NoRow \in [status: RowStatus, filled: Nat]
  BY DEF NoRow, RowStatus
<1> QED
  BY <1>1, <1>2, FreshType DEF PaperInit, Shape

(* A run's step leaves the locals of the others alone.                     *)
LEMMA LocalStep ==
  ASSUME NEW r \in Runs, run \in [Runs -> LocalsType], NEW new \in LocalsType, Local(r, new)
  PROVE  /\ run' \in [Runs -> LocalsType]
         /\ run'[r] = new
         /\ \A q \in Runs : q # r => run'[q] = run[q]
BY DEF Local

LEMMA GotoType ==
  ASSUME NEW r \in Runs, run \in [Runs -> LocalsType], NEW step \in Steps
  PROVE  [run[r] EXCEPT !.step = step] \in LocalsType
BY DEF LocalsType

LEMMA AnswerType ==
  ASSUME Shape, NEW i \in Ids
  PROVE  Answer(i) \in [id: Ids, status: RowStatus, filled: Nat]
<1>1. orders[i].filled \in Nat /\ orders[i].status \in BrokerStatus
  BY DEF Shape, BookType
<1>2. Translated(orders[i].status) \in RowStatus
  BY <1>1 DEF Translated, BrokerStatus, RowStatus
<1> QED
  BY <1>1, <1>2 DEF Answer

-----------------------------------------------------------------------------
(* The shape, for the broker and then for the steps of a run.              *)
LEMMA OneMoreLotType ==
  ASSUME NEW order \in BookType
  PROVE  OneMoreLot(order) \in BookType
<1>1. FilledStatus(order) \in BrokerStatus
  BY SMT DEF FilledStatus, BrokerStatus, BookType
<1> QED
  BY <1>1 DEF OneMoreLot, BookType

LEMMA BrokerShape == ASSUME Shape, Broker PROVE Shape'
<1>1. CASE OpenMarket
  BY <1>1 DEF Shape, OpenMarket
<1>2. CASE CloseMarket
  <2>1. ASSUME NEW order \in BookType PROVE Ended(order) \in BookType
    BY SMT DEF Ended, BookType, BrokerStatus
  <2> QED
    BY <1>2, <2>1 DEF Shape, CloseMarket
<1>3. ASSUME NEW i \in Ids, Fill(i)
      PROVE  Shape'
  <2>1. i[2] \in Symbols /\ orders[i] \in BookType
    BY DEF Ids, Shape
  <2>2. positions' \in [Symbols -> Int]
    BY <1>3, <2>1, SMT DEF Fill, Shape
  <2>3. OneMoreLot(orders[i]) \in BookType
    BY <2>1, OneMoreLotType
  <2> QED
    BY <1>3, <2>2, <2>3 DEF Fill, Shape
<1>4. ASSUME NEW i \in Ids, CancelTakesEffect(i)
      PROVE  Shape'
  BY <1>4, SMT DEF Shape, CancelTakesEffect, BookType, BrokerStatus
<1> QED
  BY <1>1, <1>2, <1>3, <1>4 DEF Broker

(* Most steps of a run change its locals and nothing else named by Shape.  *)
LEMMA LocalShape ==
  ASSUME Shape, NEW r \in Runs, NEW new \in LocalsType, Local(r, new),
         UNCHANGED <<score, orders, positions, rows, snapshots>>
  PROVE  Shape'
BY LocalStep DEF Shape

LEMMA GotoShape ==
  ASSUME Shape, NEW r \in Runs, NEW step \in Steps, Goto(r, step),
         UNCHANGED <<score, orders, positions, rows, snapshots>>
  PROVE  Shape'
BY GotoType, LocalShape DEF Shape, Goto

LEMMA StartingType ==
  ASSUME Shape, NEW r \in Runs
  PROVE  /\ [Fresh EXCEPT !.step = "cancel", !.midday = (market = "open"),
                          !.cancels = StaleOrders] \in LocalsType
         /\ [run[r] EXCEPT !.step = "reconcile", !.score = score, !.todo = RowsToReconcile]
              \in LocalsType
         /\ [Fresh EXCEPT !.step = "reconcile", !.todo = RowsToReconcile] \in LocalsType
         /\ [Fresh EXCEPT !.step = "failed", !.midday = run[r].midday] \in LocalsType
<1>1. run[r] \in LocalsType /\ StaleOrders \subseteq Ids /\ RowsToReconcile \subseteq Ids
  BY DEF Shape, StaleOrders, OpenOrders, RowsToReconcile
<1>2. score \in [Symbols -> {"enter", "hold", "exit"}]
  BY PaperAssumption DEF Shape
<1>3. (market = "open") \in BOOLEAN /\ run[r].midday \in BOOLEAN
  BY <1>1 DEF LocalsType
<1> QED
  BY <1>1, <1>2, <1>3, FreshType DEF LocalsType, Steps

LEMMA ReconcilingType ==
  ASSUME Shape, NEW r \in Runs, NEW i \in Ids
  PROVE  /\ [run[r] EXCEPT !.todo = @ \ {i}, !.fetched = {Answer(i)}] \in LocalsType
         /\ [run[r] EXCEPT !.todo = @ \ {i}] \in LocalsType
         /\ [run[r] EXCEPT !.fetched = {}] \in LocalsType
         /\ [run[r] EXCEPT !.cancels = @ \ {i}] \in LocalsType
<1>1. run[r] \in LocalsType
  BY DEF Shape
<1> QED
  BY <1>1, AnswerType DEF LocalsType

LEMMA ReadingType ==
  ASSUME Shape, NEW r \in Runs
  PROVE  /\ ReadHeld(r) => run'[r] \in LocalsType
         /\ ReadQuantities(r) => run'[r] \in LocalsType
<1>1. run[r] \in LocalsType
  BY DEF Shape
<1>2. ReadHeld(r) => run'[r] \in LocalsType
  <2> SUFFICES ASSUME ReadHeld(r)
               PROVE  run'[r] \in LocalsType
    OBVIOUS
  <2> DEFINE held == {s \in Symbols : positions[s] > 0}
  <2>1. PICK sells \in SUBSET Symbols : sells = {s \in held : run[r].score[s] = "exit"}
    OBVIOUS
  <2>2. PICK buys \in SUBSET Symbols : buys = {s \in Symbols \ held : run[r].score[s] = "enter"}
    OBVIOUS
  <2>3. run'[r] = [run[r] EXCEPT !.step = "quantities",
                     !.sells = {s \in held : run[r].score[s] = "exit"},
                     !.buys = {s \in Symbols \ held : run[r].score[s] = "enter"}]
    BY DEF ReadHeld, Local, Shape
  <2>4. run'[r] = [run[r] EXCEPT !.step = "quantities", !.sells = sells, !.buys = buys]
    BY <2>1, <2>2, <2>3, Zenon
  <2>5. [run[r] EXCEPT !.step = "quantities", !.sells = sells, !.buys = buys] \in LocalsType
    BY <1>1 DEF LocalsType, Steps
  <2> QED
    BY <2>4, <2>5, Zenon
<1>3. \A sells \in SUBSET Symbols :
        [run[r] EXCEPT !.step = "submit", !.quantity = positions, !.sells = sells] \in LocalsType
  BY <1>1 DEF LocalsType, Steps, Shape
<1>4. ReadQuantities(r) => run'[r] \in LocalsType
  <2>1. {s \in run[r].sells : positions[s] > 0} \in SUBSET Symbols
    BY <1>1 DEF LocalsType
  <2> QED
    BY <1>3, <2>1 DEF ReadQuantities, Local, Shape
<1> QED
  BY <1>2, <1>4

LEMMA SendingType ==
  ASSUME Shape, NEW r \in Runs, NEW x \in SentType
  PROVE  /\ [run[r] EXCEPT !.sells = @ \ {x.symbol}, !.buys = @ \ {x.symbol},
                           !.sent = @ \cup {x}] \in LocalsType
         /\ [run[r] EXCEPT !.sent = @ \ {x}] \in LocalsType
<1>1. run[r] \in LocalsType
  BY DEF Shape
<1>2. [run[r] EXCEPT !.sells = @ \ {x.symbol}, !.buys = @ \ {x.symbol},
                     !.sent = @ \cup {x}] \in LocalsType
  <2>1. \A sells, buys \in SUBSET Symbols :
          \A sent \in SUBSET SentType :
            [run[r] EXCEPT !.sells = sells, !.buys = buys, !.sent = sent] \in LocalsType
    BY <1>1 DEF LocalsType, SentType
  <2>2. run[r].sells \ {x.symbol} \in SUBSET Symbols /\ run[r].buys \ {x.symbol} \in SUBSET Symbols
    BY <1>1 DEF LocalsType
  <2>3. run[r].sent \cup {x} \in SUBSET SentType
    BY <1>1 DEF LocalsType, SentType
  <2> QED
    BY <2>1, <2>2, <2>3
<1>3. [run[r] EXCEPT !.sent = @ \ {x}] \in LocalsType
  BY <1>1 DEF LocalsType
<1> QED
  BY <1>2, <1>3

LEMMA AnsweredType ==
  ASSUME Shape, NEW r \in Runs, NEW x, NEW y \in SentType
  PROVE  [run[r] EXCEPT !.sent = (@ \ {x}) \cup {y}] \in LocalsType
<1>1. run[r] \in LocalsType
  BY DEF Shape
<1>2. \A sent \in SUBSET SentType : [run[r] EXCEPT !.sent = sent] \in LocalsType
  BY <1>1 DEF LocalsType, SentType
<1>3. (run[r].sent \ {x}) \cup {y} \in SUBSET SentType
  BY <1>1 DEF LocalsType, SentType
<1> QED
  BY <1>2, <1>3

(* The two ways an order sent gets its answer.                             *)
LEMMA AnswerSent ==
  ASSUME Shape, NEW r \in Runs, Receive(r) \/ LoseAnswer(r)
  PROVE  \E x \in Awaited(r), status \in RowStatus, filled \in Nat :
           /\ x \in SentType /\ run[r].step = "submit"
           /\ Answered(r, x, status, filled)
           /\ \/ status = "rejected" /\ filled = 0
              \/ /\ status = Accepted(orders[<<r, x.symbol>>].status)
                 /\ filled = orders[<<r, x.symbol>>].filled
<1>1. run[r] \in LocalsType
  BY DEF Shape
<1>2. \A x \in Awaited(r) : x \in SentType /\ <<r, x.symbol>> \in Ids
  BY <1>1 DEF Awaited, LocalsType, SentType, Ids
<1>3. CASE Receive(r)
  <2>1. PICK x \in Awaited(r) :
          Answered(r, x, Accepted(orders[<<r, x.symbol>>].status), orders[<<r, x.symbol>>].filled)
    BY <1>3 DEF Receive
  <2>2. orders[<<r, x.symbol>>].filled \in Nat /\ orders[<<r, x.symbol>>].status \in BrokerStatus
    BY <1>2, <2>1 DEF Shape, BookType
  <2>3. Accepted(orders[<<r, x.symbol>>].status) \in RowStatus
    BY <2>2 DEF Accepted, Translated, BrokerStatus, RowStatus
  <2> QED
    BY <1>2, <1>3, <2>1, <2>2, <2>3 DEF Receive
<1>4. CASE LoseAnswer(r)
  <2>1. "rejected" \in RowStatus /\ 0 \in Nat
    BY DEF RowStatus
  <2> QED
    BY <1>2, <1>4, <2>1 DEF LoseAnswer
<1> QED
  BY <1>3, <1>4

LEMMA RunStepShape ==
  ASSUME Shape, NEW r \in Runs, RunStep(r)
  PROVE  Shape'
<1>1. run[r] \in LocalsType
  BY DEF Shape
<1>2. CASE StartRotate(r)
  BY <1>2, StartingType, LocalShape DEF StartRotate
<1>3. CASE NoCandidates(r)
  BY <1>3, GotoShape DEF NoCandidates, Steps
<1>4. CASE OpenSession(r)
  BY <1>4, StartingType, LocalShape DEF OpenSession
<1>5. CASE StartReconcile(r)
  BY <1>5, StartingType, LocalShape DEF StartReconcile
<1>6. ASSUME NEW i \in Ids, CancelOne(r, i)
      PROVE  Shape'
  <2>1. run' \in [Runs -> LocalsType]
    BY <1>6, ReconcilingType, LocalStep DEF CancelOne, Shape
  <2>2. orders' \in [Ids -> BookType]
    BY <1>6, SMT DEF CancelOne, Shape, BookType, BrokerStatus
  <2> QED
    BY <1>6, <2>1, <2>2 DEF CancelOne, Shape
<1>7. ASSUME NEW i \in Ids, CancelRaises(r, i)
      PROVE  Shape'
  BY <1>7, GotoShape DEF CancelRaises, Steps
<1>8. ASSUME NEW i \in Ids, FetchOrder(r, i)
      PROVE  Shape'
  BY <1>8, ReconcilingType, LocalShape DEF FetchOrder
<1>9. ASSUME NEW i \in Ids, SkipOrder(r, i)
      PROVE  Shape'
  BY <1>9, ReconcilingType, LocalShape DEF SkipOrder
<1>10. CASE UpdateRow(r)
  <2>1. PICK f \in run[r].fetched : rows' = [rows EXCEPT ![f.id] = [status |-> f.status, filled |-> f.filled]]
    BY <1>10 DEF UpdateRow
  <2>2. f \in [id: Ids, status: RowStatus, filled: Nat]
    BY <1>1 DEF LocalsType
  <2>3. rows' \in [Ids -> [status: RowStatus, filled: Nat]]
    BY <2>1, <2>2 DEF Shape
  <2>4. run' \in [Runs -> LocalsType]
    BY <1>10, <2>2, ReconcilingType, LocalStep DEF UpdateRow, Shape
  <2> QED
    BY <1>10, <2>3, <2>4 DEF UpdateRow, Shape
<1>11. CASE EndReconcile(r)
  BY <1>11, GotoShape DEF EndReconcile, Steps
<1>12. CASE ReadHeld(r)
  <2>1. run' \in [Runs -> LocalsType]
    BY <1>12, ReadingType DEF ReadHeld, Local, Shape
  <2> QED
    BY <1>12, <2>1 DEF ReadHeld, Shape
<1>13. CASE ReadQuantities(r)
  <2>1. run' \in [Runs -> LocalsType]
    BY <1>13, ReadingType DEF ReadQuantities, Local, Shape
  <2> QED
    BY <1>13, <2>1 DEF ReadQuantities, Shape
<1>14. ASSUME NEW o \in Todo(r), NEW answer \in {"none", "rejected"},
              Submit(r, o, answer), Placed(r, o) \/ UNCHANGED orders
       PROVE  Shape'
  <2>1. o.symbol \in Symbols /\ o.side \in {"buy", "sell"}
    BY <1>1 DEF Todo, LocalsType
  <2>2. run' \in [Runs -> LocalsType]
    <3>1. [symbol |-> o.symbol, status |-> answer, filled |-> 0] \in SentType
      BY <2>1 DEF SentType, RowStatus
    <3> QED
      BY <1>14, <3>1, SendingType, LocalStep DEF Submit, Shape
  <2>3. orders' \in [Ids -> BookType]
    <3>1. Quantity(r, o) \in Int
      BY <1>1, <2>1, PaperAssumption DEF Quantity, LocalsType
    <3>2. [side |-> o.side, qty |-> Quantity(r, o), filled |-> 0, status |-> "accepted"] \in BookType
      BY <2>1, <3>1 DEF BookType, BrokerStatus
    <3> QED
      BY <1>14, <3>2 DEF Placed, Shape
  <2> QED
    BY <1>14, <2>2, <2>3 DEF Submit, Shape
<1>15. CASE EndLoop(r)
  BY <1>15, GotoShape DEF EndLoop, Steps
<1>16. CASE WriteOrder(r)
  <2>1. PICK x \in run[r].sent :
          /\ rows' = [rows EXCEPT ![<<r, x.symbol>>] = [status |-> x.status, filled |-> x.filled]]
          /\ Local(r, [run[r] EXCEPT !.sent = @ \ {x}])
    BY <1>16 DEF WriteOrder
  <2>2. x \in SentType
    BY <1>1 DEF LocalsType, SentType
  <2>3. [status |-> x.status, filled |-> x.filled] \in [status: RowStatus, filled: Nat]
    BY <2>2 DEF SentType
  <2>4. rows' \in [Ids -> [status: RowStatus, filled: Nat]]
    BY <2>1, <2>3 DEF Shape
  <2>5. run' \in [Runs -> LocalsType]
    BY <2>1, <2>2, SendingType, LocalStep DEF Shape
  <2> QED
    BY <1>16, <2>4, <2>5 DEF WriteOrder, Shape
<1>17. CASE SnapshotEquity(r)
  <2>1. run' \in [Runs -> LocalsType]
    BY <1>17, GotoType, LocalStep DEF SnapshotEquity, Goto, Steps, Shape
  <2> QED
    BY <1>17, <2>1 DEF SnapshotEquity, Shape
<1>18. CASE Crash(r)
  BY <1>18, StartingType, LocalShape DEF Crash
<1>19. CASE Receive(r) \/ LoseAnswer(r)
  <2>1. PICK x \in Awaited(r), status \in RowStatus, filled \in Nat :
          x \in SentType /\ Answered(r, x, status, filled)
    BY <1>19, AnswerSent
  <2>2. [symbol |-> x.symbol, status |-> status, filled |-> filled] \in SentType
    BY <2>1 DEF SentType
  <2> QED
    BY <2>1, <2>2, AnsweredType, LocalShape DEF Answered
<1> QED
  BY <1>2, <1>3, <1>4, <1>5, <1>6, <1>7, <1>8, <1>9, <1>10, <1>11, <1>12, <1>13, <1>14,
     <1>15, <1>16, <1>17, <1>18, <1>19
     DEF RunStep, Reconcile, Trade, Send, SubmitRefused

(* Type correctness, sums left aside, of every reachable state.            *)
THEOREM ShapeAlways == PaperSpec => []Shape
<1>1. Shape /\ [PaperNext]_paperVars => Shape'
  <2> SUFFICES ASSUME Shape, [PaperNext]_paperVars
               PROVE  Shape'
    OBVIOUS
  <2>1. CASE Broker
    BY <2>1, BrokerShape
  <2>2. ASSUME NEW r \in Runs, RunStep(r)
        PROVE  Shape'
    BY <2>2, RunStepShape
  <2>3. CASE UNCHANGED paperVars
    BY <2>3 DEF paperVars, Shape
  <2> QED
    BY <2>1, <2>2, <2>3 DEF PaperNext
<1> QED
  BY <1>1, InitShape, PTL DEF PaperSpec

-----------------------------------------------------------------------------
(* The inductive invariant.  Symbols a run may yet send an order for:      *)
Unsent(r, locals) ==
  CASE Command[r] = "reconcile" -> Symbols
    [] locals.step \in {"idle", "cancel", "reconcile", "read", "quantities"} -> Symbols
    [] locals.step = "submit" -> locals.sells \cup locals.buys
    [] OTHER -> {}

(* their order ids are new to the broker and to paper_orders;              *)
IdsFresh(r, locals) ==
  \A s \in Unsent(r, locals) :
    orders[<<r, s>>].status = "none" /\ rows[<<r, s>>].status = "none"

ReconcilersSendNothing(r, locals) ==
  Command[r] = "reconcile" =>
    locals.step \in {"idle", "reconcile", "done", "failed"} /\ locals.sent = {}

(* what a run goes by was true of the broker at some earlier time;         *)
Told(order, status, filled) ==
  /\ order.status # "none" /\ filled <= order.filled
  /\ status \in {"filled", "expired"} => order.status = status /\ order.filled = filled

Once(answer) ==
  answer.status # "none" /\ Told(orders[answer.id], answer.status, answer.filled)

SentOnce(r, x) ==
  IF x.status = "rejected" THEN x.filled = 0
                           ELSE Told(orders[<<r, x.symbol>>], x.status, x.filled)

AnswersOnce(r, locals) ==
  /\ \A x \in locals.sent : SentOnce(r, x)
  /\ locals.step = "persist" => \A x \in locals.sent : x.status # "none"
  /\ \A i \in locals.todo : orders[i].status # "none"
  /\ \A f \in locals.fetched : Once(f)

(* and an order the broker has is recorded, or about to be.                *)
Recording(r, locals) ==
  locals.step \in {"submit", "persist"} =>
    \A s \in Symbols : orders[<<r, s>>].status # "none" =>
      rows[<<r, s>>].status # "none" \/ \E x \in locals.sent : x.symbol = s

Consistent(r, locals) ==
  /\ IdsFresh(r, locals) /\ ReconcilersSendNothing(r, locals)
  /\ AnswersOnce(r, locals) /\ Recording(r, locals)

RecordedKnown ==
  \A i \in Ids : rows[i].status \notin {"none", "rejected"} => orders[i].status # "none"

SnapshotsLast ==
  \A r \in snapshots : Command[r] # "reconcile" /\ run[r].step = "done"

PaperInv ==
  /\ Shape
  /\ RowsNeverAhead /\ RecordedKnown
  /\ SnapshotsLast /\ SnapshotRunsRecorded
  /\ \A r \in Runs : Consistent(r, run[r])

LEMMA InitPaperInv == PaperInit => PaperInv
<1> SUFFICES ASSUME PaperInit
             PROVE  PaperInv
  OBVIOUS
<1>1. \A i \in Ids : orders[i].status = "none" /\ rows[i].status = "none"
  BY DEF PaperInit, NoOrder, NoRow
<1>2. ASSUME NEW r \in Runs
      PROVE  Consistent(r, run[r])
  <2>1. run[r] = Fresh
    BY DEF PaperInit
  <2>2. \A s \in Symbols : <<r, s>> \in Ids
    BY DEF Ids
  <2>3. Unsent(r, Fresh) = Symbols
    BY DEF Unsent, Fresh
  <2>4. IdsFresh(r, Fresh)
    BY <1>1, <2>2, <2>3 DEF IdsFresh
  <2>5. ReconcilersSendNothing(r, Fresh) /\ AnswersOnce(r, Fresh) /\ Recording(r, Fresh)
    BY DEF ReconcilersSendNothing, AnswersOnce, Recording, Fresh
  <2> QED
    BY <2>1, <2>4, <2>5 DEF Consistent
<1>3. SnapshotsLast /\ SnapshotRunsRecorded
  BY DEF PaperInit, SnapshotsLast, SnapshotRunsRecorded
<1> QED
  BY <1>1, <1>2, <1>3, InitShape DEF PaperInv, RowsNeverAhead, RecordedKnown

-----------------------------------------------------------------------------
(* The three ways the shared state changes.  First, orders the broker has  *)
(* move on, and no order is new.                                           *)
OrdersMove ==
  \A i \in Ids :
    \/ orders'[i] = orders[i]
    \/ /\ orders[i].status \in OpenStatus /\ orders'[i].status # "none"
       /\ orders[i].filled <= orders'[i].filled

LEMMA MoveKeepsRows ==
  ASSUME Shape, Shape', RowsNeverAhead, RecordedKnown, OrdersMove, rows' = rows
  PROVE  RowsNeverAhead' /\ RecordedKnown'
<1> SUFFICES ASSUME NEW i \in Ids
             PROVE  /\ rows[i].status # "none" =>
                         /\ rows[i].filled <= orders'[i].filled
                         /\ rows[i].status \in {"filled", "expired"} => Agrees(i)'
                    /\ rows[i].status \notin {"none", "rejected"} => orders'[i].status # "none"
  BY DEF RowsNeverAhead, RecordedKnown
<1>1. rows[i].filled \in Nat /\ orders[i].filled \in Nat /\ orders'[i].filled \in Nat
  BY DEF Shape, BookType
<1>2. CASE orders'[i] = orders[i]
  BY <1>2 DEF RowsNeverAhead, RecordedKnown, Agrees
<1>3. CASE /\ orders[i].status \in OpenStatus /\ orders'[i].status # "none"
           /\ orders[i].filled <= orders'[i].filled
  <2>1. rows[i].status # "none" => rows[i].filled <= orders'[i].filled
    BY <1>1, <1>3 DEF RowsNeverAhead
  <2>2. Agrees(i) => rows[i].status = orders[i].status
    BY DEF Agrees
  <2>3. rows[i].status # "none" => rows[i].status \notin {"filled", "expired"}
    BY <1>3, <2>2 DEF RowsNeverAhead, OpenStatus
  <2> QED
    BY <1>3, <2>1, <2>3
<1> QED
  BY <1>2, <1>3 DEF OrdersMove

LEMMA MoveKeepsRun ==
  ASSUME Shape, Shape', NEW r \in Runs, NEW locals \in LocalsType,
         Consistent(r, locals), OrdersMove, rows' = rows
  PROVE  Consistent(r, locals)'
<1>1. \A i \in Ids : orders[i].status = "none" => orders'[i] = orders[i]
  BY DEF OrdersMove, OpenStatus
<1>2. \A i \in Ids : orders[i].status # "none" => orders'[i].status # "none"
  BY DEF OrdersMove
<1>3. \A s \in Symbols : <<r, s>> \in Ids
  BY DEF Ids
<1>4. Unsent(r, locals) \subseteq Symbols
  BY DEF Unsent, LocalsType
<1>5. IdsFresh(r, locals)'
  <2>1. ASSUME NEW s \in Unsent(r, locals)
        PROVE  orders'[<<r, s>>].status = "none" /\ rows'[<<r, s>>].status = "none"
    <3>1. <<r, s>> \in Ids
      BY <1>3, <1>4
    <3>2. orders[<<r, s>>].status = "none" /\ rows[<<r, s>>].status = "none"
      BY DEF Consistent, IdsFresh
    <3> QED
      BY <1>1, <3>1, <3>2
  <2> QED
    BY <2>1 DEF IdsFresh
<1>6. ReconcilersSendNothing(r, locals)'
  BY DEF Consistent, ReconcilersSendNothing
<1>7. AnswersOnce(r, locals)'
  <2>1. ASSUME NEW x \in locals.sent
        PROVE  SentOnce(r, x)'
    <3>1. x \in SentType /\ <<r, x.symbol>> \in Ids /\ SentOnce(r, x)
      BY <1>3 DEF Consistent, AnswersOnce, LocalsType, SentType
    <3>2. /\ x.filled \in Nat /\ orders[<<r, x.symbol>>].filled \in Nat
          /\ orders'[<<r, x.symbol>>].filled \in Nat
      BY <3>1 DEF Shape, BookType, SentType
    <3> QED
      BY <3>1, <3>2 DEF OrdersMove, SentOnce, Told, OpenStatus
  <2>2. \A i \in locals.todo : orders'[i].status # "none"
    BY <1>2 DEF Consistent, AnswersOnce, LocalsType
  <2>3. ASSUME NEW f \in locals.fetched
        PROVE  Once(f)'
    <3>1. f \in [id: Ids, status: RowStatus, filled: Nat] /\ Once(f)
      BY DEF Consistent, AnswersOnce, LocalsType
    <3>2. orders[f.id].filled \in Nat /\ orders'[f.id].filled \in Nat
      BY <3>1 DEF Shape, BookType
    <3> QED
      BY <3>1, <3>2 DEF OrdersMove, Once, Told, OpenStatus
  <2> QED
    BY <2>1, <2>2, <2>3 DEF Consistent, AnswersOnce
<1>8. Recording(r, locals)'
  BY <1>1, <1>3 DEF Consistent, Recording
<1> QED
  BY <1>5, <1>6, <1>7, <1>8 DEF Consistent

(* Second, the broker takes an order under an id that is new to it.        *)
NewOrder(r, s) ==
  /\ orders[<<r, s>>].status = "none" /\ rows[<<r, s>>].status = "none"
  /\ \A i \in Ids : i # <<r, s>> => orders'[i] = orders[i]

LEMMA NewOrderKeepsRows ==
  ASSUME NEW r \in Runs, NEW s \in Symbols, NewOrder(r, s),
         RowsNeverAhead, RecordedKnown, rows' = rows
  PROVE  RowsNeverAhead' /\ RecordedKnown'
BY DEF NewOrder, RowsNeverAhead, RecordedKnown, Agrees

LEMMA NewOrderKeepsOthers ==
  ASSUME NEW r \in Runs, NEW s \in Symbols, NewOrder(r, s), rows' = rows,
         NEW q \in Runs \ {r}, NEW locals \in LocalsType, Consistent(q, locals)
  PROVE  Consistent(q, locals)'
<1>1. \A t \in Symbols : <<q, t>> \in Ids /\ orders'[<<q, t>>] = orders[<<q, t>>]
  BY DEF NewOrder, Ids
<1>2. \A i \in Ids : orders[i].status # "none" => orders'[i] = orders[i]
  BY DEF NewOrder
<1>3. Unsent(q, locals) \subseteq Symbols
  BY DEF Unsent, LocalsType
<1>4. IdsFresh(q, locals)'
  BY <1>1, <1>3 DEF Consistent, IdsFresh
<1>5. ReconcilersSendNothing(q, locals)'
  BY DEF Consistent, ReconcilersSendNothing
<1>6. AnswersOnce(q, locals)'
  <2>1. \A x \in locals.sent : SentOnce(q, x)'
    BY <1>1 DEF Consistent, AnswersOnce, LocalsType, SentOnce, Told
  <2>2. \A i \in locals.todo : orders'[i].status # "none"
    BY <1>2 DEF Consistent, AnswersOnce, LocalsType
  <2>3. \A f \in locals.fetched : Once(f)'
    BY <1>2 DEF Consistent, AnswersOnce, LocalsType, Once, Told
  <2> QED
    BY <2>1, <2>2, <2>3 DEF Consistent, AnswersOnce
<1>7. Recording(q, locals)'
  BY <1>1 DEF Consistent, Recording
<1> QED
  BY <1>4, <1>5, <1>6, <1>7 DEF Consistent

(* Third, a row is written: of an order the broker has, or by the run that *)
(* sent it.                                                                *)
RowWritten(r) ==
  \A i \in Ids :
    \/ rows'[i] = rows[i]
    \/ rows'[i].status # "none" /\ (orders[i].status # "none" \/ i[1] = r)

LEMMA RowWrittenKeepsOthers ==
  ASSUME NEW r, RowWritten(r), orders' = orders,
         NEW q \in Runs \ {r}, NEW locals \in LocalsType, Consistent(q, locals)
  PROVE  Consistent(q, locals)'
<1>1. \A s \in Symbols : <<q, s>> \in Ids
  BY DEF Ids
<1>2. Unsent(q, locals) \subseteq Symbols
  BY DEF Unsent, LocalsType
<1>3. ASSUME NEW s \in Unsent(q, locals)
      PROVE  rows'[<<q, s>>] = rows[<<q, s>>]
  <2>1. <<q, s>> \in Ids /\ <<q, s>>[1] # r
    BY <1>1, <1>2
  <2>2. orders[<<q, s>>].status = "none"
    BY DEF Consistent, IdsFresh
  <2> QED
    BY <2>1, <2>2 DEF RowWritten
<1>4. IdsFresh(q, locals)'
  BY <1>3 DEF Consistent, IdsFresh
<1>5. ReconcilersSendNothing(q, locals)' /\ AnswersOnce(q, locals)'
  BY DEF Consistent, ReconcilersSendNothing, AnswersOnce, Once, SentOnce, Told
<1>6. Recording(q, locals)'
  <2>1. \A s \in Symbols : rows[<<q, s>>].status # "none" => rows'[<<q, s>>].status # "none"
    BY <1>1 DEF RowWritten
  <2> QED
    BY <2>1 DEF Consistent, Recording
<1> QED
  BY <1>4, <1>5, <1>6 DEF Consistent

-----------------------------------------------------------------------------
(* The steps.  What holds of locals a run has after the step holds of it.  *)
LEMMA ConsistentAfter ==
  ASSUME NEW q \in Runs, NEW locals, Consistent(q, locals)', run'[q] = locals
  PROVE  Consistent(q, run[q])'
BY DEF Consistent, IdsFresh, Unsent, ReconcilersSendNothing, AnswersOnce, Once, SentOnce, Told, Recording

LEMMA AnswersKept ==
  ASSUME NEW r, NEW locals, AnswersOnce(r, locals), orders' = orders
  PROVE  AnswersOnce(r, locals)'
BY DEF AnswersOnce, Once, SentOnce, Told

(* A run that moves, with what is shared already known to be in order.     *)
LEMMA RunMoves ==
  ASSUME PaperInv, Shape', RowsNeverAhead', RecordedKnown',
         NEW r \in Runs, r \notin snapshots, NEW new \in LocalsType, Local(r, new),
         Consistent(r, new)',
         \A q \in Runs \ {r} : \A locals \in LocalsType :
           Consistent(q, locals) => Consistent(q, locals)',
         \A q \in snapshots : \A s \in Symbols :
           orders[<<q, s>>].status = "none" => orders'[<<q, s>>].status = "none",
         \A i \in Ids : rows[i].status # "none" => rows'[i].status # "none",
         snapshots' = snapshots
  PROVE  PaperInv'
<1>1. /\ run'[r] = new
      /\ \A q \in Runs : q # r => run'[q] = run[q]
  BY LocalStep DEF PaperInv, Shape
<1>2. SnapshotsLast'
  BY <1>1 DEF PaperInv, SnapshotsLast, Shape
<1>3. SnapshotRunsRecorded'
  <2>1. \A q \in snapshots : \A s \in Symbols : <<q, s>> \in Ids
    BY DEF Ids, PaperInv, Shape
  <2> QED
    BY <2>1 DEF PaperInv, SnapshotRunsRecorded
<1>4. ASSUME NEW q \in Runs
      PROVE  Consistent(q, run[q])'
  <2>1. CASE q = r
    BY <1>1, <2>1, ConsistentAfter
  <2>2. CASE q # r
    <3>1. PICK locals \in LocalsType : locals = run[q]
      BY DEF PaperInv, Shape
    <3>2. Consistent(q, locals)
      BY <3>1 DEF PaperInv
    <3>3. Consistent(q, locals)'
      BY <2>2, <3>2
    <3> QED
      BY <1>1, <2>2, <3>1, <3>3, ConsistentAfter
  <2> QED
    BY <2>1, <2>2
<1> QED
  BY <1>2, <1>3, <1>4 DEF PaperInv

(* Most steps touch nothing that is shared.                                *)
LEMMA LocalMoves ==
  ASSUME PaperInv, NEW r \in Runs, r \notin snapshots, NEW new \in LocalsType, Local(r, new),
         Consistent(r, new), UNCHANGED <<score, orders, positions, rows, snapshots>>
  PROVE  PaperInv'
<1>1. Shape'
  BY LocalShape DEF PaperInv
<1>2. RowsNeverAhead' /\ RecordedKnown'
  BY DEF PaperInv, RowsNeverAhead, RecordedKnown, Agrees
<1>3. ASSUME NEW q \in Runs, NEW locals, Consistent(q, locals)
      PROVE  Consistent(q, locals)'
  BY <1>3 DEF Consistent, IdsFresh, Unsent, ReconcilersSendNothing, AnswersOnce, Once, SentOnce, Told, Recording
<1> QED
  BY <1>1, <1>2, <1>3, RunMoves

(* A run that has its snapshot is a trade that has ended.                  *)
LEMMA Unfinished ==
  ASSUME PaperInv, NEW r \in Runs, run[r].step # "done" \/ Command[r] = "reconcile"
  PROVE  r \notin snapshots
BY DEF PaperInv, SnapshotsLast

(* A run that learns and sends nothing goes by less than it went by.       *)
LEMMA LessToGoBy ==
  ASSUME PaperInv, NEW r \in Runs, NEW new \in LocalsType,
         \/ new.sent = run[r].sent
         \/ new.sent = {} /\ new.step \notin {"submit", "persist"},
         new.step = "persist" => \A x \in new.sent : x.status # "none",
         new.todo \subseteq run[r].todo, new.fetched \subseteq run[r].fetched,
         Unsent(r, new) \subseteq Unsent(r, run[r]), ReconcilersSendNothing(r, new),
         new.step \in {"submit", "persist"} =>
           run[r].step \in {"submit", "persist"} \/ Unsent(r, run[r]) = Symbols
  PROVE  Consistent(r, new)
<1>1. Consistent(r, run[r])
  BY DEF PaperInv
<1>2. IdsFresh(r, new)
  BY <1>1 DEF Consistent, IdsFresh
<1>3. AnswersOnce(r, new)
  BY <1>1 DEF Consistent, AnswersOnce
<1>4. Recording(r, new)
  BY <1>1 DEF Consistent, Recording, IdsFresh
<1> QED
  BY <1>2, <1>3, <1>4 DEF Consistent

LEMMA StepOnly ==
  ASSUME PaperInv, NEW r \in Runs, NEW step \in Steps \ {"idle", "cancel", "submit"},
         Goto(r, step), UNCHANGED <<score, orders, positions, rows, snapshots>>,
         run[r].step # "done",
         step = "read" => run[r].step = "reconcile" /\ Command[r] # "reconcile",
         step \in {"read", "failed", "done", "persist"},
         step = "persist" => run[r].step = "submit" /\ \A x \in run[r].sent : x.status # "none"
  PROVE  PaperInv'
<1>1. PICK new \in LocalsType : new = [run[r] EXCEPT !.step = step]
  BY GotoType DEF PaperInv, Shape
<1>2. /\ new.step = step /\ new.sent = run[r].sent /\ new.todo = run[r].todo
      /\ new.fetched = run[r].fetched
  BY <1>1 DEF LocalsType, PaperInv, Shape
<1>3. Consistent(r, run[r])
  BY DEF PaperInv
<1>4. Unsent(r, new) \subseteq Unsent(r, run[r])
  BY <1>2 DEF Unsent
<1>5. ReconcilersSendNothing(r, new)
  BY <1>2, <1>3 DEF Consistent, ReconcilersSendNothing
<1>6. new.step \in {"submit", "persist"} => run[r].step \in {"submit", "persist"}
  BY <1>2
<1>7. Consistent(r, new)
  <2>1. new.todo \subseteq run[r].todo /\ new.fetched \subseteq run[r].fetched
    BY <1>2
  <2>2. new.sent = run[r].sent /\ (new.step = "persist" => \A x \in new.sent : x.status # "none")
    BY <1>2
  <2> QED
    BY <1>4, <1>5, <1>6, <2>1, <2>2, LessToGoBy
<1> QED
  BY <1>1, <1>7, LocalMoves, Unfinished DEF Goto

LEMMA BrokerKeepsInv ==
  ASSUME PaperInv, Broker
  PROVE  PaperInv'
<1>1. Shape /\ Shape'
  BY BrokerShape DEF PaperInv
<1>2. \A i \in Ids : orders[i] \in BookType
  BY <1>1 DEF Shape
<1>3. OrdersMove
  <2>1. ASSUME NEW i \in Ids
        PROVE  /\ CloseMarket => orders'[i] = Ended(orders[i])
               /\ \A j \in Ids : Fill(j) => orders'[i] = IF i = j THEN OneMoreLot(orders[i]) ELSE orders[i]
               /\ \A j \in Ids : CancelTakesEffect(j) =>
                    orders'[i] = IF i = j THEN [orders[i] EXCEPT !.status = "canceled"] ELSE orders[i]
    BY <1>1 DEF CloseMarket, Fill, CancelTakesEffect, Shape
  <2>2. CASE OpenMarket
    BY <2>2 DEF OpenMarket, OrdersMove
  <2>3. CASE CloseMarket
    <3>1. ASSUME NEW order \in BookType
          PROVE  \/ Ended(order) = order
                 \/ /\ order.status \in OpenStatus /\ Ended(order).status # "none"
                    /\ order.filled <= Ended(order).filled
      BY DEF Ended, BookType, OpenStatus
    <3> QED
      BY <1>2, <2>1, <2>3, <3>1 DEF OrdersMove
  <2>4. ASSUME NEW j \in Ids, Fill(j)
        PROVE  OrdersMove
    <3>1. ASSUME NEW order \in BookType
          PROVE  OneMoreLot(order).status # "none" /\ order.filled <= OneMoreLot(order).filled
      BY DEF OneMoreLot, FilledStatus, BookType
    <3>2. orders[j].status \in OpenStatus
      BY <2>4 DEF Fill, OpenOrders
    <3> QED
      BY <1>2, <2>1, <2>4, <3>1, <3>2 DEF OrdersMove
  <2>5. ASSUME NEW j \in Ids, CancelTakesEffect(j)
        PROVE  OrdersMove
    BY <1>2, <2>1, <2>5 DEF OrdersMove, CancelTakesEffect, OpenStatus, BookType
  <2> QED
    BY <2>2, <2>3, <2>4, <2>5 DEF Broker
<1>4. UNCHANGED <<rows, snapshots, run>>
  BY DEF Broker, OpenMarket, CloseMarket, Fill, CancelTakesEffect
<1>5. RowsNeverAhead' /\ RecordedKnown'
  BY <1>1, <1>3, <1>4, MoveKeepsRows DEF PaperInv
<1>6. ASSUME NEW q \in Runs
      PROVE  Consistent(q, run[q])'
  <2>1. PICK locals \in LocalsType : locals = run[q]
    BY <1>1 DEF Shape
  <2>2. Consistent(q, locals)
    BY <2>1 DEF PaperInv
  <2> QED
    BY <1>1, <1>3, <1>4, <2>1, <2>2, MoveKeepsRun, ConsistentAfter
<1>7. SnapshotsLast' /\ SnapshotRunsRecorded'
  <2>1. \A i \in Ids : orders'[i].status # "none" => orders[i].status # "none"
    BY <1>3 DEF OrdersMove, OpenStatus
  <2>2. \A q \in snapshots : \A s \in Symbols : <<q, s>> \in Ids
    BY <1>1 DEF Ids, Shape
  <2> QED
    BY <1>4, <2>1, <2>2 DEF PaperInv, SnapshotsLast, SnapshotRunsRecorded
<1> QED
  BY <1>1, <1>5, <1>6, <1>7 DEF PaperInv

(* The cancel loop of the wrapper.                                         *)
LEMMA CancelKeepsInv ==
  ASSUME PaperInv, NEW r \in Runs, NEW i \in Ids, CancelOne(r, i)
  PROVE  PaperInv'
<1>1. PICK new \in LocalsType : new = [run[r] EXCEPT !.cancels = @ \ {i}]
  BY ReconcilingType DEF PaperInv
<1>2. /\ new.step = run[r].step /\ new.sent = run[r].sent /\ new.todo = run[r].todo
      /\ new.fetched = run[r].fetched /\ new.sells = run[r].sells /\ new.buys = run[r].buys
  BY <1>1 DEF LocalsType, PaperInv, Shape
<1>3. Consistent(r, run[r])
  BY DEF PaperInv
<1>4. Consistent(r, new)
  <2>1. Unsent(r, new) = Unsent(r, run[r])
    BY <1>2 DEF Unsent
  <2>2. ReconcilersSendNothing(r, new)
    BY <1>2, <1>3 DEF Consistent, ReconcilersSendNothing
  <2>3. new.todo \subseteq run[r].todo /\ new.fetched \subseteq run[r].fetched
    BY <1>2
  <2>4. new.step = "cancel"
    BY <1>2 DEF CancelOne
  <2> QED
    BY <1>2, <2>1, <2>2, <2>3, <2>4, LessToGoBy
<1>5. Shape /\ Shape'
  BY RunStepShape DEF PaperInv, RunStep
<1>6. OrdersMove
  <2>1. orders[i].status \in OpenStatus /\ orders[i] \in BookType
    BY <1>5 DEF CancelOne, OpenOrders, Shape
  <2> QED
    BY <1>5, <2>1 DEF CancelOne, OrdersMove, Shape, BookType
<1>7. rows' = rows /\ snapshots' = snapshots /\ Local(r, new)
  BY <1>1 DEF CancelOne
<1>8. RowsNeverAhead' /\ RecordedKnown'
  BY <1>5, <1>6, <1>7, MoveKeepsRows DEF PaperInv
<1>9. Consistent(r, new)'
  BY <1>4, <1>5, <1>6, <1>7, MoveKeepsRun
<1>10. \A q \in Runs \ {r} : \A locals \in LocalsType :
         Consistent(q, locals) => Consistent(q, locals)'
  BY <1>5, <1>6, <1>7, MoveKeepsRun
<1>11. \A q \in snapshots : \A s \in Symbols :
         orders[<<q, s>>].status = "none" => orders'[<<q, s>>].status = "none"
  BY <1>5, <1>6 DEF OrdersMove, OpenStatus, Ids, Shape
<1>12. r \notin snapshots
  BY Unfinished DEF CancelOne
<1> QED
  BY <1>5, <1>7, <1>8, <1>9, <1>10, <1>11, <1>12, RunMoves

(* Reconciling.                                                            *)
LEMMA ToReconcileKnown ==
  ASSUME PaperInv
  PROVE  RowsToReconcile \subseteq Ids /\ \A i \in RowsToReconcile : orders[i].status # "none"
BY DEF PaperInv, RecordedKnown, RowsToReconcile, ReconcileTerminal

LEMMA OpenSessionKeepsInv ==
  ASSUME PaperInv, NEW r \in Runs, OpenSession(r)
  PROVE  PaperInv'
<1>1. PICK new \in LocalsType :
        new = [run[r] EXCEPT !.step = "reconcile", !.score = score, !.todo = RowsToReconcile]
  BY StartingType DEF PaperInv
<1>2. /\ new.step = "reconcile" /\ new.sent = run[r].sent /\ new.todo = RowsToReconcile
      /\ new.fetched = run[r].fetched
  BY <1>1 DEF LocalsType, PaperInv, Shape
<1>3. Consistent(r, run[r])
  BY DEF PaperInv
<1>4. run[r].step \in {"idle", "cancel"}
  BY DEF OpenSession, TradeStarts
<1>5. Unsent(r, new) = Unsent(r, run[r])
  BY <1>2, <1>4 DEF Unsent
<1>6. Consistent(r, new)
  BY <1>2, <1>3, <1>4, <1>5, ToReconcileKnown
     DEF Consistent, IdsFresh, ReconcilersSendNothing, AnswersOnce, Recording
<1> QED
  BY <1>1, <1>4, <1>6, LocalMoves, Unfinished DEF OpenSession

LEMMA StartReconcileKeepsInv ==
  ASSUME PaperInv, NEW r \in Runs, StartReconcile(r)
  PROVE  PaperInv'
<1>1. PICK new \in LocalsType : new = [Fresh EXCEPT !.step = "reconcile", !.todo = RowsToReconcile]
  BY StartingType DEF PaperInv
<1>2. /\ new.step = "reconcile" /\ new.sent = {} /\ new.todo = RowsToReconcile
      /\ new.fetched = {}
  BY <1>1 DEF Fresh
<1>3. Consistent(r, run[r])
  BY DEF PaperInv
<1>4. Command[r] = "reconcile"
  BY DEF StartReconcile
<1>5. Unsent(r, new) = Unsent(r, run[r])
  BY <1>4 DEF Unsent
<1>6. Consistent(r, new)
  BY <1>2, <1>3, <1>5, ToReconcileKnown
     DEF Consistent, IdsFresh, ReconcilersSendNothing, AnswersOnce, Recording
<1> QED
  BY <1>1, <1>4, <1>6, LocalMoves, Unfinished DEF StartReconcile

LEMMA StartRotateKeepsInv ==
  ASSUME PaperInv, NEW r \in Runs, StartRotate(r)
  PROVE  PaperInv'
<1>1. PICK new \in LocalsType :
        new = [Fresh EXCEPT !.step = "cancel", !.midday = (market = "open"), !.cancels = StaleOrders]
  BY StartingType DEF PaperInv
<1>2. /\ new.step = "cancel" /\ new.sent = {} /\ new.todo = {} /\ new.fetched = {}
  BY <1>1 DEF Fresh
<1>3. Unsent(r, new) = Unsent(r, run[r]) /\ ReconcilersSendNothing(r, new)
  BY <1>2 DEF Unsent, StartRotate, ReconcilersSendNothing
<1>4. Consistent(r, new)
  BY <1>2, <1>3, LessToGoBy
<1> QED
  BY <1>1, <1>4, LocalMoves, Unfinished DEF StartRotate

LEMMA FetchKeepsInv ==
  ASSUME PaperInv, NEW r \in Runs, NEW i \in Ids, FetchOrder(r, i)
  PROVE  PaperInv'
<1>1. PICK new \in LocalsType : new = [run[r] EXCEPT !.todo = @ \ {i}, !.fetched = {Answer(i)}]
  BY ReconcilingType DEF PaperInv
<1>2. /\ new.step = "reconcile" /\ new.sent = run[r].sent /\ new.todo = run[r].todo \ {i}
      /\ new.fetched = {Answer(i)}
  BY <1>1 DEF LocalsType, PaperInv, Shape, FetchOrder
<1>3. Consistent(r, run[r]) /\ run[r].step = "reconcile"
  BY DEF PaperInv, FetchOrder
<1>4. Once(Answer(i))
  <2>1. orders[i].status # "none" /\ orders[i].status \in BrokerStatus /\ orders[i].filled \in Nat
    BY <1>3 DEF Consistent, AnswersOnce, FetchOrder, PaperInv, Shape, BookType
  <2> QED
    BY <2>1 DEF Once, Told, Answer, Translated, BrokerStatus
<1>5. Unsent(r, new) = Unsent(r, run[r])
  BY <1>2, <1>3 DEF Unsent
<1>6. AnswersOnce(r, new)
  BY <1>2, <1>3, <1>4 DEF Consistent, AnswersOnce
<1>7. Consistent(r, new)
  BY <1>2, <1>3, <1>5, <1>6 DEF Consistent, IdsFresh, ReconcilersSendNothing, Recording
<1> QED
  BY <1>1, <1>3, <1>7, LocalMoves, Unfinished DEF FetchOrder

LEMMA SkipKeepsInv ==
  ASSUME PaperInv, NEW r \in Runs, NEW i \in Ids, SkipOrder(r, i)
  PROVE  PaperInv'
<1>1. PICK new \in LocalsType : new = [run[r] EXCEPT !.todo = @ \ {i}]
  BY ReconcilingType DEF PaperInv
<1>2. /\ new.step = "reconcile" /\ new.sent = run[r].sent /\ new.todo \subseteq run[r].todo
      /\ new.fetched \subseteq run[r].fetched
  BY <1>1 DEF LocalsType, PaperInv, Shape, SkipOrder
<1>3. Consistent(r, run[r]) /\ run[r].step = "reconcile"
  BY DEF PaperInv, SkipOrder
<1>4. Unsent(r, new) = Unsent(r, run[r]) /\ ReconcilersSendNothing(r, new)
  BY <1>2, <1>3 DEF Unsent, Consistent, ReconcilersSendNothing
<1>5. Consistent(r, new)
  BY <1>2, <1>4, LessToGoBy
<1> QED
  BY <1>1, <1>3, <1>5, LocalMoves, Unfinished DEF SkipOrder

(* The update may come from an old answer; it claims no more than that.    *)
LEMMA UpdateKeepsInv ==
  ASSUME PaperInv, NEW r \in Runs, UpdateRow(r)
  PROVE  PaperInv'
<1>1. PICK f \in run[r].fetched :
        rows' = [rows EXCEPT ![f.id] = [status |-> f.status, filled |-> f.filled]]
  BY DEF UpdateRow
<1>2. f \in [id: Ids, status: RowStatus, filled: Nat]
  BY DEF PaperInv, Shape, LocalsType
<1>3. PICK new \in LocalsType : new = [run[r] EXCEPT !.fetched = {}]
  BY <1>2, ReconcilingType DEF PaperInv
<1>4. /\ new.step = "reconcile" /\ new.sent = run[r].sent /\ new.todo = run[r].todo
      /\ new.fetched = {}
  BY <1>3 DEF LocalsType, PaperInv, Shape, UpdateRow
<1>5. Shape /\ Shape'
  BY RunStepShape DEF PaperInv, RunStep, Reconcile
<1>6. Consistent(r, run[r]) /\ run[r].step = "reconcile"
  BY DEF PaperInv, UpdateRow
<1>7. Once(f)
  BY <1>6 DEF Consistent, AnswersOnce
<1>8. /\ rows'[f.id] = [status |-> f.status, filled |-> f.filled]
      /\ \A i \in Ids : i # f.id => rows'[i] = rows[i]
      /\ orders' = orders /\ snapshots' = snapshots /\ Local(r, new)
  BY <1>1, <1>2, <1>3, <1>5 DEF Shape, UpdateRow
<1>9. \A i \in Ids : \/ rows'[i] = rows[i]
                     \/ rows'[i].status # "none" /\ orders[i].status # "none"
  BY <1>7, <1>8 DEF Once, Told
<1>10. RowsNeverAhead' /\ RecordedKnown'
  <2>1. f.status \in {"filled", "expired"} => Agrees(f.id)'
    BY <1>7, <1>8 DEF Once, Told, Agrees
  <2> QED
    BY <1>2, <1>7, <1>8, <2>1 DEF PaperInv, RowsNeverAhead, RecordedKnown, Agrees, Once, Told
<1>11. Consistent(r, new)'
  <2>1. Unsent(r, new) = Unsent(r, run[r]) /\ Unsent(r, new) \subseteq Symbols
    BY <1>4, <1>6 DEF Unsent, LocalsType
  <2>2. ASSUME NEW s \in Unsent(r, new)
        PROVE  orders'[<<r, s>>].status = "none" /\ rows'[<<r, s>>].status = "none"
    <3>1. <<r, s>> \in Ids
      BY <2>1 DEF Ids
    <3>2. orders[<<r, s>>].status = "none" /\ rows[<<r, s>>].status = "none"
      BY <1>6, <2>1 DEF Consistent, IdsFresh
    <3> QED
      BY <1>8, <1>9, <3>1, <3>2
  <2>3. IdsFresh(r, new)'
    BY <2>2 DEF IdsFresh
  <2>4. AnswersOnce(r, new)'
    <3>1. AnswersOnce(r, new)
      BY <1>4, <1>6 DEF Consistent, AnswersOnce
    <3> QED
      BY <1>8, <3>1, AnswersKept
  <2>5. ReconcilersSendNothing(r, new)' /\ Recording(r, new)'
    BY <1>4, <1>6, <1>8 DEF Consistent, ReconcilersSendNothing, Recording
  <2> QED
    BY <2>3, <2>4, <2>5 DEF Consistent
<1>12. \A q \in Runs \ {r} : \A locals \in LocalsType :
         Consistent(q, locals) => Consistent(q, locals)'
  BY <1>8, <1>9, RowWrittenKeepsOthers DEF RowWritten
<1>13. r \notin snapshots
  BY <1>6, Unfinished
<1>14. \A q \in snapshots : \A s \in Symbols :
         orders[<<q, s>>].status = "none" => orders'[<<q, s>>].status = "none"
  BY <1>8
<1>15. \A i \in Ids : rows[i].status # "none" => rows'[i].status # "none"
  BY <1>9
<1> QED
  BY <1>5, <1>8, <1>10, <1>11, <1>12, <1>13, <1>14, <1>15, RunMoves

-----------------------------------------------------------------------------
(* Trading.                                                                *)
LEMMA ReadingFields ==
  ASSUME PaperInv, NEW r \in Runs, ReadHeld(r) \/ ReadQuantities(r)
  PROVE  /\ run'[r] \in LocalsType /\ Local(r, run'[r])
         /\ run'[r].sent = run[r].sent /\ run'[r].todo = run[r].todo
         /\ run'[r].fetched = run[r].fetched
         /\ run'[r].step = IF ReadHeld(r) THEN "quantities" ELSE "submit"
<1>1. run[r] \in LocalsType /\ run \in [Runs -> LocalsType] /\ run'[r] \in LocalsType
  BY ReadingType DEF PaperInv, Shape
<1>2. Local(r, run'[r])
  BY <1>1 DEF ReadHeld, ReadQuantities, Local
<1>3. CASE ReadHeld(r)
  BY <1>1, <1>2, <1>3 DEF ReadHeld, Local, LocalsType
<1>4. CASE ReadQuantities(r)
  BY <1>1, <1>2, <1>4 DEF ReadHeld, ReadQuantities, Local, LocalsType
<1> QED
  BY <1>1, <1>2, <1>3, <1>4

LEMMA ReadingKeepsInv ==
  ASSUME PaperInv, NEW r \in Runs, ReadHeld(r) \/ ReadQuantities(r)
  PROVE  PaperInv'
<1>1. PICK new \in LocalsType : new = run'[r]
  BY ReadingFields
<1>2. /\ new.sent = run[r].sent /\ new.todo \subseteq run[r].todo
      /\ new.fetched \subseteq run[r].fetched /\ new.step \in {"quantities", "submit"}
      /\ Local(r, new)
  BY <1>1, ReadingFields
<1>3. run[r].step \in {"read", "quantities"}
  BY DEF ReadHeld, ReadQuantities
<1>4. Command[r] # "reconcile"
  BY <1>3 DEF PaperInv, Consistent, ReconcilersSendNothing
<1>5. Unsent(r, run[r]) = Symbols
  BY <1>3 DEF Unsent
<1>6. Unsent(r, new) \subseteq Symbols /\ ReconcilersSendNothing(r, new)
  BY <1>4 DEF Unsent, LocalsType, ReconcilersSendNothing
<1>7. Consistent(r, new)
  BY <1>2, <1>5, <1>6, LessToGoBy
<1>8. UNCHANGED <<score, orders, positions, rows, snapshots>>
  BY DEF ReadHeld, ReadQuantities
<1> QED
  BY <1>2, <1>3, <1>7, <1>8, LocalMoves, Unfinished

(* An order reaches the broker or does not, whatever its answer says.      *)
LEMMA SubmitKeepsInv ==
  ASSUME PaperInv, NEW r \in Runs, NEW o \in Todo(r), NEW answer \in {"none", "rejected"},
         Submit(r, o, answer), Placed(r, o) \/ (answer = "rejected" /\ UNCHANGED orders), Shape'
  PROVE  PaperInv'
<1>1. run[r] \in LocalsType /\ run[r].step = "submit" /\ Shape
  BY DEF PaperInv, Shape, Submit
<1>2. o.symbol \in Symbols /\ o.symbol \in run[r].sells \cup run[r].buys
  BY <1>1 DEF Todo, LocalsType
<1> DEFINE x == [symbol |-> o.symbol, status |-> answer, filled |-> 0]
<1>3. x \in SentType
  BY <1>2 DEF SentType, RowStatus
<1>4. PICK new \in LocalsType :
        new = [run[r] EXCEPT !.sells = @ \ {o.symbol}, !.buys = @ \ {o.symbol}, !.sent = @ \cup {x}]
  BY <1>1, <1>3, SendingType
<1>5. /\ new.step = "submit" /\ new.sent = run[r].sent \cup {x} /\ new.todo = run[r].todo
      /\ new.fetched = run[r].fetched
      /\ new.sells = run[r].sells \ {o.symbol} /\ new.buys = run[r].buys \ {o.symbol}
  BY <1>1, <1>4 DEF LocalsType
<1>6. Local(r, new) /\ UNCHANGED <<rows, snapshots>>
  BY <1>4 DEF Submit
<1>7. Consistent(r, run[r]) /\ Command[r] # "reconcile"
  BY <1>1 DEF PaperInv, Consistent, ReconcilersSendNothing
<1>8. Unsent(r, run[r]) = run[r].sells \cup run[r].buys /\ Unsent(r, new) = new.sells \cup new.buys
  BY <1>1, <1>5, <1>7 DEF Unsent
<1>9. /\ <<r, o.symbol>> \in Ids
      /\ orders[<<r, o.symbol>>].status = "none" /\ rows[<<r, o.symbol>>].status = "none"
  BY <1>2, <1>7, <1>8 DEF Consistent, IdsFresh, Ids
<1>10. /\ \A i \in Ids : i # <<r, o.symbol>> => orders'[i] = orders[i]
       /\ answer = "none" => orders'[<<r, o.symbol>>].status # "none"
  BY <1>1, <1>9 DEF Placed, Shape
<1>11. NewOrder(r, o.symbol)
  BY <1>9, <1>10 DEF NewOrder
<1>12. RowsNeverAhead' /\ RecordedKnown'
  BY <1>2, <1>6, <1>11, NewOrderKeepsRows DEF PaperInv
<1>13. \A q \in Runs \ {r} : \A locals \in LocalsType :
         Consistent(q, locals) => Consistent(q, locals)'
  BY <1>2, <1>6, <1>11, NewOrderKeepsOthers
<1>14. Consistent(r, new)'
  <2>1. IdsFresh(r, new)'
    <3>1. ASSUME NEW s \in Unsent(r, new)
          PROVE  orders'[<<r, s>>].status = "none" /\ rows'[<<r, s>>].status = "none"
      <4>1. s # o.symbol /\ s \in Unsent(r, run[r]) /\ s \in Symbols
        BY <1>1, <1>5, <1>8 DEF LocalsType
      <4> QED
        BY <1>6, <1>7, <1>10, <4>1 DEF Consistent, IdsFresh, Ids
    <3> QED
      BY <3>1 DEF IdsFresh
  <2>2. ReconcilersSendNothing(r, new)'
    BY <1>7 DEF ReconcilersSendNothing
  <2>3. AnswersOnce(r, new)'
    <3>1. ASSUME NEW y \in new.sent
          PROVE  SentOnce(r, y)'
      <4>1. y.symbol \in Symbols /\ (y = x \/ SentOnce(r, y))
        BY <1>5, <1>7 DEF Consistent, AnswersOnce, LocalsType
      <4>2. CASE y = x
        <5>1. x.symbol = o.symbol /\ x.status = answer /\ x.filled = 0
          OBVIOUS
        <5>2. orders'[<<r, o.symbol>>].filled \in Nat
          BY <1>9 DEF Shape, BookType
        <5> QED
          BY <1>10, <4>2, <5>1, <5>2 DEF SentOnce, Told
      <4>3. CASE SentOnce(r, y) /\ y.symbol = o.symbol
        BY <1>9, <4>3 DEF SentOnce, Told
      <4>4. CASE SentOnce(r, y) /\ y.symbol # o.symbol
        BY <1>1, <1>10, <4>1, <4>4 DEF SentOnce, Told, Ids
      <4> QED
        BY <4>1, <4>2, <4>3, <4>4
    <3>2. \A i \in new.todo : orders'[i].status # "none"
      BY <1>1, <1>5, <1>7, <1>9, <1>10 DEF Consistent, AnswersOnce, LocalsType
    <3>3. \A f \in new.fetched : Once(f)'
      BY <1>1, <1>5, <1>7, <1>9, <1>10 DEF Consistent, AnswersOnce, Once, Told, LocalsType
    <3> QED
      BY <1>5, <3>1, <3>2, <3>3 DEF AnswersOnce
  <2>4. Recording(r, new)'
    <3>1. ASSUME NEW s \in Symbols, orders'[<<r, s>>].status # "none"
          PROVE  rows[<<r, s>>].status # "none" \/ \E y \in new.sent : y.symbol = s
      <4>1. CASE s = o.symbol
        <5>1. x \in new.sent /\ x.symbol = o.symbol
          BY <1>5
        <5> QED
          BY <4>1, <5>1
      <4>2. CASE s # o.symbol
        BY <1>1, <1>5, <1>7, <1>10, <3>1, <4>2 DEF Consistent, Recording, Ids
      <4> QED
        BY <4>1, <4>2
    <3> QED
      BY <1>6, <3>1 DEF Recording
  <2> QED
    BY <2>1, <2>2, <2>3, <2>4 DEF Consistent
<1>15. r \notin snapshots
  BY <1>1, Unfinished
<1>16. \A q \in snapshots : \A s \in Symbols :
         orders[<<q, s>>].status = "none" => orders'[<<q, s>>].status = "none"
  BY <1>1, <1>10, <1>15 DEF Ids, Shape
<1> QED
  BY <1>6, <1>12, <1>13, <1>14, <1>15, <1>16, RunMoves

(* The answer to an order that was sent, or the report that none came.     *)
LEMMA AnswerKeepsInv ==
  ASSUME PaperInv, NEW r \in Runs, Receive(r) \/ LoseAnswer(r)
  PROVE  PaperInv'
<1>1. run[r] \in LocalsType /\ Shape /\ Consistent(r, run[r])
  BY DEF PaperInv, Shape
<1>2. PICK x \in Awaited(r), status \in RowStatus, filled \in Nat :
        /\ x \in SentType /\ run[r].step = "submit"
        /\ Answered(r, x, status, filled)
        /\ \/ status = "rejected" /\ filled = 0
           \/ /\ status = Accepted(orders[<<r, x.symbol>>].status)
              /\ filled = orders[<<r, x.symbol>>].filled
  BY <1>1, AnswerSent
<1>3. PICK y \in SentType : y = [symbol |-> x.symbol, status |-> status, filled |-> filled]
  BY <1>2 DEF SentType
<1>4. y.symbol = x.symbol /\ y.status = status /\ y.filled = filled
  BY <1>3
<1>5. PICK new \in LocalsType : new = [run[r] EXCEPT !.sent = (@ \ {x}) \cup {y}]
  BY <1>1, AnsweredType
<1>6. /\ new.step = "submit" /\ new.sent = (run[r].sent \ {x}) \cup {y} /\ new.todo = run[r].todo
      /\ new.fetched = run[r].fetched /\ new.sells = run[r].sells /\ new.buys = run[r].buys
  BY <1>1, <1>2, <1>5 DEF LocalsType
<1>7. /\ Local(r, new) /\ UNCHANGED <<score, orders, positions, rows, snapshots>>
  BY <1>2, <1>3, <1>5 DEF Answered
<1>8. SentOnce(r, y)
  <2>1. Told(orders[<<r, x.symbol>>], x.status, x.filled)
    BY <1>1 DEF Awaited, Consistent, AnswersOnce, SentOnce
  <2>2. <<r, x.symbol>> \in Ids
    BY <1>2 DEF Ids, SentType
  <2>3. orders[<<r, x.symbol>>].filled \in Nat
    BY <1>1, <2>2 DEF Shape, BookType
  <2> QED
    <3>1. CASE status = "rejected" /\ filled = 0
      BY <1>4, <3>1 DEF SentOnce
    <3>2. CASE /\ status = Accepted(orders[<<r, x.symbol>>].status)
               /\ filled = orders[<<r, x.symbol>>].filled
      <4>1. status # "rejected" => Told(orders[<<r, x.symbol>>], status, filled)
        BY <2>1, <2>3, <3>2 DEF Told, Accepted, Translated
      <4>2. status # "rejected"
        BY <2>2, <1>1, <3>2 DEF Accepted, Translated, Shape, BookType, BrokerStatus
      <4> QED
        BY <1>4, <4>1, <4>2 DEF SentOnce
    <3> QED
      BY <1>2, <3>1, <3>2
<1>9. Consistent(r, new)
  <2>1. IdsFresh(r, new)
    BY <1>1, <1>2, <1>6 DEF Consistent, IdsFresh, Unsent
  <2>2. ReconcilersSendNothing(r, new)
    BY <1>1, <1>2, <1>6 DEF Consistent, ReconcilersSendNothing
  <2>3. AnswersOnce(r, new)
    BY <1>1, <1>6, <1>8 DEF Consistent, AnswersOnce
  <2>4. Recording(r, new)
    <3>1. ASSUME NEW s \in Symbols, orders[<<r, s>>].status # "none"
          PROVE  rows[<<r, s>>].status # "none" \/ \E z \in new.sent : z.symbol = s
      <4>1. rows[<<r, s>>].status # "none" \/ \E z \in run[r].sent : z.symbol = s
        BY <1>1, <1>2, <3>1 DEF Consistent, Recording
      <4>2. \A z \in run[r].sent : \E w \in new.sent : w.symbol = z.symbol
        BY <1>4, <1>6
      <4> QED
        BY <4>1, <4>2
    <3> QED
      BY <3>1 DEF Recording
  <2> QED
    BY <2>1, <2>2, <2>3, <2>4 DEF Consistent
<1>10. r \notin snapshots
  BY <1>2, Unfinished
<1> QED
  BY <1>7, <1>9, <1>10, LocalMoves

(* Persisting: each row says what the broker answered.                     *)
LEMMA WriteKeepsInv ==
  ASSUME PaperInv, NEW r \in Runs, WriteOrder(r)
  PROVE  PaperInv'
<1>1. run[r] \in LocalsType /\ run[r].step = "persist" /\ Shape
  BY DEF PaperInv, Shape, WriteOrder
<1>2. PICK x \in run[r].sent :
        /\ rows' = [rows EXCEPT ![<<r, x.symbol>>] = [status |-> x.status, filled |-> x.filled]]
        /\ Local(r, [run[r] EXCEPT !.sent = @ \ {x}])
  BY DEF WriteOrder
<1>3. x \in SentType /\ <<r, x.symbol>> \in Ids
  BY <1>1 DEF LocalsType, SentType, Ids
<1>4. PICK new \in LocalsType : new = [run[r] EXCEPT !.sent = @ \ {x}]
  BY <1>1, <1>3, SendingType
<1>5. /\ new.step = "persist" /\ new.sent = run[r].sent \ {x} /\ new.todo = run[r].todo
      /\ new.fetched = run[r].fetched
  BY <1>1, <1>4 DEF LocalsType
<1>6. Shape'
  BY <1>1, RunStepShape DEF RunStep, Trade
<1>7. Consistent(r, run[r]) /\ Command[r] # "reconcile"
  BY <1>1 DEF PaperInv, Consistent, ReconcilersSendNothing
<1>8. /\ rows'[<<r, x.symbol>>] = [status |-> x.status, filled |-> x.filled]
      /\ \A i \in Ids : i # <<r, x.symbol>> => rows'[i] = rows[i]
      /\ orders' = orders /\ snapshots' = snapshots /\ Local(r, new)
  BY <1>1, <1>2, <1>3, <1>4 DEF Shape, WriteOrder
<1>9. RowsNeverAhead' /\ RecordedKnown'
  <2>1. orders[<<r, x.symbol>>].filled \in Nat
    BY <1>1, <1>3 DEF Shape, BookType
  <2>2. SentOnce(r, x) /\ x.filled \in Nat
    BY <1>3, <1>7 DEF Consistent, AnswersOnce, SentType
  <2>3. /\ x.filled <= orders[<<r, x.symbol>>].filled
        /\ x.status \in {"filled", "expired"} =>
             /\ orders[<<r, x.symbol>>].status = x.status
             /\ orders[<<r, x.symbol>>].filled = x.filled
        /\ x.status # "rejected" => orders[<<r, x.symbol>>].status # "none"
    BY <2>1, <2>2 DEF SentOnce, Told
  <2>4. ASSUME NEW i \in Ids
        PROVE  /\ rows'[i].status # "none" =>
                    /\ rows'[i].filled <= orders[i].filled
                    /\ rows'[i].status \in {"filled", "expired"} => Agrees(i)'
               /\ rows'[i].status \notin {"none", "rejected"} => orders[i].status # "none"
    <3>1. CASE i = <<r, x.symbol>>
      BY <1>8, <2>3, <3>1 DEF Agrees
    <3>2. CASE i # <<r, x.symbol>>
      BY <1>8, <3>2 DEF PaperInv, RowsNeverAhead, RecordedKnown, Agrees
    <3> QED
      BY <3>1, <3>2
  <2> QED
    BY <1>8, <2>4 DEF RowsNeverAhead, RecordedKnown
<1>10. \A i \in Ids : \/ rows'[i] = rows[i]
                      \/ rows'[i].status # "none" /\ i[1] = r
  <2>1. x.status # "none"
    BY <1>1, <1>7 DEF Consistent, AnswersOnce
  <2> QED
    BY <1>3, <1>8, <2>1
<1>11. Consistent(r, new)'
  <2>1. Unsent(r, new) = {}
    BY <1>5, <1>7 DEF Unsent
  <2>2. IdsFresh(r, new)'
    BY <2>1 DEF IdsFresh
  <2>3. ReconcilersSendNothing(r, new)' /\ AnswersOnce(r, new)'
    <3>1. AnswersOnce(r, new)
      BY <1>1, <1>5, <1>7 DEF Consistent, AnswersOnce
    <3> QED
      BY <1>5, <1>7, <1>8, <3>1, AnswersKept DEF ReconcilersSendNothing
  <2>4. Recording(r, new)'
    <3>1. ASSUME NEW s \in Symbols, orders[<<r, s>>].status # "none"
          PROVE  rows'[<<r, s>>].status # "none" \/ \E y \in new.sent : y.symbol = s
      <4>1. CASE s = x.symbol
        <5>1. x.status # "none"
          BY <1>1, <1>7 DEF Consistent, AnswersOnce
        <5> QED
          BY <1>3, <1>8, <4>1, <5>1
      <4>2. CASE s # x.symbol
        <5>1. rows[<<r, s>>].status # "none" \/ \E y \in run[r].sent : y.symbol = s
          BY <1>1, <1>7, <3>1 DEF Consistent, Recording
        <5> QED
          BY <1>5, <1>8, <4>2, <5>1 DEF Ids
      <4> QED
        BY <4>1, <4>2
    <3> QED
      BY <1>8, <3>1 DEF Recording
  <2> QED
    BY <2>2, <2>3, <2>4 DEF Consistent
<1>12. \A q \in Runs \ {r} : \A locals \in LocalsType :
         Consistent(q, locals) => Consistent(q, locals)'
  BY <1>8, <1>10, RowWrittenKeepsOthers DEF RowWritten
<1>13. r \notin snapshots
  BY <1>1, Unfinished
<1> QED
  BY <1>6, <1>8, <1>9, <1>10, <1>11, <1>12, <1>13, RunMoves

LEMMA SnapshotKeepsInv ==
  ASSUME PaperInv, NEW r \in Runs, SnapshotEquity(r)
  PROVE  PaperInv'
<1>1. PICK new \in LocalsType : new = [run[r] EXCEPT !.step = "done"]
  BY GotoType DEF PaperInv, Shape, Steps
<1>2. /\ new.step = "done" /\ new.sent = {} /\ new.todo = run[r].todo
      /\ new.fetched = run[r].fetched
  BY <1>1 DEF LocalsType, PaperInv, Shape, SnapshotEquity
<1>3. Consistent(r, run[r]) /\ Command[r] # "reconcile"
  BY DEF PaperInv, Consistent, ReconcilersSendNothing, SnapshotEquity
<1>4. /\ run' \in [Runs -> LocalsType] /\ run'[r] = new
      /\ \A q \in Runs : q # r => run'[q] = run[q]
  BY <1>1, LocalStep DEF SnapshotEquity, Goto, PaperInv, Shape
<1>5. UNCHANGED <<score, orders, positions, rows>> /\ snapshots' = snapshots \cup {r}
  BY DEF SnapshotEquity
<1>6. Shape'
  BY RunStepShape DEF PaperInv, RunStep, Trade
<1>7. RowsNeverAhead' /\ RecordedKnown'
  BY <1>5 DEF PaperInv, RowsNeverAhead, RecordedKnown, Agrees
<1>8. SnapshotsLast'
  BY <1>2, <1>3, <1>4, <1>5 DEF PaperInv, SnapshotsLast, Shape
<1>9. SnapshotRunsRecorded'
  <2>1. \A s \in Symbols : orders[<<r, s>>].status # "none" => rows[<<r, s>>].status # "none"
    BY <1>3 DEF Consistent, Recording, SnapshotEquity
  <2> QED
    BY <1>5, <2>1 DEF PaperInv, SnapshotRunsRecorded
<1>10. ASSUME NEW q \in Runs
       PROVE  Consistent(q, run[q])'
  <2>1. Consistent(r, new)
    <3>1. Unsent(r, new) = {}
      BY <1>2, <1>3 DEF Unsent
    <3> QED
      BY <1>2, <1>3, <3>1
         DEF Consistent, IdsFresh, ReconcilersSendNothing, AnswersOnce, Recording
  <2>2. PICK locals \in LocalsType : locals = IF q = r THEN new ELSE run[q]
    BY DEF PaperInv, Shape
  <2>3. Consistent(q, locals)
    BY <2>1, <2>2 DEF PaperInv
  <2>4. Consistent(q, locals)'
    BY <1>5, <2>3
       DEF Consistent, IdsFresh, Unsent, ReconcilersSendNothing, AnswersOnce, Once, SentOnce, Told, Recording
  <2> QED
    BY <1>4, <2>2, <2>4, ConsistentAfter
<1> QED
  BY <1>6, <1>7, <1>8, <1>9, <1>10 DEF PaperInv

LEMMA CrashKeepsInv ==
  ASSUME PaperInv, NEW r \in Runs, Crash(r)
  PROVE  PaperInv'
<1>1. PICK new \in LocalsType : new = [Fresh EXCEPT !.step = "failed", !.midday = run[r].midday]
  BY StartingType DEF PaperInv
<1>2. /\ new.step = "failed" /\ new.sent = {} /\ new.todo = {} /\ new.fetched = {}
  BY <1>1 DEF Fresh
<1>3. Unsent(r, new) \subseteq Unsent(r, run[r]) /\ ReconcilersSendNothing(r, new)
  BY <1>2 DEF Unsent, ReconcilersSendNothing
<1>4. Consistent(r, new)
  BY <1>2, <1>3, LessToGoBy
<1>5. r \notin snapshots
  BY Unfinished DEF Crash, Active
<1> QED
  BY <1>1, <1>4, <1>5, LocalMoves DEF Crash

-----------------------------------------------------------------------------
LEMMA RunStepKeepsInv ==
  ASSUME PaperInv, NEW r \in Runs, RunStep(r)
  PROVE  PaperInv'
<1>1. Shape'
  BY RunStepShape DEF PaperInv
<1>2. Consistent(r, run[r])
  BY DEF PaperInv
<1>3. CASE StartRotate(r)
  BY <1>3, StartRotateKeepsInv
<1>4. CASE NoCandidates(r)
  BY <1>4, StepOnly DEF NoCandidates, TradeStarts, Steps
<1>5. CASE OpenSession(r)
  BY <1>5, OpenSessionKeepsInv
<1>6. CASE StartReconcile(r)
  BY <1>6, StartReconcileKeepsInv
<1>7. ASSUME NEW i \in Ids, CancelOne(r, i) \/ CancelRaises(r, i)
      PROVE  PaperInv'
  BY <1>7, CancelKeepsInv, StepOnly DEF CancelRaises, Steps
<1>8. ASSUME NEW i \in Ids, FetchOrder(r, i) \/ SkipOrder(r, i)
      PROVE  PaperInv'
  BY <1>8, FetchKeepsInv, SkipKeepsInv
<1>9. CASE UpdateRow(r)
  BY <1>9, UpdateKeepsInv
<1>10. CASE EndReconcile(r)
  <2>1. CASE Command[r] = "reconcile"
    BY <1>10, <2>1, StepOnly DEF EndReconcile, Steps
  <2>2. CASE Command[r] # "reconcile"
    BY <1>10, <2>2, StepOnly DEF EndReconcile, Steps
  <2> QED
    BY <2>1, <2>2
<1>11. CASE ReadHeld(r) \/ ReadQuantities(r)
  BY <1>11, ReadingKeepsInv
<1>12. ASSUME NEW o \in Todo(r), Send(r, o) \/ SubmitRefused(r, o)
       PROVE  PaperInv'
  BY <1>1, <1>12, SubmitKeepsInv DEF Send, SubmitRefused
<1>13. CASE EndLoop(r)
  BY <1>13, StepOnly DEF EndLoop, Awaited, Steps
<1>17. CASE Receive(r) \/ LoseAnswer(r)
  BY <1>17, AnswerKeepsInv
<1>14. CASE WriteOrder(r)
  BY <1>14, WriteKeepsInv
<1>15. CASE SnapshotEquity(r)
  BY <1>15, SnapshotKeepsInv
<1>16. CASE Crash(r)
  BY <1>16, CrashKeepsInv
<1> QED
  BY <1>3, <1>4, <1>5, <1>6, <1>7, <1>8, <1>9, <1>10, <1>11, <1>12, <1>13, <1>14, <1>15, <1>16,
     <1>17
     DEF RunStep, Reconcile, Trade

LEMMA PaperInvAlways == PaperSpec => []PaperInv
<1>1. PaperInv /\ [PaperNext]_paperVars => PaperInv'
  <2> SUFFICES ASSUME PaperInv, [PaperNext]_paperVars
               PROVE  PaperInv'
    OBVIOUS
  <2>1. CASE Broker
    BY <2>1, BrokerKeepsInv
  <2>2. ASSUME NEW r \in Runs, RunStep(r)
        PROVE  PaperInv'
    BY <2>2, RunStepKeepsInv
  <2>3. CASE UNCHANGED paperVars
    BY <2>3
       DEF paperVars, PaperInv, Shape, RowsNeverAhead, Agrees, RecordedKnown, SnapshotsLast,
           SnapshotRunsRecorded, Consistent, IdsFresh, Unsent, ReconcilersSendNothing,
           AnswersOnce, Once, SentOnce, Told, Recording
  <2> QED
    BY <2>1, <2>2, <2>3 DEF PaperNext
<1> QED
  BY <1>1, InitPaperInv, PTL DEF PaperSpec

(* Whatever reconciles and trades run beside each other, crash or lose an  *)
(* answer, a row of paper_orders never says more was filled than the       *)
(* broker filled, and one that says filled or expired says exactly what    *)
(* the broker says (cli.py:2076-2103, writers.py:402-427).                 *)
THEOREM RowsNeverAheadAlways == PaperSpec => []RowsNeverAhead
BY PaperInvAlways, PTL DEF PaperInv

(* A run whose equity snapshot is written has a row for every order of its *)
(* own that the broker took, also for those whose answer was lost          *)
(* (cli.py:1500-1563).                                                     *)
THEOREM SnapshotsRecorded == PaperSpec => []SnapshotRunsRecorded
BY PaperInvAlways, PTL DEF PaperInv

-----------------------------------------------------------------------------
(* The account.  The lots that open orders of one side of a symbol have    *)
(* still to fill, as a sum over all ids, of a book.                        *)
LotsOf(book, s, side) ==
  [i \in Ids |-> IF book[i].status \in OpenStatus /\ i[2] = s /\ book[i].side = side
                 THEN book[i].qty - book[i].filled ELSE 0]
Owed(book, s, side) == Total(LotsOf(book, s, side), Ids)

(* An order is not filled past its size, and an open one not to the end;   *)
(* open SELLs are covered by the position, and a SELL yet to come is of    *)
(* something.                                                              *)
OrderGood(order) ==
  /\ order.qty \in Nat /\ order.filled <= order.qty
  /\ order.status \in OpenStatus => order.filled < order.qty
SellsHeld(book, pos) == \A s \in Symbols : Owed(book, s, "sell") <= pos[s]
Sellable(locals) == locals.step = "submit" => \A s \in locals.sells : locals.quantity[s] >= 1

AccountInv ==
  /\ market \in {"open", "closed"} /\ night \in 0..LastNight /\ session \in BOOLEAN
  /\ \A i \in Ids : OrderGood(orders[i])
  /\ SellsHeld(orders, positions)
  /\ \A r \in Runs : Sellable(run[r])

(* Where a rotation that started out of hours is: it cancels everything    *)
(* that is open before the market opens, nothing is open until it submits, *)
(* and what it is about to buy is neither held nor on order.               *)
Rotation(locals, book, pos, now) ==
  /\ locals.step = "cancel" =>
       now = "closed" /\ \A i \in Ids : book[i].status \in OpenStatus => i \in locals.cancels
  /\ locals.step \in {"reconcile", "read", "quantities"} =>
       \A i \in Ids : book[i].status \notin OpenStatus
  /\ locals.step \in {"quantities", "submit"} =>
       \A s \in locals.buys : pos[s] <= 0 /\ Owed(book, s, "buy") = 0

Running(locals) == locals.step \notin {"idle", "done", "failed"}

RotateInv ==
  /\ \A r \in Runs : run[r].step = "idle" \/ Command[r] = "reconcile" => ~run[r].midday
  /\ \A q, r \in Runs :
       Command[q] = "rotate" /\ Command[r] = "rotate" /\ Running(run[q]) /\ Running(run[r]) => q = r
  /\ OutOfHours =>
       /\ \A s \in Symbols : positions[s] + Owed(orders, s, "buy") <= Target
       /\ \A r \in Runs : Command[r] = "rotate" => Rotation(run[r], orders, positions, market)

-----------------------------------------------------------------------------
(* The sums.  The properties add up the open orders of one side of a       *)
(* symbol, Owed all ids.                                                   *)
LEMMA IdsFinite == IsFiniteSet(Ids)
BY PaperAssumption, FS_Product DEF Ids

LEMMA LotsType ==
  ASSUME NEW book \in [Ids -> BookType], NEW s, NEW side
  PROVE  \A i \in Ids : LotsOf(book, s, side)[i] \in Int
<1> SUFFICES ASSUME NEW i \in Ids
             PROVE  LotsOf(book, s, side)[i] \in Int
  OBVIOUS
<1>1. book[i].qty \in Int /\ book[i].filled \in Int
  BY DEF BookType
<1> QED
  BY <1>1 DEF LotsOf

LEMMA OwedNat ==
  ASSUME NEW book \in [Ids -> BookType], NEW s, NEW side, \A i \in Ids : OrderGood(book[i])
  PROVE  Owed(book, s, side) \in Nat
<1>1. \A i \in Ids : LotsOf(book, s, side)[i] \in Nat
  <2> SUFFICES ASSUME NEW i \in Ids
               PROVE  LotsOf(book, s, side)[i] \in Nat
    OBVIOUS
  <2>1. book[i].qty \in Int /\ book[i].filled \in Nat /\ book[i].filled <= book[i].qty
    BY DEF BookType, OrderGood
  <2> QED
    BY <2>1 DEF LotsOf
<1> QED
  BY <1>1, IdsFinite, TotalNat DEF Owed

LEMMA OwedNone ==
  ASSUME NEW book \in [Ids -> BookType], NEW s, NEW side,
         \A i \in Ids : book[i].status \notin OpenStatus
  PROVE  Owed(book, s, side) = 0
<1>1. \A i \in Ids : LotsOf(book, s, side)[i] = 0
  BY DEF LotsOf
<1>2. Total(LotsOf(book, s, side), Ids) = Total(LotsOf(book, s, side), {})
  BY <1>1, LotsType, IdsFinite, TotalZeros
<1> QED
  BY <1>2, TotalEmpty DEF Owed

(* An order that changes changes the sums by its own lots.                 *)
LEMMA OwedChange ==
  ASSUME NEW book \in [Ids -> BookType], NEW book2 \in [Ids -> BookType], NEW j \in Ids,
         \A i \in Ids : i # j => book2[i] = book[i], NEW s, NEW side
  PROVE  Owed(book2, s, side)
           = Owed(book, s, side) - LotsOf(book, s, side)[j] + LotsOf(book2, s, side)[j]
<1>1. \A i \in Ids : i # j => LotsOf(book, s, side)[i] = LotsOf(book2, s, side)[i]
  BY DEF LotsOf
<1>2. \A i \in Ids : LotsOf(book, s, side)[i] \in Int /\ LotsOf(book2, s, side)[i] \in Int
  BY LotsType
<1> QED
  BY <1>1, <1>2, IdsFinite, TotalChange DEF Owed

LEMMA RemainSum ==
  ASSUME orders \in [Ids -> BookType], NEW s, NEW side
  PROVE  MapThenSumSet(Remaining, OpenSide(s, side)) = Owed(orders, s, side)
<1> DEFINE X == OpenSide(s, side)
           F == LotsOf(orders, s, side)
           Is(g) == g = [U \in SUBSET X |-> IF U = {} THEN 0
                                           ELSE Remaining(Some(U)) + g[U \ {Some(U)}]]
<1>1. X \in SUBSET Ids /\ (\A i \in X : F[i] = Remaining(i)) /\ (\A i \in Ids \ X : F[i] = 0)
  BY DEF OpenSide, OpenOrders, LotsOf, Remaining
<1>2. ASSUME NEW g PROVE Is(g) <=> Adds(g, F, X)
  <2>1. \A U \in SUBSET X : U # {} => F[Some(U)] = Remaining(Some(U))
    BY <1>1, SomeIn
  <2>2. \A U \in SUBSET X : (IF U = {} THEN 0 ELSE Remaining(Some(U)) + g[U \ {Some(U)}])
                           = (IF U = {} THEN 0 ELSE F[Some(U)] + g[U \ {Some(U)}])
    BY <2>1
  <2> QED
    BY <2>2 DEF Adds
<1>3. MapThenSumSet(Remaining, X) = (CHOOSE g : Is(g))[X]
  BY DEF MapThenSumSet, MapThenFoldSet, Some
<1> HIDE DEF Is, F, X
<1>4. (CHOOSE g : Is(g)) = (CHOOSE g : Adds(g, F, X))
  BY <1>2
<1>5. MapThenSumSet(Remaining, X) = Total(F, X)
  BY <1>3, <1>4, TotalIsChosen
<1>6. \A i \in Ids : F[i] \in Int
  BY LotsType DEF F
<1>7. Total(F, Ids) = Total(F, X)
  BY <1>1, <1>6, IdsFinite, TotalZeros
<1> QED
  BY <1>5, <1>7 DEF Owed, F, X

-----------------------------------------------------------------------------
(* A book and an account that fills, cancels and expiry have brought       *)
(* forward: nothing is open that was not, and no symbol has more lots held *)
(* or on order.                                                            *)
Settles(book, pos, book2, pos2) ==
  /\ \A i \in Ids : book2[i].status \in OpenStatus => book[i].status \in OpenStatus
  /\ \A i \in Ids : OrderGood(book2[i])
  /\ SellsHeld(book2, pos2)
  /\ \A s \in Symbols :
       /\ pos2[s] + Owed(book2, s, "buy") <= pos[s] + Owed(book, s, "buy")
       /\ Owed(book, s, "buy") = 0 => Owed(book2, s, "buy") = 0 /\ pos2[s] <= pos[s]

LEMMA OwedInt ==
  ASSUME NEW book \in [Ids -> BookType], NEW s, NEW side
  PROVE  Owed(book, s, side) \in Int
BY LotsType, IdsFinite, TotalType DEF Owed

LEMMA SameSettles ==
  ASSUME NEW book \in [Ids -> BookType], NEW pos \in [Symbols -> Int],
         \A i \in Ids : OrderGood(book[i]), SellsHeld(book, pos)
  PROVE  Settles(book, pos, book, pos)
<1>1. \A s \in Symbols : Owed(book, s, "buy") \in Int /\ pos[s] \in Int
  BY OwedInt
<1> QED
  BY <1>1 DEF Settles

(* All orders end at the close.                                            *)
LEMMA CloseSettles ==
  ASSUME NEW book \in [Ids -> BookType], NEW pos \in [Symbols -> Int],
         \A i \in Ids : OrderGood(book[i]), SellsHeld(book, pos),
         NEW book2 \in [Ids -> BookType], \A i \in Ids : book2[i] = Ended(book[i])
  PROVE  Settles(book, pos, book2, pos)
<1>1. ASSUME NEW i \in Ids
      PROVE  book2[i].status \notin OpenStatus /\ OrderGood(book2[i])
  <2>1. book[i] \in BookType /\ OrderGood(book[i])
    OBVIOUS
  <2>2. Ended(book[i]).status \notin OpenStatus /\ Ended(book[i]).qty = book[i].qty
        /\ Ended(book[i]).filled = book[i].filled
    BY <2>1, SMT DEF Ended, OpenStatus, BookType
  <2> QED
    BY <2>1, <2>2 DEF OrderGood
<1>2. \A s \in Symbols : /\ Owed(book2, s, "buy") = 0 /\ Owed(book2, s, "sell") = 0
                         /\ Owed(book, s, "buy") \in Nat /\ Owed(book, s, "sell") \in Nat
                         /\ pos[s] \in Int
  BY <1>1, OwedNone, OwedNat
<1> QED
  BY <1>1, <1>2 DEF Settles, SellsHeld

(* A cancel, asked for or in effect, fills nothing.                        *)
LEMMA CancelSettles ==
  ASSUME NEW book \in [Ids -> BookType], NEW pos \in [Symbols -> Int],
         \A i \in Ids : OrderGood(book[i]), SellsHeld(book, pos),
         NEW j \in Ids, book[j].status \in OpenStatus,
         NEW status \in {"pending_cancel", "canceled"},
         NEW book2 \in [Ids -> BookType], \A i \in Ids : i # j => book2[i] = book[i],
         book2[j] = [book[j] EXCEPT !.status = status]
  PROVE  Settles(book, pos, book2, pos)
<1>1. /\ book2[j].status = status /\ book2[j].side = book[j].side
      /\ book2[j].qty = book[j].qty /\ book2[j].filled = book[j].filled
  BY DEF BookType
<1>2. OrderGood(book[j]) /\ book[j] \in BookType
  OBVIOUS
<1>3. ASSUME NEW s \in Symbols, NEW side \in {"buy", "sell"}
      PROVE  Owed(book2, s, side) <= Owed(book, s, side)
  <2>1. LotsOf(book2, s, side)[j] \in Int /\ LotsOf(book, s, side)[j] \in Int
    BY LotsType
  <2>2. LotsOf(book2, s, side)[j] <= LotsOf(book, s, side)[j]
    BY <1>1, <1>2 DEF LotsOf, OrderGood, BookType, OpenStatus
  <2>3. Owed(book2, s, side) = Owed(book, s, side) - LotsOf(book, s, side)[j] + LotsOf(book2, s, side)[j]
    BY <1>1, OwedChange
  <2>4. Owed(book2, s, side) \in Int /\ Owed(book, s, side) \in Int
    BY OwedInt
  <2> QED
    BY <2>1, <2>2, <2>3, <2>4
<1>4. \A i \in Ids : OrderGood(book2[i])
  BY <1>1, <1>2 DEF OrderGood, OpenStatus
<1>5. ASSUME NEW s \in Symbols
      PROVE  /\ Owed(book2, s, "sell") <= pos[s]
             /\ pos[s] + Owed(book2, s, "buy") <= pos[s] + Owed(book, s, "buy")
             /\ Owed(book, s, "buy") = 0 => Owed(book2, s, "buy") = 0
  <2>1. /\ Owed(book2, s, "buy") \in Nat /\ Owed(book, s, "buy") \in Nat
        /\ Owed(book2, s, "sell") \in Nat /\ Owed(book, s, "sell") \in Nat
        /\ pos[s] \in Int
    BY <1>4, OwedNat
  <2>2. /\ Owed(book2, s, "buy") <= Owed(book, s, "buy")
        /\ Owed(book2, s, "sell") <= Owed(book, s, "sell")
    BY <1>3
  <2>3. Owed(book, s, "sell") <= pos[s]
    BY DEF SellsHeld
  <2> QED
    BY <2>1, <2>2, <2>3
<1>6. \A s \in Symbols : pos[s] \in Int
  OBVIOUS
<1> QED
  BY <1>1, <1>4, <1>5, <1>6 DEF Settles, SellsHeld

(* A lot that fills leaves the order and enters, or leaves, the position.  *)
LEMMA FillSettles ==
  ASSUME NEW book \in [Ids -> BookType], NEW pos \in [Symbols -> Int],
         \A i \in Ids : OrderGood(book[i]), SellsHeld(book, pos),
         NEW j \in Ids, book[j].status \in OpenStatus,
         NEW book2 \in [Ids -> BookType], \A i \in Ids : i # j => book2[i] = book[i],
         book2[j] = OneMoreLot(book[j]),
         NEW pos2 \in [Symbols -> Int], \A s \in Symbols :
           pos2[s] = pos[s] + (IF s = j[2] THEN IF book[j].side = "buy" THEN 1 ELSE -1 ELSE 0)
  PROVE  Settles(book, pos, book2, pos2)
<1>1. book[j] \in BookType /\ OrderGood(book[j])
  OBVIOUS
<1>2. /\ book2[j].side = book[j].side /\ book2[j].qty = book[j].qty
      /\ book2[j].filled = book[j].filled + 1 /\ book2[j].status = FilledStatus(book[j])
  BY DEF OneMoreLot
<1>3. book[j].qty \in Nat /\ book[j].filled \in Nat /\ book[j].filled < book[j].qty
  BY <1>1 DEF OrderGood, BookType
<1>4. IF book[j].filled + 1 = book[j].qty THEN FilledStatus(book[j]) = "filled"
                                          ELSE FilledStatus(book[j]) \in OpenStatus
  BY DEF FilledStatus, OpenStatus
<1>5. \A i \in Ids : OrderGood(book2[i])
  BY <1>2, <1>3, <1>4 DEF OrderGood, OpenStatus
<1>6. ASSUME NEW s \in Symbols, NEW side \in {"buy", "sell"}
      PROVE  /\ Owed(book2, s, side)
                  = Owed(book, s, side) - (IF s = j[2] /\ side = book[j].side THEN 1 ELSE 0)
             /\ Owed(book2, s, side) \in Nat /\ Owed(book, s, side) \in Nat
  <2>1. LotsOf(book, s, side)[j]
          = (IF s = j[2] /\ side = book[j].side THEN book[j].qty - book[j].filled ELSE 0)
    BY DEF LotsOf
  <2>2. LotsOf(book2, s, side)[j]
          = (IF s = j[2] /\ side = book[j].side THEN book[j].qty - book[j].filled - 1 ELSE 0)
    BY <1>2, <1>3, <1>4 DEF LotsOf, OpenStatus
  <2>3. Owed(book2, s, side) = Owed(book, s, side) - LotsOf(book, s, side)[j] + LotsOf(book2, s, side)[j]
    BY <1>2, OwedChange
  <2>4. Owed(book2, s, side) \in Nat /\ Owed(book, s, side) \in Nat
    BY <1>5, OwedNat
  <2> QED
    BY <1>3, <2>1, <2>2, <2>3, <2>4
<1>7. book[j].side \in {"buy", "sell"}
  BY <1>1 DEF BookType
<1>8. ASSUME NEW s \in Symbols
      PROVE  /\ Owed(book2, s, "sell") <= pos2[s]
             /\ pos2[s] + Owed(book2, s, "buy") <= pos[s] + Owed(book, s, "buy")
             /\ Owed(book, s, "buy") = 0 => Owed(book2, s, "buy") = 0 /\ pos2[s] <= pos[s]
  <2>1. PICK p \in Int, p2 \in Int : p = pos[s] /\ p2 = pos2[s]
    OBVIOUS
  <2>2. PICK b, b2 \in Nat : b = Owed(book, s, "buy") /\ b2 = Owed(book2, s, "buy")
    BY <1>6
  <2>3. PICK o, o2 \in Nat : o = Owed(book, s, "sell") /\ o2 = Owed(book2, s, "sell")
    BY <1>6
  <2>4. p2 = p + (IF s = j[2] THEN IF book[j].side = "buy" THEN 1 ELSE -1 ELSE 0)
    BY <2>1
  <2>5. /\ b2 = b - (IF s = j[2] /\ "buy" = book[j].side THEN 1 ELSE 0)
        /\ o2 = o - (IF s = j[2] /\ "sell" = book[j].side THEN 1 ELSE 0)
    BY <1>6, <2>2, <2>3
  <2>6. o <= p
    BY <2>1, <2>3 DEF SellsHeld
  <2>7. o2 <= p2 /\ p2 + b2 <= p + b /\ (b = 0 => b2 = 0 /\ p2 <= p)
    BY <1>7, <2>4, <2>5, <2>6
  <2> QED
    BY <2>1, <2>2, <2>3, <2>7
<1> QED
  BY <1>2, <1>5, <1>8 DEF Settles, SellsHeld

-----------------------------------------------------------------------------
(* What a step of a run that leaves the book alone does to the run, as far *)
(* as the account is concerned: it ends the order loop or the run, or it   *)
(* is a step of `paper reconcile`, or a wrapper starts, or it goes on.     *)
Ends(old, new) ==
  /\ new.step \in {"persist", "done", "failed"} /\ new.midday = old.midday
  /\ Running(new) => Running(old)

Reconciles(r, old, new) ==
  Command[r] = "reconcile" /\ new.step = "reconcile" /\ (new.midday => old.midday)

Starts(r, new) ==
  /\ Command[r] = "rotate" /\ \A q \in Runs : Command[q] = "rotate" => ~Running(run[q])
  /\ run[r].step = "idle" /\ new.step = "cancel" /\ new.midday = (market = "open")
  /\ new.cancels = OpenOrders

GoesOn(old, new) ==
  /\ new.midday = old.midday
  /\ \/ new.step = "reconcile" /\ old.step = "cancel" /\ old.cancels = {}
     \/ new.step \in {"reconcile", "read"} /\ old.step = "reconcile"
     \/ new.step = "quantities" /\ old.step = "read" /\ \A s \in new.buys : ~(positions[s] > 0)
     \/ new.step = "submit" /\ old.step = "quantities" /\ new.buys = old.buys
     \/ new.step = "submit" /\ old.step = "submit" /\ new.buys \subseteq old.buys

(* A trade by hand starts without a wrapper.                               *)
Opens(r, old, new) ==
  Command[r] = "trade" /\ new.step = "reconcile" /\ new.midday = old.midday

StepsQuietly(r, new) ==
  \/ Ends(run[r], new) \/ Reconciles(r, run[r], new) \/ Starts(r, new)
  \/ GoesOn(run[r], new) \/ Opens(r, run[r], new)

Quiet(r) ==
  \/ StartRotate(r) \/ NoCandidates(r) \/ OpenSession(r) \/ StartReconcile(r)
  \/ \E i \in Ids : CancelRaises(r, i) \/ FetchOrder(r, i) \/ SkipOrder(r, i)
  \/ UpdateRow(r) \/ EndReconcile(r) \/ ReadHeld(r) \/ ReadQuantities(r)
  \/ \E o \in Todo(r) : SubmitRefused(r, o)
  \/ Receive(r) \/ LoseAnswer(r) \/ EndLoop(r) \/ WriteOrder(r) \/ SnapshotEquity(r) \/ Crash(r)

QuietTo(r, new) == new \in LocalsType /\ Local(r, new) /\ Sellable(new) /\ StepsQuietly(r, new)

LEMMA GoesQuietly ==
  ASSUME PaperInv, NEW r \in Runs, NEW step \in {"persist", "done", "failed"}, Goto(r, step),
         run[r].step \notin {"done", "failed"}, step = "persist" => run[r].step # "idle"
  PROVE  \E new : QuietTo(r, new)
<1>1. PICK new \in LocalsType : new = [run[r] EXCEPT !.step = step]
  BY GotoType DEF PaperInv, Shape, Steps
<1>2. new.step = step /\ new.midday = run[r].midday
  BY <1>1 DEF LocalsType, PaperInv, Shape
<1>3. Ends(run[r], new)
  BY <1>2 DEF Ends, Running
<1> QED
  BY <1>1, <1>2, <1>3 DEF QuietTo, StepsQuietly, Goto, Sellable

(* The same, while a run reconciles.                                       *)
LEMMA ReconcilesQuietly ==
  ASSUME PaperInv, NEW r \in Runs, run[r].step = "reconcile", NEW new \in LocalsType, Local(r, new),
         new.step = "reconcile", new.midday = run[r].midday
  PROVE  QuietTo(r, new)
BY DEF QuietTo, StepsQuietly, GoesOn, Sellable

LEMMA SubmitFields ==
  ASSUME PaperInv, NEW r \in Runs, NEW o \in Todo(r), NEW answer \in {"none", "rejected"},
         Submit(r, o, answer), \A q \in Runs : Sellable(run[q])
  PROVE  /\ o.symbol \in Symbols /\ run[r].step = "submit"
         /\ \E new : /\ QuietTo(r, new) /\ GoesOn(run[r], new) /\ new.step = "submit"
                     /\ new.buys = run[r].buys \ {o.symbol}
<1>1. run[r] \in LocalsType /\ run[r].step = "submit" /\ Shape
  BY DEF PaperInv, Shape, Submit
<1>2. o.symbol \in Symbols
  BY <1>1 DEF Todo, LocalsType
<1> DEFINE x == [symbol |-> o.symbol, status |-> answer, filled |-> 0]
<1>3. x \in SentType
  BY <1>2 DEF SentType, RowStatus
<1>4. PICK new \in LocalsType :
        new = [run[r] EXCEPT !.sells = @ \ {o.symbol}, !.buys = @ \ {o.symbol}, !.sent = @ \cup {x}]
  BY <1>1, <1>3, SendingType
<1>5. /\ new.step = "submit" /\ new.midday = run[r].midday /\ new.quantity = run[r].quantity
      /\ new.sells = run[r].sells \ {o.symbol} /\ new.buys = run[r].buys \ {o.symbol}
  BY <1>1, <1>4 DEF LocalsType
<1>6. GoesOn(run[r], new) /\ Sellable(new)
  BY <1>1, <1>5 DEF GoesOn, Sellable
<1>7. Local(r, new)
  BY <1>4 DEF Submit
<1> QED
  BY <1>1, <1>2, <1>5, <1>6, <1>7 DEF QuietTo, StepsQuietly

LEMMA ReadQuietly ==
  ASSUME PaperInv, NEW r \in Runs, ReadHeld(r) \/ ReadQuantities(r)
  PROVE  \E new : QuietTo(r, new)
<1>1. PICK new \in LocalsType : new = run'[r]
  BY ReadingFields
<1>2. Local(r, new) /\ run[r] \in LocalsType
  BY <1>1, ReadingFields DEF PaperInv, Shape
<1>3. CASE ReadHeld(r)
  <2>1. PICK sells \in SUBSET Symbols, buys \in SUBSET Symbols :
          /\ new = [run[r] EXCEPT !.step = "quantities", !.sells = sells, !.buys = buys]
          /\ \A s \in buys : ~(positions[s] > 0)
    <3> DEFINE held == {s \in Symbols : positions[s] > 0}
               sells == {s \in held : run[r].score[s] = "exit"}
               buys == {s \in Symbols \ held : run[r].score[s] = "enter"}
    <3>1. new = [run[r] EXCEPT !.step = "quantities", !.sells = sells, !.buys = buys]
      BY <1>1, <1>2, <1>3 DEF ReadHeld, Local, PaperInv, Shape
    <3>2. sells \in SUBSET Symbols /\ buys \in SUBSET Symbols /\ \A s \in buys : ~(positions[s] > 0)
      OBVIOUS
    <3> QED
      BY <3>1, <3>2
  <2>2. new.step = "quantities" /\ new.midday = run[r].midday /\ new.buys = buys
    BY <1>2, <2>1 DEF LocalsType
  <2>3. GoesOn(run[r], new)
    BY <1>3, <2>1, <2>2 DEF GoesOn, ReadHeld
  <2> QED
    BY <1>2, <2>2, <2>3 DEF QuietTo, StepsQuietly, Sellable
<1>4. CASE ReadQuantities(r)
  <2>1. PICK sells \in SUBSET Symbols :
          /\ new = [run[r] EXCEPT !.step = "submit", !.quantity = positions, !.sells = sells]
          /\ \A s \in sells : positions[s] > 0
    <3> DEFINE sells == {s \in run[r].sells : positions[s] > 0}
    <3>1. new = [run[r] EXCEPT !.step = "submit", !.quantity = positions, !.sells = sells]
      BY <1>1, <1>2, <1>4 DEF ReadQuantities, Local, PaperInv, Shape
    <3>2. sells \in SUBSET Symbols /\ \A s \in sells : positions[s] > 0
      BY <1>2 DEF LocalsType
    <3> QED
      BY <3>1, <3>2
  <2>2. /\ new.step = "submit" /\ new.midday = run[r].midday /\ new.buys = run[r].buys
        /\ new.sells = sells /\ new.quantity = positions
    BY <1>2, <2>1 DEF LocalsType
  <2>3. GoesOn(run[r], new)
    BY <1>4, <2>2 DEF GoesOn, ReadQuantities
  <2>4. Sellable(new)
    BY <2>1, <2>2 DEF Sellable, PaperInv, Shape
  <2> QED
    BY <1>2, <2>3, <2>4 DEF QuietTo, StepsQuietly
<1> QED
  BY <1>3, <1>4

LEMMA QuietStep ==
  ASSUME PaperInv, \A q \in Runs : Sellable(run[q]), NEW r \in Runs, Quiet(r)
  PROVE  /\ UNCHANGED <<market, night, orders, positions>>
         /\ session' \in {session, TRUE}
         /\ \E new : QuietTo(r, new)
<1>1. UNCHANGED <<market, night, orders, positions>> /\ session' \in {session, TRUE}
  BY DEF Quiet, StartRotate, NoCandidates, OpenSession, StartReconcile, CancelRaises, FetchOrder,
         SkipOrder, UpdateRow, EndReconcile, ReadHeld, ReadQuantities, SubmitRefused, Submit,
         Receive, LoseAnswer, Answered, EndLoop, WriteOrder, SnapshotEquity, Crash
<1>2. run[r] \in LocalsType /\ Shape
  BY DEF PaperInv, Shape
<1>3. CASE StartRotate(r)
  <2>1. PICK new \in LocalsType :
          new = [Fresh EXCEPT !.step = "cancel", !.midday = (market = "open"), !.cancels = StaleOrders]
    BY StartingType DEF PaperInv
  <2>2. new.step = "cancel" /\ new.midday = (market = "open") /\ new.cancels = OpenOrders
    BY <2>1 DEF Fresh, StaleOrders
  <2>3. \A q \in Runs : Command[q] = "rotate" => ~Running(run[q])
    BY <1>3 DEF StartRotate, Active, Running
  <2>4. Starts(r, new)
    BY <1>3, <2>2, <2>3 DEF Starts, StartRotate
  <2> QED
    BY <1>3, <2>1, <2>2, <2>4 DEF QuietTo, StepsQuietly, Sellable, StartRotate
<1>4. CASE NoCandidates(r)
  BY <1>4, GoesQuietly DEF NoCandidates, TradeStarts
<1>5. CASE OpenSession(r)
  <2>1. PICK new \in LocalsType :
          new = [run[r] EXCEPT !.step = "reconcile", !.score = score, !.todo = RowsToReconcile]
    BY StartingType DEF PaperInv
  <2>2. new.step = "reconcile" /\ new.midday = run[r].midday
    BY <1>2, <2>1 DEF LocalsType
  <2>3. GoesOn(run[r], new) \/ Opens(r, run[r], new)
    BY <1>5, <2>2 DEF OpenSession, TradeStarts, GoesOn, Opens
  <2> QED
    BY <1>5, <2>1, <2>2, <2>3 DEF QuietTo, StepsQuietly, Sellable, OpenSession
<1>6. CASE StartReconcile(r)
  <2>1. PICK new \in LocalsType : new = [Fresh EXCEPT !.step = "reconcile", !.todo = RowsToReconcile]
    BY StartingType DEF PaperInv
  <2>2. new.step = "reconcile" /\ new.midday = FALSE
    BY <2>1 DEF Fresh
  <2> QED
    BY <1>6, <2>1, <2>2 DEF QuietTo, StepsQuietly, Reconciles, Sellable, StartReconcile
<1>7. ASSUME NEW i \in Ids, CancelRaises(r, i)
      PROVE  \E new : QuietTo(r, new)
  BY <1>7, GoesQuietly DEF CancelRaises
<1>8. ASSUME NEW i \in Ids, FetchOrder(r, i)
      PROVE  \E new : QuietTo(r, new)
  <2>1. PICK new \in LocalsType : new = [run[r] EXCEPT !.todo = @ \ {i}, !.fetched = {Answer(i)}]
    BY ReconcilingType DEF PaperInv
  <2>2. new.step = run[r].step /\ new.midday = run[r].midday
    BY <1>2, <2>1 DEF LocalsType
  <2> QED
    BY <1>8, <2>1, <2>2, ReconcilesQuietly DEF FetchOrder
<1>9. ASSUME NEW i \in Ids, SkipOrder(r, i)
      PROVE  \E new : QuietTo(r, new)
  <2>1. PICK new \in LocalsType : new = [run[r] EXCEPT !.todo = @ \ {i}]
    BY ReconcilingType DEF PaperInv
  <2>2. new.step = run[r].step /\ new.midday = run[r].midday
    BY <1>2, <2>1 DEF LocalsType
  <2> QED
    BY <1>9, <2>1, <2>2, ReconcilesQuietly DEF SkipOrder
<1>10. CASE UpdateRow(r)
  <2>1. PICK new \in LocalsType : new = [run[r] EXCEPT !.fetched = {}]
    <3>1. PICK f \in run[r].fetched : TRUE
      BY <1>10 DEF UpdateRow
    <3>2. f.id \in Ids
      BY <1>2, <3>1 DEF LocalsType
    <3> QED
      BY <1>2, <3>2, ReconcilingType
  <2>2. new.step = run[r].step /\ new.midday = run[r].midday
    BY <1>2, <2>1 DEF LocalsType
  <2> QED
    BY <1>10, <2>1, <2>2, ReconcilesQuietly DEF UpdateRow
<1>11. CASE EndReconcile(r)
  <2>1. CASE Command[r] = "reconcile"
    BY <1>11, <2>1, GoesQuietly DEF EndReconcile
  <2>2. CASE Command[r] # "reconcile"
    <3>1. PICK new \in LocalsType : new = [run[r] EXCEPT !.step = "read"]
      BY GotoType DEF PaperInv, Shape, Steps
    <3>2. new.step = "read" /\ new.midday = run[r].midday
      BY <1>2, <3>1 DEF LocalsType
    <3>3. Local(r, new)
      BY <1>11, <2>2, <3>1 DEF EndReconcile, Goto
    <3> QED
      BY <1>11, <3>1, <3>2, <3>3 DEF QuietTo, StepsQuietly, GoesOn, Sellable, EndReconcile
  <2> QED
    BY <2>1, <2>2
<1>12. CASE ReadHeld(r) \/ ReadQuantities(r)
  BY <1>1, <1>12, ReadQuietly
<1>13. ASSUME NEW o \in Todo(r), SubmitRefused(r, o)
       PROVE  \E new : QuietTo(r, new)
  BY <1>13, SubmitFields DEF SubmitRefused
<1>14. CASE EndLoop(r)
  BY <1>14, GoesQuietly DEF EndLoop
<1>15. CASE WriteOrder(r)
  <2>1. PICK x \in run[r].sent : Local(r, [run[r] EXCEPT !.sent = @ \ {x}])
    BY <1>15 DEF WriteOrder
  <2>2. x \in SentType
    BY <1>2 DEF LocalsType, SentType
  <2>3. PICK new \in LocalsType : new = [run[r] EXCEPT !.sent = @ \ {x}]
    BY <1>2, <2>2, SendingType
  <2>4. new.step = "persist" /\ new.midday = run[r].midday
    BY <1>2, <1>15, <2>3 DEF LocalsType, WriteOrder
  <2>5. Ends(run[r], new)
    BY <1>15, <2>4 DEF Ends, Running, WriteOrder
  <2> QED
    BY <1>1, <2>1, <2>3, <2>4, <2>5 DEF QuietTo, StepsQuietly, Sellable
<1>16. CASE SnapshotEquity(r)
  BY <1>16, GoesQuietly DEF SnapshotEquity
<1>17. CASE Crash(r)
  <2>1. PICK new \in LocalsType : new = [Fresh EXCEPT !.step = "failed", !.midday = run[r].midday]
    BY StartingType DEF PaperInv
  <2>2. new.step = "failed" /\ new.midday = run[r].midday
    BY <2>1 DEF Fresh
  <2>3. Ends(run[r], new)
    BY <2>2 DEF Ends, Running
  <2> QED
    BY <1>17, <2>1, <2>2, <2>3 DEF QuietTo, StepsQuietly, Sellable, Crash
<1>18. CASE Receive(r) \/ LoseAnswer(r)
  <2>1. PICK x \in Awaited(r), status \in RowStatus, filled \in Nat :
          /\ x \in SentType /\ run[r].step = "submit"
          /\ Answered(r, x, status, filled)
    BY <1>2, <1>18, AnswerSent
  <2>2. PICK y \in SentType : y = [symbol |-> x.symbol, status |-> status, filled |-> filled]
    BY <2>1 DEF SentType
  <2>3. PICK new \in LocalsType : new = [run[r] EXCEPT !.sent = (@ \ {x}) \cup {y}]
    BY <1>2, AnsweredType
  <2>4. /\ new.step = "submit" /\ new.midday = run[r].midday /\ new.quantity = run[r].quantity
        /\ new.sells = run[r].sells /\ new.buys = run[r].buys
    BY <1>2, <2>1, <2>3 DEF LocalsType
  <2>5. Local(r, new)
    BY <2>1, <2>2, <2>3 DEF Answered
  <2>6. GoesOn(run[r], new) /\ Sellable(new)
    BY <2>1, <2>4 DEF GoesOn, Sellable
  <2>7. StepsQuietly(r, new)
    BY <2>6 DEF StepsQuietly
  <2>8. QuietTo(r, new)
    BY <2>5, <2>6, <2>7 DEF QuietTo
  <2> QED
    BY <1>1, <2>8
<1> QED
  BY <1>1, <1>3, <1>4, <1>5, <1>6, <1>7, <1>8, <1>9, <1>10, <1>11, <1>12, <1>13, <1>14, <1>15,
     <1>16, <1>17, <1>18 DEF Quiet

-----------------------------------------------------------------------------
(* The steps that do change the book: an order is asked to cancel, or is   *)
(* placed.                                                                 *)
LEMMA CancelFields ==
  ASSUME PaperInv, AccountInv, NEW r \in Runs, NEW i \in Ids, CancelOne(r, i)
  PROVE  /\ Settles(orders, positions, orders', positions')
         /\ market = "closed" => orders'[i].status \notin OpenStatus
         /\ UNCHANGED <<market, night, session>>
         /\ \E new \in LocalsType :
              /\ Local(r, new) /\ new.step = "cancel" /\ new.midday = run[r].midday
              /\ new.cancels = run[r].cancels \ {i}
<1>1. PICK new \in LocalsType : new = [run[r] EXCEPT !.cancels = @ \ {i}]
  BY ReconcilingType DEF PaperInv
<1>2. run[r] \in LocalsType /\ orders \in [Ids -> BookType] /\ positions \in [Symbols -> Int]
  BY DEF PaperInv, Shape
<1>3. /\ new.step = "cancel" /\ new.midday = run[r].midday /\ new.cancels = run[r].cancels \ {i}
      /\ Local(r, new)
  BY <1>1, <1>2 DEF LocalsType, CancelOne
<1>4. PICK status \in {"pending_cancel", "canceled"} :
        status = IF market = "open" THEN "pending_cancel" ELSE "canceled"
  OBVIOUS
<1>5. orders' = [orders EXCEPT ![i].status = status]
  BY <1>4 DEF CancelOne
<1>6. Shape'
  BY RunStepShape DEF PaperInv, RunStep
<1>7. /\ orders' \in [Ids -> BookType]
      /\ \A k \in Ids : k # i => orders'[k] = orders[k]
      /\ orders'[i] = [orders[i] EXCEPT !.status = status]
  BY <1>2, <1>5, <1>6 DEF Shape
<1>8. PICK book \in [Ids -> BookType] : book = orders'
  BY <1>7
<1>9. /\ \A k \in Ids : OrderGood(orders[k])
      /\ SellsHeld(orders, positions) /\ orders[i].status \in OpenStatus
  BY DEF AccountInv, CancelOne, OpenOrders
<1>10. Settles(orders, positions, book, positions)
  BY <1>2, <1>7, <1>8, <1>9, CancelSettles
<1>11. market = "closed" => orders'[i].status \notin OpenStatus
  BY <1>2, <1>4, <1>7 DEF OpenStatus, BookType
<1>12. UNCHANGED <<market, night, session, positions>>
  BY DEF CancelOne
<1> QED
  BY <1>1, <1>3, <1>8, <1>10, <1>11, <1>12

LEMMA PlacedFields ==
  ASSUME PaperInv, AccountInv, NEW r \in Runs, NEW o \in Todo(r),
         NEW answer \in {"none", "rejected"}, Submit(r, o, answer), Placed(r, o), Shape'
  PROVE  /\ \A i \in Ids : OrderGood(orders'[i])
         /\ SellsHeld(orders', positions')
         /\ \A s \in Symbols :
              Owed(orders', s, "buy")
                = Owed(orders, s, "buy") + (IF s = o.symbol /\ o.side = "buy" THEN Target ELSE 0)
<1>1. Shape /\ run[r] \in LocalsType /\ run[r].step = "submit" /\ Consistent(r, run[r])
  BY DEF PaperInv, Shape, Submit
<1>2. o.symbol \in run[r].sells \cup run[r].buys /\ o.symbol \in Symbols
      /\ o.side \in {"buy", "sell"} /\ (o.side = "sell" => o.symbol \in run[r].sells)
  BY <1>1 DEF Todo, LocalsType
<1> DEFINE j == <<r, o.symbol>>
<1>3. Command[r] # "reconcile"
  BY <1>1 DEF Consistent, ReconcilersSendNothing
<1>4. j \in Ids /\ orders[j].status = "none"
  BY <1>1, <1>2, <1>3 DEF Consistent, IdsFresh, Unsent, Ids
<1>5. PICK n \in Nat : n = Quantity(r, o) /\ n > 0 /\ (o.side = "buy" => n = Target)
  <2>1. CASE o.side = "sell"
    <3>1. run[r].quantity[o.symbol] \in Int /\ run[r].quantity[o.symbol] >= 1
      BY <1>1, <1>2, <2>1 DEF AccountInv, Sellable, LocalsType
    <3> QED
      BY <2>1, <3>1 DEF Quantity
  <2>2. CASE o.side # "sell"
    BY <2>2, PaperAssumption DEF Quantity
  <2> QED
    BY <2>1, <2>2
<1>6. PICK book \in [Ids -> BookType] : book = orders'
  BY DEF Shape
<1>7. /\ \A i \in Ids : i # j => book[i] = orders[i]
      /\ book[j] = [side |-> o.side, qty |-> n, filled |-> 0, status |-> "accepted"]
  BY <1>1, <1>4, <1>5, <1>6 DEF Placed, Shape
<1>8. orders \in [Ids -> BookType] /\ positions \in [Symbols -> Int] /\ positions' = positions
  BY <1>1 DEF Shape, Submit
<1>9. ASSUME NEW s \in Symbols, NEW side \in {"buy", "sell"}
      PROVE  Owed(book, s, side)
               = Owed(orders, s, side) + (IF s = o.symbol /\ side = o.side THEN n ELSE 0)
  <2>1. LotsOf(orders, s, side)[j] = 0
    BY <1>4 DEF LotsOf, OpenStatus
  <2>2. LotsOf(book, s, side)[j] = IF s = o.symbol /\ side = o.side THEN n ELSE 0
    BY <1>4, <1>7 DEF LotsOf, OpenStatus
  <2>3. Owed(book, s, side) = Owed(orders, s, side) - LotsOf(orders, s, side)[j] + LotsOf(book, s, side)[j]
    BY <1>4, <1>7, <1>8, OwedChange
  <2>4. Owed(orders, s, side) \in Int
    BY <1>8, OwedInt
  <2> QED
    BY <2>1, <2>2, <2>3, <2>4
<1>10. \A i \in Ids : OrderGood(book[i])
  BY <1>5, <1>7 DEF AccountInv, OrderGood
<1>11. ASSUME NEW s \in Symbols
       PROVE  Owed(book, s, "sell") <= positions[s]
  <2>1. Owed(orders, s, "sell") \in Int /\ positions[s] \in Int /\ Owed(orders, s, "sell") <= positions[s]
    BY <1>8, OwedInt DEF AccountInv, SellsHeld
  <2>2. CASE s = o.symbol /\ o.side = "sell"
    <3>1. n <= positions[s] - Owed(orders, s, "sell")
      BY <1>5, <1>8, <2>2, RemainSum DEF Placed, Available
    <3> QED
      BY <1>9, <2>1, <2>2, <3>1
  <2>3. CASE ~(s = o.symbol /\ o.side = "sell")
    BY <1>9, <2>1, <2>3
  <2> QED
    BY <2>2, <2>3
<1>12. \A s \in Symbols :
         Owed(book, s, "buy")
           = Owed(orders, s, "buy") + (IF s = o.symbol /\ o.side = "buy" THEN Target ELSE 0)
  BY <1>5, <1>9
<1> QED
  BY <1>6, <1>8, <1>10, <1>11, <1>12 DEF SellsHeld

-----------------------------------------------------------------------------
(* The account stays in order: by the broker's steps,                      *)
LEMMA BrokerSettles ==
  ASSUME PaperInv, AccountInv, Broker
  PROVE  Settles(orders, positions, orders', positions')
<1>1. orders \in [Ids -> BookType] /\ positions \in [Symbols -> Int]
  BY DEF PaperInv, Shape
<1>2. (\A i \in Ids : OrderGood(orders[i])) /\ SellsHeld(orders, positions)
  BY DEF AccountInv
<1>3. Shape'
  BY BrokerShape DEF PaperInv
<1>4. PICK book \in [Ids -> BookType], pos \in [Symbols -> Int] : book = orders' /\ pos = positions'
  BY <1>3 DEF Shape
<1>5. CASE OpenMarket
  <2>1. book = orders /\ pos = positions
    BY <1>4, <1>5 DEF OpenMarket
  <2> QED
    BY <1>1, <1>2, <1>4, <2>1, SameSettles
<1>6. CASE CloseMarket
  <2>1. pos = positions /\ \A i \in Ids : book[i] = Ended(orders[i])
    BY <1>4, <1>6 DEF CloseMarket
  <2>2. Settles(orders, positions, book, positions)
    BY <1>1, <1>2, <2>1, CloseSettles
  <2> QED
    BY <1>4, <2>1, <2>2
<1>7. ASSUME NEW j \in Ids, Fill(j)
      PROVE  Settles(orders, positions, orders', positions')
  <2>1. j[2] \in Symbols /\ orders[j].status \in OpenStatus
    BY <1>7 DEF Fill, OpenOrders, Ids
  <2>2. (\A i \in Ids : i # j => book[i] = orders[i]) /\ book[j] = OneMoreLot(orders[j])
    BY <1>1, <1>4, <1>7 DEF Fill
  <2>3. \A s \in Symbols :
          pos[s] = positions[s] + (IF s = j[2] THEN IF orders[j].side = "buy" THEN 1 ELSE -1 ELSE 0)
    BY <1>1, <1>4, <1>7, <2>1 DEF Fill
  <2>4. Settles(orders, positions, book, pos)
    BY <1>1, <1>2, <2>1, <2>2, <2>3, FillSettles
  <2> QED
    BY <1>4, <2>4
<1>8. ASSUME NEW j \in Ids, CancelTakesEffect(j)
      PROVE  Settles(orders, positions, orders', positions')
  <2>1. pos = positions /\ orders[j].status \in OpenStatus
    BY <1>4, <1>8 DEF CancelTakesEffect, OpenStatus
  <2>2. /\ \A i \in Ids : i # j => book[i] = orders[i]
        /\ book[j] = [orders[j] EXCEPT !.status = "canceled"]
    BY <1>1, <1>4, <1>8 DEF CancelTakesEffect
  <2>3. Settles(orders, positions, book, positions)
    BY <1>1, <1>2, <2>1, <2>2, CancelSettles
  <2> QED
    BY <1>4, <2>1, <2>3
<1> QED
  BY <1>5, <1>6, <1>7, <1>8 DEF Broker

LEMMA InitAccountInv == PaperInit => AccountInv /\ RotateInv
<1> SUFFICES ASSUME PaperInit
             PROVE  AccountInv /\ RotateInv
  OBVIOUS
<1>1. orders \in [Ids -> BookType]
  BY InitShape DEF Shape
<1>2. \A i \in Ids : orders[i] = NoOrder
  BY DEF PaperInit
<1>3. \A i \in Ids : orders[i].status \notin OpenStatus /\ OrderGood(orders[i])
  BY <1>2 DEF NoOrder, OpenStatus, OrderGood
<1>4. \A s \in Symbols : positions[s] = 0 /\ Owed(orders, s, "buy") = 0 /\ Owed(orders, s, "sell") = 0
  BY <1>1, <1>3, OwedNone DEF PaperInit
<1>5. \A r \in Runs : run[r].step = "idle" /\ run[r].midday = FALSE
  BY DEF PaperInit, Fresh
<1>6. AccountInv
  <2>1. SellsHeld(orders, positions) /\ \A r \in Runs : Sellable(run[r])
    BY <1>4, <1>5 DEF SellsHeld, Sellable
  <2>2. market \in {"open", "closed"} /\ session \in BOOLEAN
    BY DEF PaperInit
  <2>3. night \in 0..LastNight
    BY PaperAssumption DEF PaperInit
  <2> QED
    BY <1>3, <2>1, <2>2, <2>3 DEF AccountInv
<1>7. RotateInv
  BY <1>4, <1>5, PaperAssumption DEF RotateInv, Rotation, Running
<1> QED
  BY <1>6, <1>7

(* and by those of a run.                                                  *)
LEMMA RunAccount ==
  ASSUME Shape, AccountInv, NEW r \in Runs, NEW new \in LocalsType, Local(r, new), Sellable(new),
         UNCHANGED <<market, night>>, session' \in {session, TRUE},
         \A i \in Ids : OrderGood(orders'[i]), SellsHeld(orders', positions')
  PROVE  AccountInv'
<1>1. run'[r] = new /\ \A q \in Runs : q # r => run'[q] = run[q]
  BY LocalStep DEF Shape
<1>2. \A q \in Runs : Sellable(run'[q])
  BY <1>1 DEF AccountInv
<1> QED
  BY <1>2 DEF AccountInv, SellsHeld, OrderGood, Sellable

LEMMA RunStepKinds ==
  ASSUME NEW r \in Runs, RunStep(r)
  PROVE  \/ Quiet(r)
         \/ \E i \in Ids : CancelOne(r, i)
         \/ \E o \in Todo(r), answer \in {"none", "rejected"} :
              Submit(r, o, answer) /\ Placed(r, o)
BY DEF RunStep, Quiet, Reconcile, Trade, Send

LEMMA AccountStep ==
  ASSUME PaperInv, AccountInv, [PaperNext]_paperVars
  PROVE  AccountInv'
<1>1. (\A i \in Ids : OrderGood(orders[i])) /\ SellsHeld(orders, positions) /\ Shape
      /\ \A r \in Runs : Sellable(run[r])
  BY DEF AccountInv, PaperInv
<1>2. CASE Broker
  <2>1. Settles(orders, positions, orders', positions')
    BY <1>2, BrokerSettles
  <2>2. market' \in {"open", "closed"} /\ night' \in 0..LastNight /\ UNCHANGED <<session, run>>
    BY <1>2, PaperAssumption
       DEF Broker, OpenMarket, CloseMarket, Fill, CancelTakesEffect, AccountInv
  <2> QED
    BY <1>1, <2>1, <2>2 DEF AccountInv, Settles, SellsHeld, Sellable, OrderGood
<1>3. ASSUME NEW r \in Runs, Quiet(r)
      PROVE  AccountInv'
  <2>1. PICK new : QuietTo(r, new)
    BY <1>1, <1>3, QuietStep
  <2>2. UNCHANGED <<market, night, orders, positions>> /\ session' \in {session, TRUE}
    BY <1>1, <1>3, QuietStep
  <2>3. (\A i \in Ids : OrderGood(orders'[i])) /\ SellsHeld(orders', positions')
    BY <1>1, <2>2
  <2> QED
    BY <1>1, <2>1, <2>2, <2>3, RunAccount DEF QuietTo
<1>4. ASSUME NEW r \in Runs, NEW i \in Ids, CancelOne(r, i)
      PROVE  AccountInv'
  <2>1. PICK new \in LocalsType : Local(r, new) /\ new.step = "cancel"
    BY <1>4, CancelFields
  <2>2. Settles(orders, positions, orders', positions') /\ UNCHANGED <<market, night, session>>
    BY <1>4, CancelFields
  <2>3. (\A k \in Ids : OrderGood(orders'[k])) /\ SellsHeld(orders', positions')
    BY <2>2 DEF Settles
  <2>4. Sellable(new)
    BY <2>1 DEF Sellable
  <2> QED
    BY <1>1, <2>1, <2>2, <2>3, <2>4, RunAccount
<1>5. ASSUME NEW r \in Runs, NEW o \in Todo(r), NEW answer \in {"none", "rejected"},
             Submit(r, o, answer), Placed(r, o), RunStep(r)
      PROVE  AccountInv'
  <2>1. PICK new : QuietTo(r, new)
    BY <1>1, <1>5, SubmitFields
  <2>2. Shape'
    BY <1>1, <1>5, RunStepShape
  <2>3. (\A i \in Ids : OrderGood(orders'[i])) /\ SellsHeld(orders', positions')
    BY <1>5, <2>2, PlacedFields
  <2>4. UNCHANGED <<market, night, session>>
    BY <1>5 DEF Submit
  <2> QED
    BY <1>1, <2>1, <2>3, <2>4, RunAccount DEF QuietTo
<1>6. CASE UNCHANGED paperVars
  BY <1>6 DEF paperVars, AccountInv, SellsHeld, Sellable, OrderGood
<1> QED
  BY <1>2, <1>3, <1>4, <1>5, <1>6, RunStepKinds DEF PaperNext

LEMMA AccountAlways == PaperSpec => []AccountInv
BY AccountStep, InitAccountInv, PaperInvAlways, PTL DEF PaperSpec

(* What orders, the account, rows and runs look like in every reachable    *)
(* state.  An order is never filled past its size, and the account never   *)
(* holds less than nothing of a symbol, although SELLs and their           *)
(* quantities come from reads that are out of date (runner.py:106-152).    *)
THEOREM PaperTypesAlways == PaperSpec => []PaperTypeOK
<1>1. PaperInv /\ AccountInv => PaperTypeOK
  <2> SUFFICES ASSUME PaperInv, AccountInv
               PROVE  PaperTypeOK
    OBVIOUS
  <2>1. Shape
    BY DEF PaperInv
  <2>2. ASSUME NEW i \in Ids
        PROVE  /\ orders[i] \in [side: {"buy", "sell"}, qty: Nat, filled: Nat, status: BrokerStatus]
               /\ orders[i].filled <= orders[i].qty
    <3>1. orders[i] \in BookType /\ OrderGood(orders[i])
      BY <2>1 DEF Shape, AccountInv
    <3> QED
      BY <3>1 DEF BookType, OrderGood
  <2>3. ASSUME NEW s \in Symbols
        PROVE  positions[s] \in Nat
    <3>1. Owed(orders, s, "sell") \in Nat
      BY <2>1, OwedNat DEF Shape, AccountInv
    <3>2. positions[s] \in Int /\ Owed(orders, s, "sell") <= positions[s]
      BY <2>1 DEF Shape, AccountInv, SellsHeld
    <3> QED
      BY <3>1, <3>2
  <2>4. /\ orders \in [Ids -> [side: {"buy", "sell"}, qty: Nat, filled: Nat, status: BrokerStatus]]
        /\ positions \in [Symbols -> Nat]
    BY <2>1, <2>2, <2>3 DEF Shape
  <2> QED
    BY <2>1, <2>2, <2>4 DEF PaperTypeOK, Shape, AccountInv
<1> QED
  BY <1>1, PaperInvAlways, AccountAlways, PTL

-----------------------------------------------------------------------------
(* Rotations out of hours, one at a time and with no trade by hand beside  *)
(* them.  The broker's steps leave each where it is.                       *)
NoTrade == \A r \in Runs : Command[r] # "trade"

LEMMA RotationKept ==
  ASSUME NEW locals \in LocalsType, NEW book, NEW book2,
         NEW pos \in [Symbols -> Int], NEW pos2 \in [Symbols -> Int],
         NEW now, NEW now2, Rotation(locals, book, pos, now), Settles(book, pos, book2, pos2),
         locals.step = "cancel" => now2 = now
  PROVE  Rotation(locals, book2, pos2, now2)
<1>1. \A i \in Ids : book2[i].status \in OpenStatus => book[i].status \in OpenStatus
  BY DEF Settles
<1>2. locals.buys \subseteq Symbols
  BY DEF LocalsType
<1>3. ASSUME NEW s \in locals.buys, pos[s] <= 0 /\ Owed(book, s, "buy") = 0
      PROVE  pos2[s] <= 0 /\ Owed(book2, s, "buy") = 0
  <2>1. pos[s] \in Int /\ pos2[s] \in Int /\ pos2[s] <= pos[s] /\ Owed(book2, s, "buy") = 0
    BY <1>2, <1>3 DEF Settles
  <2> QED
    BY <1>3, <2>1
<1> QED
  BY <1>1, <1>3 DEF Rotation

LEMMA RoomKept ==
  ASSUME NEW book \in [Ids -> BookType], NEW book2 \in [Ids -> BookType],
         NEW pos \in [Symbols -> Int], NEW pos2 \in [Symbols -> Int],
         Settles(book, pos, book2, pos2), NEW s \in Symbols,
         pos[s] + Owed(book, s, "buy") <= Target
  PROVE  pos2[s] + Owed(book2, s, "buy") <= Target
<1>1. Owed(book, s, "buy") \in Int /\ Owed(book2, s, "buy") \in Int
  BY OwedInt
<1>2. pos[s] \in Int /\ pos2[s] \in Int /\ Target \in Int
  BY PaperAssumption
<1>3. pos2[s] + Owed(book2, s, "buy") <= pos[s] + Owed(book, s, "buy")
  BY DEF Settles
<1> QED
  BY <1>1, <1>2, <1>3

LEMMA BrokerRotates ==
  ASSUME PaperInv, AccountInv, RotateInv, Broker
  PROVE  RotateInv'
<1>1. Shape /\ Shape' /\ Settles(orders, positions, orders', positions')
  BY BrokerShape, BrokerSettles DEF PaperInv
<1>2. run' = run
  BY DEF Broker, OpenMarket, CloseMarket, Fill, CancelTakesEffect
<1>3. PICK book \in [Ids -> BookType], pos \in [Symbols -> Int], now \in {market'} :
        book = orders' /\ pos = positions' /\ now = market'
  BY <1>1 DEF Shape
<1>4. ASSUME OutOfHours, NEW r \in Runs, run[r].step = "cancel", Command[r] = "rotate"
      PROVE  now = market
  <2>1. market = "closed"
    BY <1>4 DEF RotateInv, Rotation
  <2>2. ~OpenMarket
    BY <1>4 DEF OutOfHours, OpenMarket
  <2> QED
    BY <1>3, <2>1, <2>2 DEF Broker, CloseMarket, Fill, CancelTakesEffect
<1>5. ASSUME OutOfHours, NEW r \in Runs, Command[r] = "rotate"
      PROVE  Rotation(run[r], book, pos, now)
  <2>1. Rotation(run[r], orders, positions, market)
    BY <1>5 DEF RotateInv
  <2>2. PICK locals \in LocalsType : locals = run[r]
    BY <1>1 DEF Shape
  <2>3. locals.step = "cancel" => now = market
    BY <1>4, <1>5, <2>2
  <2>4. Settles(orders, positions, book, pos)
    BY <1>1, <1>3
  <2>5. positions \in [Symbols -> Int]
    BY <1>1 DEF Shape
  <2>6. Rotation(locals, book, pos, now)
    BY <2>1, <2>2, <2>3, <2>4, <2>5, RotationKept
  <2> QED
    BY <2>2, <2>6
<1>6. ASSUME OutOfHours, NEW s \in Symbols
      PROVE  pos[s] + Owed(book, s, "buy") <= Target
  <2>1. positions[s] + Owed(orders, s, "buy") <= Target
    BY <1>6 DEF RotateInv
  <2>2. Settles(orders, positions, book, pos)
    BY <1>1, <1>3
  <2>3. positions \in [Symbols -> Int] /\ orders \in [Ids -> BookType]
    BY <1>1 DEF Shape
  <2> QED
    BY <2>1, <2>2, <2>3, RoomKept
<1>7. \A r \in Runs : OutOfHours /\ Command[r] = "rotate" => Rotation(run[r], orders', positions', market')
  BY <1>3, <1>5
<1>8. \A s \in Symbols : OutOfHours => positions'[s] + Owed(orders', s, "buy") <= Target
  BY <1>3, <1>6
<1>9. OutOfHours' <=> OutOfHours
  BY <1>2 DEF OutOfHours
<1> QED
  BY <1>2, <1>7, <1>8, <1>9 DEF RotateInv, Running

(* A run that moves: where it comes to is all there is to say.             *)
LEMMA RunRotates ==
  ASSUME Shape, RotateInv, NEW r \in Runs, NEW new \in LocalsType, Local(r, new),
         new.midday => run[r].midday \/ (Command[r] = "rotate" /\ new.step # "idle"),
         run[r].midday => new.midday, new.step # "idle",
         Command[r] = "rotate" /\ Running(new) =>
           Running(run[r]) \/ \A q \in Runs : Command[q] = "rotate" => ~Running(run[q]),
         OutOfHours /\ ~new.midday =>
           /\ \A s \in Symbols : positions'[s] + Owed(orders', s, "buy") <= Target
           /\ Command[r] = "rotate" => Rotation(new, orders', positions', market')
           /\ \A q \in Runs \ {r} : Command[q] = "rotate" =>
                Rotation(run[q], orders', positions', market')
  PROVE  RotateInv'
<1>1. run'[r] = new /\ \A q \in Runs : q # r => run'[q] = run[q]
  BY LocalStep DEF Shape
<1>2. OutOfHours' => OutOfHours /\ ~new.midday
  BY <1>1 DEF OutOfHours
<1>3. \A q \in Runs : run'[q].step = "idle" \/ Command[q] = "reconcile" => ~run'[q].midday
  BY <1>1 DEF RotateInv
<1>4. ASSUME NEW p \in Runs, NEW q \in Runs, Command[p] = "rotate", Command[q] = "rotate",
             Running(run'[p]), Running(run'[q])
      PROVE  p = q
  BY <1>1, <1>4 DEF RotateInv
<1>5. OutOfHours' =>
        /\ \A s \in Symbols : positions'[s] + Owed(orders', s, "buy") <= Target
        /\ \A q \in Runs : Command[q] = "rotate" => Rotation(run'[q], orders', positions', market')
  BY <1>1, <1>2
<1> QED
  BY <1>3, <1>4, <1>5 DEF RotateInv, Running

LEMMA QuietRotates ==
  ASSUME PaperInv, AccountInv, RotateInv, NoTrade, NEW r \in Runs, NEW new, QuietTo(r, new),
         UNCHANGED <<market, orders, positions>>
  PROVE  RotateInv'
<1>1. Shape /\ new \in LocalsType /\ Local(r, new) /\ Command[r] # "trade"
  BY DEF PaperInv, QuietTo, NoTrade
<1>2. StepsQuietly(r, new)
  BY DEF QuietTo
<1>3. Command[r] = "reconcile" => ~run[r].midday
  BY DEF RotateInv
<1>4. new.step # "idle"
  BY <1>1, <1>2 DEF StepsQuietly, Ends, Reconciles, Starts, GoesOn, Opens
<1>5. /\ new.midday => run[r].midday \/ Command[r] = "rotate"
      /\ run[r].midday => new.midday
  BY <1>1, <1>2, <1>3 DEF StepsQuietly, Ends, Reconciles, Starts, GoesOn, Opens, RotateInv
<1>6. Command[r] = "rotate" /\ Running(new) =>
        Running(run[r]) \/ \A q \in Runs : Command[q] = "rotate" => ~Running(run[q])
  BY <1>1, <1>2 DEF StepsQuietly, Ends, Reconciles, Starts, GoesOn, Opens, Running
<1>7. ASSUME OutOfHours, ~new.midday, Command[r] = "rotate"
      PROVE  Rotation(new, orders, positions, market)
  <2>1. Rotation(run[r], orders, positions, market)
    BY <1>7 DEF RotateInv
  <2>2. CASE Ends(run[r], new)
    BY <2>2 DEF Ends, Rotation
  <2>3. CASE Starts(r, new)
    <3>1. market = "closed"
      BY <1>7, <2>3 DEF Starts, AccountInv
    <3>2. \A i \in Ids : orders[i].status \in OpenStatus => i \in new.cancels
      BY <2>3 DEF Starts, OpenOrders
    <3> QED
      BY <2>3, <3>1, <3>2 DEF Starts, Rotation
  <2>4. CASE new.step \in {"reconcile", "read"} /\ GoesOn(run[r], new)
    BY <2>1, <2>4 DEF GoesOn, Rotation
  <2>5. CASE new.step = "quantities" /\ GoesOn(run[r], new)
    <3>1. run[r].step = "read" /\ \A s \in new.buys : ~(positions[s] > 0)
      BY <2>5 DEF GoesOn
    <3>2. \A i \in Ids : orders[i].status \notin OpenStatus
      BY <2>1, <3>1 DEF Rotation
    <3>3. ASSUME NEW s \in new.buys
          PROVE  positions[s] <= 0 /\ Owed(orders, s, "buy") = 0
      <4>1. positions[s] \in Int /\ orders \in [Ids -> BookType]
        BY <1>1 DEF LocalsType, Shape
      <4> QED
        BY <3>1, <3>2, <4>1, OwedNone
    <3> QED
      BY <2>5, <3>2, <3>3 DEF Rotation
  <2>6. CASE new.step = "submit" /\ GoesOn(run[r], new)
    <3>1. new.buys \subseteq run[r].buys /\ run[r].step \in {"quantities", "submit"}
      BY <2>6 DEF GoesOn
    <3> QED
      BY <2>1, <2>6, <3>1 DEF Rotation
  <2> QED
    BY <1>1, <1>2, <1>7, <2>2, <2>3, <2>4, <2>5, <2>6
       DEF StepsQuietly, Reconciles, Opens, GoesOn
<1>8. OutOfHours =>
        /\ \A s \in Symbols : positions[s] + Owed(orders, s, "buy") <= Target
        /\ \A q \in Runs : Command[q] = "rotate" => Rotation(run[q], orders, positions, market)
  BY DEF RotateInv
<1>9. OutOfHours /\ ~new.midday =>
        /\ \A s \in Symbols : positions'[s] + Owed(orders', s, "buy") <= Target
        /\ Command[r] = "rotate" => Rotation(new, orders', positions', market')
        /\ \A q \in Runs \ {r} : Command[q] = "rotate" =>
             Rotation(run[q], orders', positions', market')
  BY <1>7, <1>8
<1> QED
  BY <1>1, <1>4, <1>5, <1>6, <1>9, RunRotates

LEMMA CancelRotates ==
  ASSUME PaperInv, AccountInv, RotateInv, NEW r \in Runs, NEW i \in Ids, CancelOne(r, i)
  PROVE  RotateInv'
<1>1. Shape /\ Shape'
  BY RunStepShape DEF PaperInv, RunStep
<1>2. Settles(orders, positions, orders', positions') /\ market' = market
      /\ (market = "closed" => orders'[i].status \notin OpenStatus)
  BY CancelFields
<1>3. PICK new \in LocalsType :
        /\ Local(r, new) /\ new.step = "cancel" /\ new.midday = run[r].midday
        /\ new.cancels = run[r].cancels \ {i}
  BY CancelFields
<1>4. run[r].step = "cancel"
  BY DEF CancelOne
<1>5. PICK book \in [Ids -> BookType], pos \in [Symbols -> Int] : book = orders' /\ pos = positions'
  BY <1>1 DEF Shape
<1>6. positions \in [Symbols -> Int] /\ orders \in [Ids -> BookType]
      /\ Settles(orders, positions, book, pos)
  BY <1>1, <1>2, <1>5 DEF Shape
<1>7. ASSUME OutOfHours, Command[r] = "rotate"
      PROVE  Rotation(new, book, pos, market)
  <2>1. market = "closed" /\ \A k \in Ids : orders[k].status \in OpenStatus => k \in run[r].cancels
    BY <1>4, <1>7 DEF RotateInv, Rotation
  <2>2. \A k \in Ids : book[k].status \in OpenStatus => k \in new.cancels
    BY <1>2, <1>3, <1>5, <1>6, <2>1 DEF Settles
  <2> QED
    BY <1>3, <2>1, <2>2 DEF Rotation
<1>8. ASSUME OutOfHours, NEW q \in Runs, Command[q] = "rotate"
      PROVE  Rotation(run[q], book, pos, market)
  <2>1. PICK locals \in LocalsType : locals = run[q]
    BY <1>1 DEF Shape
  <2>2. Rotation(locals, orders, positions, market)
    BY <1>8, <2>1 DEF RotateInv
  <2>3. Rotation(locals, book, pos, market)
    BY <1>6, <2>2, RotationKept
  <2> QED
    BY <2>1, <2>3
<1>9. ASSUME OutOfHours, NEW s \in Symbols
      PROVE  pos[s] + Owed(book, s, "buy") <= Target
  <2>1. positions[s] + Owed(orders, s, "buy") <= Target
    BY <1>9 DEF RotateInv
  <2> QED
    BY <1>6, <2>1, RoomKept
<1>10. OutOfHours /\ ~new.midday =>
         /\ \A s \in Symbols : positions'[s] + Owed(orders', s, "buy") <= Target
         /\ Command[r] = "rotate" => Rotation(new, orders', positions', market')
         /\ \A q \in Runs \ {r} : Command[q] = "rotate" =>
              Rotation(run[q], orders', positions', market')
  BY <1>2, <1>5, <1>7, <1>8, <1>9
<1>11. Running(run[r])
  BY <1>4 DEF Running
<1> QED
  BY <1>1, <1>3, <1>10, <1>11, RunRotates

LEMMA SubmitRotates ==
  ASSUME PaperInv, AccountInv, RotateInv, NoTrade, NEW r \in Runs, NEW o \in Todo(r),
         NEW answer \in {"none", "rejected"}, Submit(r, o, answer), Placed(r, o), Shape'
  PROVE  RotateInv'
<1>1. Shape /\ (\A q \in Runs : Sellable(run[q])) /\ Consistent(r, run[r])
  BY DEF PaperInv, AccountInv
<1>2. o.symbol \in Symbols /\ run[r].step = "submit"
  BY <1>1, SubmitFields
<1>3. PICK new : /\ QuietTo(r, new) /\ GoesOn(run[r], new) /\ new.step = "submit"
                 /\ new.buys = run[r].buys \ {o.symbol}
  BY <1>1, SubmitFields
<1>4. new \in LocalsType /\ Local(r, new) /\ new.midday = run[r].midday
  BY <1>3 DEF QuietTo, GoesOn
<1>5. Command[r] = "rotate" /\ Running(run[r])
  BY <1>1, <1>2, PaperAssumption DEF Consistent, ReconcilersSendNothing, NoTrade, Commands, Running
<1>6. positions' = positions /\ market' = market
  BY DEF Submit
<1>7. \A s \in Symbols :
        Owed(orders', s, "buy")
          = Owed(orders, s, "buy") + (IF s = o.symbol /\ o.side = "buy" THEN Target ELSE 0)
  BY PlacedFields
<1>8. o.side = "buy" => o.symbol \in run[r].buys
  BY <1>1, <1>2 DEF Todo
<1>9. \A s \in Symbols : positions[s] \in Int /\ Owed(orders, s, "buy") \in Int
  BY <1>1, OwedInt DEF Shape
<1>10. ASSUME OutOfHours
       PROVE  \A s \in run[r].buys : positions[s] <= 0 /\ Owed(orders, s, "buy") = 0
  BY <1>2, <1>5, <1>10 DEF RotateInv, Rotation
<1>11. ASSUME OutOfHours, NEW s \in Symbols
       PROVE  positions[s] + Owed(orders', s, "buy") <= Target
  <2>1. CASE s = o.symbol /\ o.side = "buy"
    BY <1>7, <1>8, <1>9, <1>10, <1>11, <2>1, PaperAssumption
  <2>2. CASE ~(s = o.symbol /\ o.side = "buy")
    BY <1>7, <1>9, <1>11, <2>2 DEF RotateInv
  <2> QED
    BY <2>1, <2>2
<1>12. ASSUME OutOfHours
       PROVE  Rotation(new, orders', positions, market)
  <2>1. new.buys \subseteq Symbols
    BY <1>4 DEF LocalsType
  <2>2. \A s \in new.buys : positions[s] <= 0 /\ Owed(orders', s, "buy") = 0
    BY <1>3, <1>7, <1>9, <1>10, <1>12, <2>1
  <2> QED
    BY <1>3, <2>2 DEF Rotation
<1>13. ASSUME NEW q \in Runs \ {r}, Command[q] = "rotate"
       PROVE  Rotation(run[q], orders', positions, market)
  BY <1>5, <1>13 DEF RotateInv, Running, Rotation
<1>14. OutOfHours /\ ~new.midday =>
         /\ \A s \in Symbols : positions'[s] + Owed(orders', s, "buy") <= Target
         /\ Command[r] = "rotate" => Rotation(new, orders', positions', market')
         /\ \A q \in Runs \ {r} : Command[q] = "rotate" =>
              Rotation(run[q], orders', positions', market')
  BY <1>6, <1>11, <1>12, <1>13
<1> QED
  BY <1>1, <1>3, <1>4, <1>5, <1>14, RunRotates

LEMMA RotateStep ==
  ASSUME NoTrade, PaperInv, AccountInv, RotateInv, [PaperNext]_paperVars
  PROVE  RotateInv'
<1>1. CASE Broker
  BY <1>1, BrokerRotates
<1>2. ASSUME NEW r \in Runs, Quiet(r)
      PROVE  RotateInv'
  <2>1. PICK new : QuietTo(r, new)
    BY <1>2, QuietStep DEF AccountInv
  <2>2. UNCHANGED <<market, orders, positions>>
    BY <1>2, QuietStep DEF AccountInv
  <2> QED
    BY <2>1, <2>2, QuietRotates
<1>3. ASSUME NEW r \in Runs, NEW i \in Ids, CancelOne(r, i)
      PROVE  RotateInv'
  BY <1>3, CancelRotates
<1>4. ASSUME NEW r \in Runs, NEW o \in Todo(r), NEW answer \in {"none", "rejected"},
             Submit(r, o, answer), Placed(r, o), RunStep(r)
      PROVE  RotateInv'
  BY <1>4, RunStepShape, SubmitRotates DEF PaperInv
<1>5. CASE UNCHANGED paperVars
  BY <1>5 DEF paperVars, RotateInv, Rotation, OutOfHours, Running
<1> QED
  BY <1>1, <1>2, <1>3, <1>4, <1>5, RunStepKinds DEF PaperNext

(* Where only the wrapper trades, and never in market hours, the account   *)
(* holds, or is about to buy, at most one target position of a symbol,     *)
(* whatever crashes, answers get lost, or lots of an order fill late       *)
(* (signal.py:7-9, paper-rotate-cron.sh:48-52).                            *)
THEOREM NothingStacks ==
  ASSUME NoTrade
  PROVE  PaperSpec => []NoStacking
<1>1. PaperInv /\ RotateInv => NoStacking
  <2> SUFFICES ASSUME PaperInv, RotateInv
               PROVE  NoStacking
    OBVIOUS
  <2>1. \A s : MapThenSumSet(Remaining, OpenSide(s, "buy")) = Owed(orders, s, "buy")
    BY RemainSum DEF PaperInv, Shape
  <2> QED
    BY <2>1 DEF RotateInv, OutOfHours, NoStacking
<1>2. PaperInv /\ AccountInv /\ RotateInv /\ [PaperNext]_paperVars => RotateInv'
  BY RotateStep
<1> QED
  BY <1>1, <1>2, InitAccountInv, PaperInvAlways, AccountAlways, PTL DEF PaperSpec
=============================================================================
