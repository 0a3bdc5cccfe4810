--------------------------- MODULE StrategyProofs ---------------------------
(***************************************************************************)
(* Proofs about StrategyStep and BacktestFold, for every sector map, panel *)
(* of bars and scores, configuration config/schema.py accepts and length   *)
(* of the window.  The first part is about the step alone, whatever its    *)
(* broker answers: protective stops cannot be dropped, exposure stays      *)
(* accounted for and capped.  The second is about the backtest built on    *)
(* it: the fold implements the open step, it never sells what it does not  *)
(* hold nor spends cash it does not have, its money and its log add up,    *)
(* what it holds is protected, and with market orders no strategy SELL     *)
(* precedes its entry.                                                     *)
(***************************************************************************)
EXTENDS BacktestFold, SumLemmas

-----------------------------------------------------------------------------
(* Rounded-up division, the only arithmetic the sizes go through.          *)

(* A division that rounds up stays a natural number, and positive if its   *)
(* dividend was.                                                           *)
LEMMA CeilDivType ==
  ASSUME NEW a \in Nat, NEW b \in Nat \ {0}
  PROVE  CeilDiv(a, b) \in Nat /\ (a > 0 => CeilDiv(a, b) > 0)
BY SMT DEF CeilDiv

(* Scaling a by s/one, with s at most hi, adds at most what scaling the    *)
(* largest m by the part of hi above one adds.                             *)
LEMMA CeilDivExcess ==
  ASSUME NEW m \in Nat, NEW a \in Nat, a <= m,
         NEW hi \in Nat, NEW s \in Nat, s <= hi,
         NEW one \in Nat \ {0}, one <= hi
  PROVE  CeilDiv(a * s, one) <= a + CeilDiv(m * (hi - one), one)
<1> DEFINE x == m * (hi - one)
           y == a * s
<1>1. a * s <= a * hi /\ a * (hi - one) <= x
  BY SMT
<1>2. x \in Int /\ y \in Int /\ y <= one * a + x
  BY <1>1, SMT
<1> HIDE DEF x, y
<1>3. (y + one - 1) \div one <= a + ((x + one - 1) \div one)
  BY <1>2, SMT
<1> QED
  BY <1>3 DEF CeilDiv, x, y

-----------------------------------------------------------------------------
(* The rules of RiskRules.                                                 *)

(* The entry size is a positive fraction of equity (signal.py:136-137).    *)
LEMMA EntrySizeType ==
  ASSUME NEW score \in 0..ScoreFull
  PROVE  EntrySize(score) \in Nat /\ EntrySize(score) > 0
<1>1. PositionSizeMax * score \in Nat
  BY ConfigAssumption, SMT
<1>2. CeilDiv(PositionSizeMax * score, ScoreFull) \in Nat
  BY <1>1, CeilDivType, ConfigAssumption
<1> QED
  BY <1>2, ConfigAssumption, SMT DEF EntrySize, Larger, Smaller

(* The granted size fits the single-order limit, and a positive grant fits *)
(* the room the sector has left (risk.py:92-121).                          *)
LEMMA GrantedSizeBounds ==
  ASSUME NEW size \in Nat, NEW existing \in Nat, NEW vix \in Nat
  PROVE  LET g == GrantedSize(size, existing, vix)
         IN  /\ g \in Nat /\ g <= MaxSingleOrder
             /\ MaxSectorConcentration < Full /\ g > 0
                  => existing + g <= MaxSectorConcentration
<1>1. HalvedByVix(size, vix) \in Nat
  BY CeilDivType, SMT DEF HalvedByVix
<1> QED
  BY <1>1, ConfigAssumption, SMT
     DEF GrantedSize, WithinSector, Smaller, Larger

(* The overlay factor never exceeds the larger of 1.0 and the upper clip   *)
(* (regime_overlay.py:66-92).                                              *)
LEMMA RegimeScaleBounds ==
  ASSUME NEW warm \in BOOLEAN, NEW ratio \in Nat, NEW bear \in BOOLEAN
  PROVE  /\ RegimeScale(warm, ratio, bear) \in Nat
         /\ RegimeScale(warm, ratio, bear) <= Larger(ScaleOne, ScaleHigh)
<1> DEFINE clipped == Larger(ScaleLow, Smaller(ratio, ScaleHigh))
<1>1. clipped \in Nat /\ clipped <= ScaleHigh
  BY ConfigAssumption, SMT DEF Larger, Smaller
<1> HIDE DEF clipped
<1>2. clipped * BearScale \in Nat
  BY <1>1, ConfigAssumption, SMT
<1>3. CeilDiv(clipped * BearScale, ScaleOne) \in Nat
  BY <1>2, CeilDivType, ConfigAssumption
<1>4. CeilDiv(clipped * BearScale, ScaleOne) <= clipped
  <2>1. clipped * BearScale <= clipped * ScaleOne
    BY <1>1, ConfigAssumption, SMT
  <2> QED
    BY <2>1, <1>1, <1>2, ConfigAssumption, SMT DEF CeilDiv
<1> QED
  BY <1>1, <1>3, <1>4, ConfigAssumption, SMT DEF RegimeScale, Larger, clipped

(* What one accepted BUY adds to its sector: nothing past the cap but the  *)
(* excess of a single levered order.                                       *)
LEMMA SizedBounds ==
  ASSUME NEW s \in Symbols, in \in InputType, exposure \in [Buckets -> Nat]
  PROVE  /\ SizeOf(s) \in Nat /\ SizedOf(s) \in Nat
         /\ LeverageExcess \in Nat
         /\ MaxSectorConcentration < Full /\ SizeOf(s) > 0
              => exposure[Bucket[s]] + SizedOf(s)
                   <= MaxSectorConcentration + LeverageExcess
<1> DEFINE g == SizeOf(s)
           f == RegimeScale(in.warm, in.ratio, in.bear)
           hi == Larger(ScaleOne, ScaleHigh)
<1>1. /\ in.score[s] \in 0..ScoreFull /\ in.vix \in Nat
      /\ in.warm \in BOOLEAN /\ in.ratio \in Nat /\ in.bear \in BOOLEAN
      /\ exposure[Bucket[s]] \in Nat
  BY SectorMapAssumption DEF InputType
<1>2. EntrySize(in.score[s]) \in Nat
  BY <1>1, EntrySizeType
<1>3. /\ g \in Nat /\ g <= MaxSingleOrder
      /\ MaxSectorConcentration < Full /\ g > 0
           => exposure[Bucket[s]] + g <= MaxSectorConcentration
  BY <1>1, <1>2, GrantedSizeBounds DEF SizeOf
<1>4. f \in Nat /\ f <= hi
  BY <1>1, RegimeScaleBounds
<1>5. hi \in Nat /\ ScaleOne <= hi /\ MaxSingleOrder \in Nat /\ ScaleOne \in Nat \ {0}
  BY ConfigAssumption, SMT DEF Larger
<1>6. SizedOf(s) = CeilDiv(g * f, ScaleOne)
  BY DEF SizedOf, Scaled
<1>7. LeverageExcess = CeilDiv(MaxSingleOrder * (hi - ScaleOne), ScaleOne)
  BY DEF LeverageExcess
<1> HIDE DEF g, f, hi
<1>8. g * f \in Nat /\ MaxSingleOrder * (hi - ScaleOne) \in Nat
  BY <1>3, <1>4, <1>5, SMT
<1>9. SizedOf(s) \in Nat /\ LeverageExcess \in Nat
  BY <1>5, <1>6, <1>7, <1>8, CeilDivType
<1>10. SizedOf(s) <= g + LeverageExcess
  BY <1>3, <1>4, <1>5, <1>6, <1>7, CeilDivExcess
<1>11. MaxSectorConcentration \in Nat
  BY ConfigAssumption
<1>12. MaxSectorConcentration < Full /\ g > 0
         => exposure[Bucket[s]] + SizedOf(s) <= MaxSectorConcentration + LeverageExcess
  BY <1>1, <1>3, <1>9, <1>10, <1>11, SMT
<1> QED
  BY <1>3, <1>9, <1>12 DEF g

-----------------------------------------------------------------------------
(* Type correctness: exposures stay natural, every order is well formed.   *)

LEMMA NoInputType == NoInput \in InputType
BY ConfigAssumption DEF NoInput, InputType

(* A BUY that passes Sendable is for a whole, positive number of lots.     *)
LEMMA LotsType ==
  ASSUME NEW s \in Symbols, in \in InputType, exposure \in [Buckets -> Nat], Sendable(s)
  PROVE  Lots(in.equity, SizedOf(s), in.price[s]) \in Nat \ {0}
<1>1. in.equity \in Int /\ in.price[s] \in Nat
  BY DEF InputType
<1>2. SizedOf(s) \in Nat /\ in.price[s] > 0 /\ Full \in Nat \ {0}
  BY SizedBounds, ConfigAssumption DEF Sendable
<1>3. Full * in.price[s] \in Nat \ {0} /\ in.equity * SizedOf(s) \in Int
  BY <1>1, <1>2, SMT
<1>4. Lots(in.equity, SizedOf(s), in.price[s]) \in Int
  BY <1>3, SMT DEF Lots
<1> QED
  BY <1>4, SMT DEF Sendable

LEMMA InitTypeOK == Init => TypeOK
BY NoInputType DEF Init, TypeOK, InputType

LEMMA NextTypeOK == TypeOK /\ [Next]_vars => TypeOK'
<1> SUFFICES ASSUME TypeOK, [Next]_vars
             PROVE  TypeOK'
  OBVIOUS
<1> USE DEF TypeOK
<1>1. CASE BeginStep
  <2>1. in' \in InputType
    BY <1>1 DEF BeginStep
  <2>2. pendingSells' \subseteq Symbols
    BY <1>1, <2>1 DEF BeginStep, ExitSignals, InputType
  <2>3. pendingBuys' \subseteq Symbols /\ newBuySet' \subseteq Symbols
    BY <1>1 DEF BeginStep, EntrySignals
  <2>4. exposure' \in [Buckets -> Nat]
    BY <1>1, <2>1 DEF BeginStep, InputType
  <2> QED
    BY <1>1, <2>1, <2>2, <2>3, <2>4 DEF BeginStep
<1>2. CASE EndStep
  BY <1>2, NoInputType DEF EndStep, InputType
<1>3. ASSUME NEW s \in Symbols, SkipSell(s)
      PROVE  TypeOK'
  BY <1>3 DEF SkipSell
<1>4. ASSUME NEW s \in Symbols, SkipBuy(s)
      PROVE  TypeOK'
  BY <1>4 DEF SkipBuy
<1>5. ASSUME NEW s \in Symbols, NEW status \in ResultStatuses, SendSell(s, status)
      PROVE  TypeOK'
  <2>1. Order(s, "sell", in.heldQty[s], 0, status) \in OrderType
    BY <1>5, StatusAssumption DEF SendSell, Order, OrderType, InputType
  <2> QED
    BY <1>5, <2>1 DEF SendSell
<1>6. ASSUME NEW s \in Symbols, NEW status \in ResultStatuses, SendBuy(s, status)
      PROVE  TypeOK'
  <2>1. Sendable(s) /\ SizedOf(s) \in Nat
    BY <1>6, SizedBounds DEF SendBuy
  <2>2. Order(s, "buy", Lots(in.equity, SizedOf(s), in.price[s]), SizedOf(s), status)
          \in OrderType
    BY <2>1, LotsType, StatusAssumption DEF Order, OrderType
  <2>3. exposure' \in [Buckets -> Nat]
    BY <1>6, <2>1, SectorMapAssumption DEF SendBuy, Grown
  <2> QED
    BY <1>6, <2>2, <2>3 DEF SendBuy
<1>7. CASE UNCHANGED vars
  BY <1>7 DEF vars
<1> QED
  BY <1>1, <1>2, <1>3, <1>4, <1>5, <1>6, <1>7 DEF Next

(* Every reachable state of a step is well typed, whatever the inputs.     *)
THEOREM TypeCorrect == Spec => []TypeOK
BY InitTypeOK, NextTypeOK, PTL DEF Spec

-----------------------------------------------------------------------------
(* The sector cap.                                                         *)

(* The excess of one levered order is a natural number, 0 if nothing levers. *)
LEMMA LeverageExcessType ==
  /\ LeverageExcess \in Nat
  /\ ScaleHigh <= ScaleOne => LeverageExcess = 0
<1> DEFINE x == MaxSingleOrder * (Larger(ScaleOne, ScaleHigh) - ScaleOne)
<1>1. x \in Nat /\ (ScaleHigh <= ScaleOne => x = 0)
  BY ConfigAssumption, SMT DEF Larger
<1> HIDE DEF x
<1>2. LeverageExcess = CeilDiv(x, ScaleOne)
  BY DEF LeverageExcess, x
<1>3. CeilDiv(0, ScaleOne) = 0
  BY ConfigAssumption, SMT DEF CeilDiv
<1> QED
  BY <1>1, <1>2, <1>3, CeilDivType, ConfigAssumption

LEMMA InitSector == Init => SectorOvershootBounded
<1> SUFFICES ASSUME Init, NEW b \in Buckets
             PROVE  exposure[b] <= Larger(MaxSectorConcentration, in.sectors[b]) + LeverageExcess
  BY DEF SectorOvershootBounded
<1>1. exposure[b] = 0 /\ in.sectors[b] = 0
  BY DEF Init, NoInput
<1> QED
  BY <1>1, LeverageExcessType, ConfigAssumption, SMT DEF Larger

LEMMA NextSector ==
  TypeOK /\ SectorOvershootBounded /\ [Next]_vars => SectorOvershootBounded'
<1> SUFFICES ASSUME TypeOK, SectorOvershootBounded, [Next]_vars,
                    NEW b \in Buckets, MaxSectorConcentration < Full
             PROVE  exposure'[b]
                      <= Larger(MaxSectorConcentration, in'.sectors[b]) + LeverageExcess
  BY DEF SectorOvershootBounded
<1>1. LeverageExcess \in Nat
  BY LeverageExcessType
<1>2. exposure[b] <= Larger(MaxSectorConcentration, in.sectors[b]) + LeverageExcess
  BY DEF SectorOvershootBounded
<1>3. CASE BeginStep \/ EndStep
  <2>1. exposure'[b] = in'.sectors[b] /\ in'.sectors[b] \in Nat
    BY <1>3, NoInputType DEF BeginStep, EndStep, InputType
  <2> QED
    BY <2>1, <1>1, ConfigAssumption, SMT DEF Larger
<1>4. ASSUME NEW s \in Symbols, NEW status \in ResultStatuses, SendBuy(s, status)
      PROVE  exposure'[b]
               <= Larger(MaxSectorConcentration, in'.sectors[b]) + LeverageExcess
  <2>1. CASE status = "rejected" \/ b # Bucket[s]
    BY <1>2, <1>4, <2>1, SectorMapAssumption DEF SendBuy, Grown, TypeOK
  <2>2. CASE status # "rejected" /\ b = Bucket[s]
    <3>1. exposure'[b] = exposure[b] + SizedOf(s) /\ in' = in
      BY <1>4, <2>2 DEF SendBuy, Grown, TypeOK
    <3>2. exposure[b] + SizedOf(s) <= MaxSectorConcentration + LeverageExcess
      BY <1>4, <2>2, SizedBounds DEF SendBuy, Sendable, TypeOK
    <3>3. in.sectors[b] \in Nat /\ exposure[b] \in Nat /\ SizedOf(s) \in Nat
      BY SizedBounds DEF TypeOK, InputType
    <3> QED
      BY <3>1, <3>2, <3>3, <1>1, ConfigAssumption, SMT DEF Larger
  <2> QED
    BY <2>1, <2>2
<1>5. ASSUME NEW s \in Symbols, NEW status \in ResultStatuses,
             SendSell(s, status)
      PROVE  UNCHANGED <<in, exposure>>
  BY <1>5 DEF SendSell
<1>6. CASE UNCHANGED vars
  BY <1>2, <1>6 DEF vars
<1>7. ASSUME NEW s \in Symbols, SkipSell(s) \/ SkipBuy(s)
      PROVE  UNCHANGED <<in, exposure>>
  BY <1>7 DEF SkipSell, SkipBuy
<1> QED
  BY <1>2, <1>3, <1>4, <1>5, <1>6, <1>7 DEF Next

(* The cap of risk.py:97-121 with the runner's overlay on top of it: a     *)
(* sector never ends a step above its cap (or where it started) by more    *)
(* than the part of one order the overlay adds.                            *)
THEOREM SectorOvershootBound == Spec => []SectorOvershootBounded
BY InitTypeOK, NextTypeOK, InitSector, NextSector, PTL DEF Spec

(* With an overlay that only scales down (scale_clip at most 1.0) the      *)
(* sentence of risk.py:97-98 is exact: no step takes a sector above        *)
(* max_sector_concentration, however many BUYs it sends into it.           *)
THEOREM SectorCapUnlevered ==
  ASSUME ScaleHigh <= ScaleOne
  PROVE  Spec => []SectorCapHolds
<1>1. SectorOvershootBounded /\ TypeOK => SectorCapHolds
  BY LeverageExcessType, ConfigAssumption, SMT
     DEF SectorOvershootBounded, SectorCapHolds, TypeOK, InputType, Larger
<1> QED
  BY <1>1, SectorOvershootBound, TypeCorrect, PTL

-----------------------------------------------------------------------------
(* One order per symbol.  The inductive invariant adds what the loop still *)
(* has to do: exits come from the snapshot, entries from outside it.       *)
StepInv ==
  /\ OneOrderPerSymbol
  /\ pendingSells \subseteq in.held
  /\ pendingBuys \cap in.held = {}

LEMMA InitStepInv == Init => StepInv
BY DEF Init, StepInv, OneOrderPerSymbol, NoInput

LEMMA NextStepInv == TypeOK /\ StepInv /\ [Next]_vars => StepInv'
<1> SUFFICES ASSUME TypeOK, StepInv, [Next]_vars
             PROVE  StepInv'
  OBVIOUS
<1> USE DEF StepInv, OneOrderPerSymbol
<1>1. CASE BeginStep
  BY <1>1 DEF BeginStep, ExitSignals, EntrySignals
<1>2. CASE EndStep
  BY <1>2 DEF EndStep, NoInput
<1>3. ASSUME NEW s \in Symbols, SkipSell(s)
      PROVE  StepInv'
  BY <1>3 DEF SkipSell
<1>4. ASSUME NEW s \in Symbols, SkipBuy(s)
      PROVE  StepInv'
  BY <1>4 DEF SkipBuy
<1>5. ASSUME NEW s \in Symbols, NEW status \in ResultStatuses, SendSell(s, status)
      PROVE  StepInv'
  <2> DEFINE o == Order(s, "sell", in.heldQty[s], 0, status)
  <2>1. o.symbol = s /\ o.side = "sell" /\ o.qty = in.heldQty[s]
    BY DEF Order
  <2>2. submitted' = submitted \cup {o} /\ pendingSells' = pendingSells \ {s}
        /\ s \in pendingSells /\ UNCHANGED <<in, pendingBuys>>
    BY <1>5 DEF SendSell
  <2> QED
    BY <2>1, <2>2
<1>6. ASSUME NEW s \in Symbols, NEW status \in ResultStatuses, SendBuy(s, status)
      PROVE  StepInv'
  <2> DEFINE o == Order(s, "buy", Lots(in.equity, SizedOf(s), in.price[s]), SizedOf(s), status)
  <2>1. o.symbol = s /\ o.side = "buy"
    BY DEF Order
  <2>2. submitted' = submitted \cup {o} /\ pendingBuys' = pendingBuys \ {s}
        /\ s \in pendingBuys /\ pendingSells = {} /\ UNCHANGED <<in, pendingSells>>
    BY <1>6 DEF SendBuy
  <2> HIDE DEF o
  <2> QED
    BY <2>1, <2>2
<1>7. CASE UNCHANGED vars
  BY <1>7 DEF vars
<1> QED
  BY <1>1, <1>2, <1>3, <1>4, <1>5, <1>6, <1>7 DEF Next

(* No step sends two orders for a symbol, buys what it holds or sells only *)
(* part of a position (signal.py:106-124, runner.py:117-161).              *)
THEOREM OneOrderEach == Spec => []OneOrderPerSymbol
<1>1. StepInv => OneOrderPerSymbol
  BY DEF StepInv
<1> QED
  BY <1>1, InitTypeOK, NextTypeOK, InitStepInv, NextStepInv, PTL DEF Spec

-----------------------------------------------------------------------------
(* Sector exposure.  The inductive invariant names the orders that use a   *)
(* bucket's room; a new order is not among them, as its symbol was still   *)
(* pending.                                                                *)
UsesRoom(b) ==
  {o \in submitted : o.side = "buy" /\ o.status # "rejected" /\ Bucket[o.symbol] = b}

Sizes == [o \in OrderType |-> o.sized]

RoomInv ==
  /\ IsFiniteSet(submitted)
  /\ \A b \in Buckets : exposure[b] = in.sectors[b] + Total(Sizes, UsesRoom(b))

(* The sum ExposureAccounted is written with.                              *)
LEMMA RoomSum ==
  ASSUME NEW X, X \subseteq OrderType
  PROVE  MapThenSumSet(LAMBDA o : o.sized, X) = Total(Sizes, X)
<1> DEFINE Is(g) == g = [U \in SUBSET X |-> IF U = {} THEN 0 ELSE Some(U).sized + g[U \ {Some(U)}]]
<1>1. ASSUME NEW g PROVE Is(g) <=> Adds(g, Sizes, X)
  <2>1. \A U \in SUBSET X : U # {} => Sizes[Some(U)] = Some(U).sized
    BY SomeIn DEF Sizes
  <2>2. \A U \in SUBSET X : (IF U = {} THEN 0 ELSE Some(U).sized + g[U \ {Some(U)}])
                           = (IF U = {} THEN 0 ELSE Sizes[Some(U)] + g[U \ {Some(U)}])
    BY <2>1
  <2> QED
    BY <2>2 DEF Adds
<1>2. MapThenSumSet(LAMBDA o : o.sized, X) = (CHOOSE g : Is(g))[X]
  BY DEF MapThenSumSet, MapThenFoldSet, Some
<1> HIDE DEF Is
<1>3. (CHOOSE g : Is(g)) = (CHOOSE g : Adds(g, Sizes, X))
  BY <1>1
<1> QED
  BY <1>2, <1>3, TotalIsChosen

LEMMA InitRoomInv == Init => RoomInv
<1> SUFFICES ASSUME Init PROVE RoomInv
  OBVIOUS
<1>1. submitted = {} /\ \A b \in Buckets : UsesRoom(b) = {}
  BY DEF Init, UsesRoom
<1>2. \A b \in Buckets : exposure[b] = 0 /\ in.sectors[b] = 0
  BY DEF Init, NoInput
<1> QED
  BY <1>1, <1>2, TotalEmpty, FS_EmptySet DEF RoomInv

LEMMA NextRoomInv == TypeOK /\ StepInv /\ RoomInv /\ [Next]_vars => RoomInv'
<1> SUFFICES ASSUME TypeOK, StepInv, RoomInv, [Next]_vars
             PROVE  RoomInv'
  OBVIOUS
<1>1. CASE BeginStep \/ EndStep
  <2>1. submitted' = {} /\ \A b \in Buckets : UsesRoom(b)' = {}
    BY <1>1 DEF BeginStep, EndStep, UsesRoom
  <2>2. \A b \in Buckets : exposure'[b] = in'.sectors[b] /\ in'.sectors[b] \in Nat
    BY <1>1, NoInputType DEF BeginStep, EndStep, InputType
  <2>3. \A b \in Buckets : Total(Sizes, UsesRoom(b)') = 0
    BY <2>1, TotalEmpty
  <2> QED
    BY <2>1, <2>2, <2>3, FS_EmptySet DEF RoomInv
<1>2. ASSUME NEW s \in Symbols, SkipSell(s) \/ SkipBuy(s)
      PROVE  RoomInv'
  BY <1>2 DEF SkipSell, SkipBuy, RoomInv, UsesRoom
<1>3. ASSUME NEW s \in Symbols, NEW status \in ResultStatuses, SendSell(s, status)
      PROVE  RoomInv'
  <2> DEFINE o == Order(s, "sell", in.heldQty[s], 0, status)
  <2>1. submitted' = submitted \cup {o} /\ o.side = "sell" /\ UNCHANGED <<in, exposure>>
    BY <1>3 DEF SendSell, Order
  <2> HIDE DEF o
  <2>2. \A b \in Buckets : UsesRoom(b)' = UsesRoom(b)
    BY <2>1 DEF UsesRoom
  <2>3. IsFiniteSet(submitted')
    BY <2>1, FS_AddElement DEF RoomInv
  <2> QED
    BY <2>1, <2>2, <2>3 DEF RoomInv
<1>4. ASSUME NEW s \in Symbols, NEW status \in ResultStatuses, SendBuy(s, status)
      PROVE  RoomInv'
  <2> DEFINE o == Order(s, "buy", Lots(in.equity, SizedOf(s), in.price[s]), SizedOf(s), status)
  <2>1. /\ submitted' = submitted \cup {o} /\ s \in pendingBuys /\ UNCHANGED in
        /\ exposure' = Grown(s, status)
        /\ o.symbol = s /\ o.side = "buy" /\ o.status = status /\ o.sized = SizedOf(s)
    BY <1>4 DEF SendBuy, Order
  <2>2. SizedOf(s) \in Nat
    BY SizedBounds DEF TypeOK
  <2>3. o \notin submitted
    BY <2>1 DEF StepInv, OneOrderPerSymbol
  <2>4. IsFiniteSet(submitted')
    BY <2>1, FS_AddElement DEF RoomInv
  <2>5. submitted \subseteq OrderType /\ o \in OrderType
    BY <1>4, <2>1, NextTypeOK DEF TypeOK, Next
  <2> HIDE DEF o
  <2>6. ASSUME NEW b \in Buckets
        PROVE  exposure'[b] = in'.sectors[b] + Total(Sizes, UsesRoom(b)')
    <3>1. /\ IsFiniteSet(UsesRoom(b)) /\ o \notin UsesRoom(b)
          /\ \A x \in UsesRoom(b) : Sizes[x] \in Int
          /\ Sizes[o] = SizedOf(s) /\ Sizes[o] \in Int
      BY <2>1, <2>2, <2>3, <2>5, FS_Subset DEF RoomInv, UsesRoom, Sizes, OrderType
    <3>2. in.sectors[b] \in Nat /\ exposure[b] = in.sectors[b] + Total(Sizes, UsesRoom(b))
      BY DEF RoomInv, TypeOK, InputType
    <3>3. Total(Sizes, UsesRoom(b)) \in Int
      BY <3>1, TotalType
    <3>4. CASE status = "rejected" \/ b # Bucket[s]
      <4>1. UsesRoom(b)' = UsesRoom(b)
        BY <2>1, <3>4 DEF UsesRoom
      <4>2. exposure'[b] = exposure[b]
        BY <2>1, <3>4 DEF Grown, TypeOK
      <4> QED
        BY <2>1, <3>2, <4>1, <4>2
    <3>5. CASE status # "rejected" /\ b = Bucket[s]
      <4>1. UsesRoom(b)' = UsesRoom(b) \cup {o}
        BY <2>1, <3>5 DEF UsesRoom
      <4>2. exposure'[b] = exposure[b] + SizedOf(s)
        BY <2>1, <3>5 DEF Grown, TypeOK
      <4>3. Total(Sizes, UsesRoom(b) \cup {o}) = Total(Sizes, UsesRoom(b)) + Sizes[o]
        BY <3>1, TotalAdd
      <4> QED
        BY <2>1, <2>2, <3>1, <3>2, <3>3, <4>1, <4>2, <4>3
    <3> QED
      BY <3>4, <3>5
  <2> QED
    BY <2>4, <2>6 DEF RoomInv
<1>5. CASE UNCHANGED vars
  BY <1>5 DEF vars, RoomInv, UsesRoom
<1> QED
  BY <1>1, <1>2, <1>3, <1>4, <1>5 DEF Next

(* Sector room is the snapshot's plus that of the BUYs the broker did not  *)
(* reject, in whatever order the loop sent them (runner.py:155-158).       *)
THEOREM ExposureAlwaysAccounted == Spec => []ExposureAccounted
<1>1. TypeOK /\ RoomInv => ExposureAccounted
  <2> SUFFICES ASSUME TypeOK, RoomInv, NEW b \in Buckets
               PROVE  exposure[b] = in.sectors[b] + MapThenSumSet(LAMBDA o : o.sized, UsesRoom(b))
    BY DEF ExposureAccounted, UsesRoom
  <2>1. UsesRoom(b) \subseteq OrderType
    BY DEF UsesRoom, TypeOK
  <2> QED
    BY <2>1, RoomSum DEF RoomInv
<1> QED
  BY <1>1, InitTypeOK, NextTypeOK, InitStepInv, NextStepInv, InitRoomInv, NextRoomInv, PTL
     DEF Spec
-----------------------------------------------------------------------------
(* By the form of its actions a fold step is a strategy step or leaves it  *)
(* alone: what is proved of the step carries over.                         *)

LEMMA FoldStepRefines == [FoldNext]_allVars => [Next]_vars
<1> SUFFICES ASSUME [FoldNext]_allVars
             PROVE  Next \/ UNCHANGED vars
  BY DEF vars
<1>1. {"filled", "rejected"} \subseteq ResultStatuses
  BY FoldAssumption
<1>2. CASE StartDay
  BY <1>2 DEF StartDay, Next
<1>3. CASE FinishStep
  BY <1>3 DEF FinishStep, Next
<1>4. CASE MarkDay \/ FoldDone \/ LogOrder \/ StartStops \/ LogStop
  BY <1>4 DEF MarkDay, FoldDone, LogOrder, StartStops, LogStop, allVars
<1>5. ASSUME NEW s \in Symbols, PlaceSell(s)
      PROVE  Next
  BY <1>1, <1>5 DEF PlaceSell, Next
<1>6. ASSUME NEW s \in Symbols, PlaceBuy(s)
      PROVE  Next
  BY <1>1, <1>6 DEF PlaceBuy, Next
<1>7. ASSUME NEW s \in Symbols, DropSignal(s)
      PROVE  Next
  BY <1>7 DEF DropSignal, Next
<1>8. ASSUME NEW s \in Symbols, CheckStop(s)
      PROVE  UNCHANGED vars
  BY <1>8 DEF CheckStop
<1>9. CASE UNCHANGED allVars
  BY <1>9 DEF allVars
<1> QED
  BY <1>2, <1>3, <1>4, <1>5, <1>6, <1>7, <1>8, <1>9 DEF FoldNext

(* What is proved of StrategyStep for an open executor holds in a fold.    *)
LEMMA FoldImplementsStep == FoldSpec => Spec
<1>1. FoldInit => Init
  BY DEF FoldInit
<1> QED
  BY <1>1, FoldStepRefines, PTL DEF FoldSpec, Spec

-----------------------------------------------------------------------------
(* Money.  Amounts in basis points of a natural stay within it.            *)
LEMMA BpsOfBounds ==
  ASSUME NEW amount \in Nat, NEW bps \in 0..BpsFull
  PROVE  BpsOf(amount, bps) \in 0..amount
<1>1. amount * bps \in Nat /\ amount * bps <= amount * BpsFull /\ BpsFull \in Nat \ {0}
  BY ExecutionAssumption, SMT
<1> QED
  BY <1>1, SMT DEF BpsOf

(* A sell's fees never eat more than its proceeds (portfolio.py:406).      *)
LEMMA FeesBounds ==
  ASSUME NEW qty \in Nat, NEW price \in Nat
  PROVE  qty * price \in Nat /\ Fees(qty, price) \in 0..(qty * price)
<1>1. qty * price \in Nat
  BY SMT
<1> QED
  BY <1>1, BpsOfBounds, ExecutionAssumption DEF Fees

IsBars(bars) == DOMAIN bars \subseteq Nat /\ \A d \in DOMAIN bars : bars[d] \in BarType

(* Simulated fills happen at prices that are not negative, the limit       *)
(* offset and the slippage being at most the whole price.                  *)
LEMMA AtOpenPrice ==
  ASSUME NEW bars, IsBars(bars), NEW days \in SUBSET DOMAIN bars, NEW f \in AtOpen(bars, days)
  PROVE  f.price \in Nat
<1>0. PICK e \in days :
        f = [day |-> e, price |-> bars[e].open + BpsOf(bars[e].open, MarketSlippageBps)]
  BY Zenon DEF AtOpen
<1>1. e \in DOMAIN bars /\ f.price = bars[e].open + BpsOf(bars[e].open, MarketSlippageBps)
  BY <1>0
<1>2. bars[e].open \in Nat
  BY <1>1 DEF IsBars, BarType
<1>3. BpsOf(bars[e].open, MarketSlippageBps) \in 0..bars[e].open
  BY <1>2, BpsOfBounds, ExecutionAssumption
<1> QED
  BY <1>1, <1>2, <1>3

LEMMA LimitHitPrice ==
  ASSUME NEW bars, IsBars(bars), NEW d, NEW f \in LimitHits(bars, d)
  PROVE  f.price \in Nat
<1>1. PICK c \in LastClose(bars, d) : f.price = c - BpsOf(c, LimitOffsetBps)
  BY DEF LimitHits
<1>2. c \in Nat
  BY DEF LastClose, LastBar, IsBars, BarType
<1>3. BpsOf(c, LimitOffsetBps) \in 0..c
  BY <1>2, BpsOfBounds, ExecutionAssumption
<1> QED
  BY <1>1, <1>2, <1>3

LEMMA BuyFillPrice ==
  ASSUME NEW bars, IsBars(bars), NEW d, NEW mode, NEW f \in BuyFill(bars, d, mode)
  PROVE  f.price \in Nat
<1>1. \A n : Nth(Forward(bars, d), n) \in SUBSET DOMAIN bars
  BY DEF Nth, Forward
<1>2. CASE \E n : f \in AtOpen(bars, Nth(Forward(bars, d), n))
  BY <1>1, <1>2, AtOpenPrice
<1>3. CASE f \in LimitHits(bars, d)
  BY <1>3, LimitHitPrice
<1> QED
  BY <1>2, <1>3 DEF BuyFill, LimitBuy

LEMMA SellFillPrice ==
  ASSUME NEW bars, IsBars(bars), NEW d, NEW f \in SellFill(bars, d)
  PROVE  f.price \in Nat
<1>0. PICK e \in Nth(Forward(bars, d), 1) :
        f = [day |-> e, price |-> bars[e].open - BpsOf(bars[e].open, MarketSlippageBps)]
  BY Zenon DEF SellFill
<1>1. e \in DOMAIN bars /\ f.price = bars[e].open - BpsOf(bars[e].open, MarketSlippageBps)
  BY <1>0 DEF Nth, Forward
<1>2. bars[e].open \in Nat
  BY <1>1 DEF IsBars, BarType
<1>3. BpsOf(bars[e].open, MarketSlippageBps) \in 0..bars[e].open
  BY <1>2, BpsOfBounds, ExecutionAssumption
<1> QED
  BY <1>1, <1>2, <1>3

(* A stop level may be negative (a wide ATR under a cheap symbol), but one *)
(* that is touched is not: the bar traded down to it.                      *)
LEMMA StopPriceType ==
  ASSUME NEW p \in PositionType, NEW bar \in BarType, NEW level \in LevelHit(p, bar)
  PROVE  StopPrice(level) \in Nat
<1>1. level \in Nat
  BY SMT DEF LevelHit, PositionType, BarType
<1>2. BpsOf(level, MarketSlippageBps) \in 0..level
  BY <1>1, BpsOfBounds, ExecutionAssumption
<1> QED
  BY <1>1, <1>2 DEF StopPrice

-----------------------------------------------------------------------------
(* apply keeps positions and books well formed; a sale never costs cash.   *)
LEMMA AddedType ==
  ASSUME NEW p \in PositionType, NEW qty \in Nat, NEW price \in Nat
  PROVE  Added(p, qty, price) \in PositionType /\ Added(p, qty, price).lots >= p.lots
<1> DEFINE cost == p.cost + qty * price
<1>1. cost \in Nat
  BY SMT DEF PositionType
<1>2. Added(p, qty, price) = [p EXCEPT !.lots = @ + qty, !.cost = cost, !.last = price]
  BY DEF Added
<1> HIDE DEF cost
<1>3. Added(p, qty, price) =
        [lots |-> p.lots + qty, cost |-> cost, last |-> price, levels |-> p.levels]
  BY <1>2 DEF PositionType
<1> QED
  BY <1>1, <1>3 DEF PositionType

LEMMA CostOfBounds ==
  ASSUME NEW p \in PositionType, NEW qty \in 0..p.lots
  PROVE  CostOf(p, qty) \in 0..p.cost
<1>1. p.cost \in Nat /\ p.lots \in Nat
  BY DEF PositionType
<1>2. CASE qty = p.lots
  BY <1>1, <1>2 DEF CostOf
<1>3. CASE qty # p.lots
  <2>1. p.lots \in Nat \ {0} /\ p.cost * qty \in Nat /\ p.cost * qty <= p.cost * p.lots
    BY <1>1, <1>3, SMT
  <2>2. (p.cost * qty) \div p.lots \in 0..p.cost
    BY <1>1, <2>1, SMT
  <2> QED
    BY <1>3, <2>2 DEF CostOf
<1> QED
  BY <1>2, <1>3

LEMMA ReducedType ==
  ASSUME NEW p \in PositionType, NEW qty \in 0..p.lots, NEW price \in Nat
  PROVE  Reduced(p, qty, price) \in PositionType
<1>1. NoPosition \in PositionType
  BY DEF NoPosition, PositionType
<1>2. p.cost \in Nat /\ p.lots \in Nat /\ CostOf(p, qty) \in 0..p.cost
  BY CostOfBounds DEF PositionType
<1>3. p.lots - qty \in Nat /\ p.cost - CostOf(p, qty) \in Nat
  BY <1>2
<1> QED
  BY <1>1, <1>3 DEF Reduced, PositionType

LEMMA PaidType ==
  ASSUME NEW b \in BooksType, NEW qty \in Nat, NEW price \in Nat
  PROVE  /\ Paid(b, qty, price) \in BooksType
         /\ Paid(b, qty, price).cash = b.cash - (qty * price + Fees(qty, price))
<1> DEFINE notional == qty * price
           fees == Fees(qty, price)
           cash == b.cash - (notional + fees)
<1>0. notional \in Nat /\ fees \in 0..notional
  BY FeesBounds
<1> HIDE DEF notional, fees
<1>1. cash \in Int /\ fees \in Nat
  BY <1>0 DEF BooksType
<1>2. Paid(b, qty, price) = [b EXCEPT !.cash = cash, !.trades = @ + 1,
                                      !.entryFees = @ + fees]
  BY DEF Paid, notional, fees
<1> HIDE DEF cash
<1>3. Paid(b, qty, price) =
        [cash |-> cash, realized |-> b.realized, trades |-> b.trades + 1, wins |-> b.wins,
         losses |-> b.losses, entryFees |-> b.entryFees + fees]
  BY <1>2 DEF BooksType
<1>4. Paid(b, qty, price) \in BooksType /\ Paid(b, qty, price).cash = cash
  BY <1>1, <1>3 DEF BooksType
<1> QED
  BY <1>4 DEF cash, notional, fees

LEMMA CreditedType ==
  ASSUME NEW b \in BooksType, NEW p \in PositionType, NEW qty \in 0..p.lots,
         NEW price \in Nat, NEW fees \in 0..(qty * price)
  PROVE  /\ Credited(b, p, qty, price, fees) \in BooksType
         /\ Credited(b, p, qty, price, fees).cash >= b.cash
<1>1. qty * price \in Nat /\ CostOf(p, qty) \in Int
  BY CostOfBounds, SMT DEF PositionType
<1> DEFINE gain == qty * price - CostOf(p, qty) - fees
           cash == b.cash + qty * price - fees
           realized == b.realized + gain
           wins == b.wins + (IF gain > 0 THEN 1 ELSE 0)
           losses == b.losses + (IF gain < 0 THEN 1 ELSE 0)
<1>2. gain \in Int
  BY <1>1, SMT
<1>3. Credited(b, p, qty, price, fees) =
        [b EXCEPT !.cash = cash, !.trades = @ + 1, !.realized = realized,
                  !.wins = wins, !.losses = losses]
  BY DEF Credited
<1> HIDE DEF gain
<1>4. /\ cash \in Int /\ cash >= b.cash /\ realized \in Int
      /\ wins \in Nat /\ losses \in Nat
  BY <1>1, <1>2, SMT DEF BooksType
<1> HIDE DEF cash, realized, wins, losses
<1>5. Credited(b, p, qty, price, fees) =
        [cash |-> cash, realized |-> realized, trades |-> b.trades + 1,
         wins |-> wins, losses |-> losses, entryFees |-> b.entryFees]
  BY <1>3 DEF BooksType
<1>6. b.trades + 1 \in Nat /\ b.entryFees \in Nat
  BY DEF BooksType
<1> QED
  BY <1>4, <1>5, <1>6 DEF BooksType

-----------------------------------------------------------------------------
(* The inductive invariant.  Cash alone is not inductive: that a sell is   *)
(* covered keeps positions natural, and positions bound what a sell pays.  *)
FoldInv ==
  /\ FoldTypeOK /\ CashCovered /\ SellsCovered
  /\ phase # "step" => day <= LastDay

LEMMA PanelBars ==
  ASSUME panel \in Panels, NEW s \in Symbols
  PROVE  IsBars(panel.bars[s])
BY FoldAssumption DEF IsPanel, IsBars

LEMMA CloseOnType ==
  ASSUME panel \in Panels, NEW s \in Symbols, NEW d
  PROVE  CloseOn(s, d) \in Nat
<1> DEFINE closes == LastClose(panel.bars[s], d)
<1>1. closes \subseteq Nat
  BY PanelBars DEF LastClose, LastBar, IsBars, BarType
<1>2. closes # {} => (CHOOSE c \in closes : TRUE) \in closes
  OBVIOUS
<1> QED
  BY <1>1, <1>2 DEF CloseOn

LEMMA InitFoldInv == FoldInit => FoldInv
<1> SUFFICES ASSUME FoldInit
             PROVE  FoldInv
  OBVIOUS
<1>1. NoPosition \in PositionType
  BY DEF NoPosition, PositionType
<1>2. books \in BooksType /\ books.cash >= 0
  BY FoldAssumption DEF FoldInit, BooksType
<1>3. day \in 1..(LastDay + 1)
  BY FoldAssumption DEF FoldInit
<1> QED
  BY <1>1, <1>2, <1>3
     DEF FoldInit, Init, FoldInv, FoldTypeOK, CashCovered, SellsCovered, Phases

LEMMA StartDayFoldInv ==
  ASSUME FoldInv, TypeOK, TypeOK', StartDay
  PROVE  FoldInv'
<1> USE DEF FoldInv, FoldTypeOK, CashCovered, SellsCovered, Phases
<1>1. CASE (day - 1) % setting.rebalanceDays = 0
  <2>1. in' = StepInput(day) /\ BeginStep /\ phase' = "orders" /\ UNCHANGED pendingStops
    BY <1>1 DEF StartDay
  <2>2. \A s \in Symbols : in'.heldQty[s] = pos[s].lots
    BY <2>1 DEF StepInput, HeldQuantities
  <2>3. pendingSells' \subseteq Symbols /\ running'
    BY <2>1 DEF TypeOK, BeginStep
  <2>4. \A s \in Symbols : pos[s].lots \in Nat
    BY DEF PositionType
  <2> QED
    BY <2>1, <2>2, <2>3, <2>4 DEF StartDay
<1>2. CASE (day - 1) % setting.rebalanceDays # 0
  BY <1>2 DEF StartDay, vars, Held
<1> QED
  BY <1>1, <1>2

(* A SELL order: the position is sold whole and cash grows. *)
LEMMA PlaceSellFoldInv ==
  ASSUME FoldInv, TypeOK, NEW s \in Symbols, PlaceSell(s)
  PROVE  FoldInv'
<1> USE DEF FoldInv, FoldTypeOK, CashCovered, SellsCovered, Phases
<1> DEFINE qty == in.heldQty[s]
<1>1. /\ phase = "orders" /\ s \in pendingSells /\ UNCHANGED <<in, running>>
      /\ pendingSells' = pendingSells \ {s}
      /\ UNCHANGED <<panel, setting, day, phase, pendingStops>>
  BY DEF PlaceSell, SendSell
<1>2. qty \in 0..pos[s].lots /\ pos[s] \in PositionType
  BY <1>1 DEF TypeOK, InputType, PositionType
<1>3. CASE UNCHANGED <<pos, books>>
  BY <1>1, <1>3
<1>4. ASSUME NEW f \in SellFill(panel.bars[s], day),
             books' = Credited(books, pos[s], qty, f.price, Fees(qty, f.price)),
             pos' = [pos EXCEPT ![s] = Reduced(@, qty, f.price)]
      PROVE  FoldInv'
  <2>1. f.price \in Nat /\ qty \in Nat
    BY <1>2, PanelBars, SellFillPrice DEF PositionType
  <2>2. Fees(qty, f.price) \in 0..(qty * f.price)
    BY <2>1, FeesBounds
  <2>3. books' \in BooksType /\ books'.cash >= books.cash
    BY <1>2, <1>4, <2>1, <2>2, CreditedType
  <2>4. pos' \in [Symbols -> PositionType]
    BY <1>2, <1>4, <2>1, ReducedType
  <2>5. \A x \in Symbols \ {s} : pos'[x] = pos[x]
    BY <1>4
  <2>6. books'.cash >= 0
    BY <2>3 DEF BooksType
  <2> QED
    BY <1>1, <2>3, <2>4, <2>5, <2>6 DEF TypeOK
<1> QED
  BY <1>3, <1>4 DEF PlaceSell

(* A BUY order: filled only if cash covers notional and fees. *)
LEMMA PlaceBuyFoldInv ==
  ASSUME FoldInv, TypeOK, NEW s \in Symbols, PlaceBuy(s)
  PROVE  FoldInv'
<1> USE DEF FoldInv, FoldTypeOK, CashCovered, SellsCovered, Phases
<1> DEFINE qty == Lots(in.equity, SizedOf(s), in.price[s])
<1>1. /\ phase = "orders" /\ pendingSells = {} /\ Sendable(s)
      /\ UNCHANGED <<in, running, pendingSells>>
      /\ UNCHANGED <<panel, setting, day, phase, pendingStops>>
  BY DEF PlaceBuy, SendBuy
<1>2. qty \in Nat
  BY <1>1, LotsType DEF TypeOK
<1> HIDE DEF qty
<1>3. CASE UNCHANGED <<pos, books>>
  BY <1>1, <1>3
<1>4. ASSUME NEW f \in BuyFill(panel.bars[s], day, setting.fillMode),
             Covers(qty, f.price), books' = Paid(books, qty, f.price),
             pos' = [pos EXCEPT ![s] = Added(@, qty, f.price)]
      PROVE  FoldInv'
  <2>1. f.price \in Nat
    BY PanelBars, BuyFillPrice
  <2>2. books' \in BooksType /\ books'.cash = books.cash - (qty * f.price + Fees(qty, f.price))
    BY <1>2, <1>4, <2>1, PaidType
  <2>3. pos' \in [Symbols -> PositionType]
    BY <1>2, <1>4, <2>1, AddedType
  <2>4. qty * f.price \in Nat /\ Fees(qty, f.price) \in 0..(qty * f.price)
    BY <1>2, <2>1, FeesBounds
  <2>5. books'.cash >= 0
    BY <1>4, <2>2, <2>4 DEF Covers, BooksType
  <2> QED
    BY <1>1, <2>2, <2>3, <2>5
<1> QED
  BY <1>3, <1>4 DEF PlaceBuy, qty

LEMMA FinishStepFoldInv ==
  ASSUME FoldInv, TypeOK, FinishStep
  PROVE  FoldInv'
BY DEF FinishStep, EndStep, FoldInv, FoldTypeOK, CashCovered, SellsCovered, Phases

(* What the log loop works on: the answers of the step or of check_stops.  *)
ResultType ==
  [symbol: Symbols, side: {"buy", "sell"}, status: {"filled", "rejected"}, qty: Nat,
   price: Nat, bar: Nat, close: Nat, via: {"step", "stop"}]

ResultsInv ==
  /\ results \in Seq(ResultType) /\ logged \in 0..Len(results)
  /\ phase = "step" => results = <<>>
  /\ phase = "orders" => logged = 0
  /\ phase = "stops" => \A i \in DOMAIN results : results[i].status = "filled"

LEMMA LogOrderFoldInv ==
  ASSUME FoldInv, ResultsInv, LogOrder
  PROVE  FoldInv'
<1> USE DEF FoldInv, FoldTypeOK, CashCovered, SellsCovered, Phases
<1> DEFINE r == results[logged + 1]
<1>1. r \in ResultType
  BY DEF ResultsInv, LogOrder
<1>2. [pos[r.symbol] EXCEPT !.levels = LevelsAt(r.close)] \in PositionType
  <2>1. LevelsAt(r.close) \in SUBSET [stop: Int, take: Nat]
    BY <1>1, ExecutionAssumption DEF LevelsAt, ResultType
  <2> QED
    BY <1>1, <2>1 DEF PositionType, ResultType
<1>3. pos' \in [Symbols -> PositionType]
  BY <1>1, <1>2 DEF LogOrder, ResultType
<1> QED
  BY <1>3 DEF LogOrder, vars

LEMMA CheckStopFoldInv ==
  ASSUME FoldInv, TypeOK, NEW s \in Symbols, CheckStop(s)
  PROVE  FoldInv'
<1> USE DEF FoldInv, FoldTypeOK, CashCovered, SellsCovered, Phases
<1>1. /\ phase = "stops" /\ UNCHANGED <<panel, setting, day, phase, running>>
      /\ pendingStops' \subseteq pendingStops
  BY DEF CheckStop, vars
<1>2. CASE UNCHANGED <<pos, books>>
  BY <1>1, <1>2
<1>3. ASSUME NEW level \in TouchedLevels(s),
             books' = Credited(books, pos[s], pos[s].lots, StopPrice(level), 0),
             pos' = [pos EXCEPT ![s] = Reduced(@, pos[s].lots, StopPrice(level))]
      PROVE  FoldInv'
  <2>1. pos[s] \in PositionType /\ pos[s].lots \in 0..pos[s].lots
    BY DEF PositionType
  <2>2. StopPrice(level) \in Nat
    <3>1. day \in DOMAIN panel.bars[s] /\ level \in LevelHit(pos[s], panel.bars[s][day])
      BY <1>3 DEF TouchedLevels
    <3>2. panel.bars[s][day] \in BarType
      BY <3>1, PanelBars DEF IsBars
    <3> QED
      BY <2>1, <3>1, <3>2, StopPriceType
  <2>3. 0 \in 0..(pos[s].lots * StopPrice(level))
    BY <2>1, <2>2, FeesBounds DEF PositionType
  <2>4. books' \in BooksType /\ books'.cash >= books.cash
    BY <1>3, <2>1, <2>2, <2>3, CreditedType
  <2>5. pos' \in [Symbols -> PositionType]
    BY <1>3, <2>1, <2>2, ReducedType
  <2>6. books'.cash >= 0
    BY <2>4 DEF BooksType
  <2> QED
    BY <1>1, <2>4, <2>5, <2>6
<1> QED
  BY <1>2, <1>3 DEF CheckStop

LEMMA MarkDayFoldInv ==
  ASSUME FoldInv, TypeOK, MarkDay
  PROVE  FoldInv'
<1> USE DEF FoldInv, FoldTypeOK, CashCovered, SellsCovered, Phases
<1>1. ASSUME NEW s \in Symbols
      PROVE  [pos[s] EXCEPT !.last = CloseOn(s, day)] \in PositionType
  BY CloseOnType DEF PositionType
<1>2. pos' \in [Symbols -> PositionType]
  BY <1>1 DEF MarkDay
<1>3. day' \in 1..(LastDay + 1)
  BY FoldAssumption DEF MarkDay
<1> QED
  BY <1>2, <1>3 DEF MarkDay, vars

LEMMA NextFoldInv ==
  FoldInv /\ ResultsInv /\ TypeOK /\ TypeOK' /\ [FoldNext]_allVars => FoldInv'
<1> SUFFICES ASSUME FoldInv, ResultsInv, TypeOK, TypeOK', [FoldNext]_allVars
             PROVE  FoldInv'
  OBVIOUS
<1>1. ASSUME NEW s \in Symbols, DropSignal(s)
      PROVE  FoldInv'
  <2>1. UNCHANGED foldVars /\ UNCHANGED <<in, running>> /\ pendingSells' \subseteq pendingSells
    BY <1>1 DEF DropSignal, SkipSell, SkipBuy
  <2> QED
    BY <2>1 DEF foldVars, FoldInv, FoldTypeOK, CashCovered, SellsCovered
<1>2. CASE FoldDone \/ UNCHANGED allVars
  BY <1>2 DEF FoldDone, allVars, foldVars, vars, FoldInv, FoldTypeOK, CashCovered, SellsCovered
<1>3. CASE StartStops \/ LogStop
  BY <1>3 DEF StartStops, LogStop, Held, vars, FoldInv, FoldTypeOK, CashCovered, SellsCovered,
              Phases
<1> QED
  BY <1>1, <1>2, <1>3, StartDayFoldInv, PlaceSellFoldInv, PlaceBuyFoldInv, FinishStepFoldInv,
     LogOrderFoldInv, CheckStopFoldInv, MarkDayFoldInv DEF FoldNext

-----------------------------------------------------------------------------
(* What a fold step does to positions, books and log: it leaves them, it   *)
(* sells a position whole, or it adds to one.  The three shapes carry the  *)
(* arguments about money, the log and the levels.                          *)

(* The quantity of a pending SELL was read before the loop; no order of    *)
(* the loop touches the position since.                                    *)
ExactInv == phase = "orders" => \A s \in pendingSells : in.heldQty[s] = pos[s].lots

LEMMA InitExactInv == FoldInit => ExactInv
BY DEF FoldInit, ExactInv

LEMMA NextExactInv ==
  FoldInv /\ TypeOK /\ TypeOK' /\ ExactInv /\ [FoldNext]_allVars => ExactInv'
<1> SUFFICES ASSUME FoldInv, TypeOK, TypeOK', ExactInv, [FoldNext]_allVars
             PROVE  ExactInv'
  OBVIOUS
<1>0. pos \in [Symbols -> PositionType] /\ phase \in Phases
  BY DEF FoldInv, FoldTypeOK
<1>1. CASE StartDay
  <2>1. CASE phase' = "orders"
    <3>1. in' = StepInput(day) /\ UNCHANGED pos
      BY <1>1, <2>1 DEF StartDay
    <3>2. \A s \in Symbols : in'.heldQty[s] = pos'[s].lots
      BY <3>1 DEF StepInput, HeldQuantities
    <3>3. pendingSells' \subseteq Symbols
      BY DEF TypeOK
    <3> QED
      BY <3>2, <3>3 DEF ExactInv
  <2> QED
    BY <2>1 DEF ExactInv
<1>2. ASSUME NEW s \in Symbols, PlaceSell(s)
      PROVE  ExactInv'
  <2>1. /\ pendingSells' = pendingSells \ {s} /\ phase = "orders" /\ UNCHANGED <<in, phase>>
        /\ \A x \in Symbols \ {s} : pos'[x] = pos[x]
    BY <1>0, <1>2 DEF PlaceSell, SendSell
  <2> QED
    BY <2>1 DEF ExactInv, TypeOK
<1>3. ASSUME NEW s \in Symbols, PlaceBuy(s)
      PROVE  ExactInv'
  <2>1. pendingSells' = {}
    BY <1>3 DEF PlaceBuy, SendBuy
  <2> QED
    BY <2>1 DEF ExactInv
<1>4. ASSUME NEW s \in Symbols, DropSignal(s)
      PROVE  ExactInv'
  <2>1. UNCHANGED foldVars /\ UNCHANGED in /\ pendingSells' \subseteq pendingSells
    BY <1>4 DEF DropSignal, SkipSell, SkipBuy
  <2> QED
    BY <2>1 DEF foldVars, ExactInv
<1>5. CASE FinishStep
  BY <1>5 DEF FinishStep, ExactInv
<1>6. ASSUME NEW s \in Symbols, CheckStop(s)
      PROVE  ExactInv'
  BY <1>6 DEF CheckStop, ExactInv
<1>7. CASE MarkDay
  BY <1>7 DEF MarkDay, ExactInv
<1>8. CASE LogOrder \/ StartStops \/ LogStop \/ FoldDone \/ UNCHANGED allVars
  BY <1>8 DEF LogOrder, StartStops, LogStop, FoldDone, allVars, foldVars, vars, ExactInv
<1> QED
  BY <1>1, <1>2, <1>3, <1>4, <1>5, <1>6, <1>7, <1>8 DEF FoldNext

LogType ==
  [symbol: Symbols, side: {"buy", "sell"}, qty: Nat, price: Nat, signalled: Nat, bar: Nat,
   via: {"step", "stop"}]

(* A strategy order in market mode fills on the first bar after its day.   *)
NextBar(s, bar) == bar \in Nth(Forward(panel.bars[s], day), 1)

OnNextBar(r) ==
  /\ r.side = "buy" => r.via = "step"
  /\ setting.fillMode = "market" /\ r.status = "filled" /\ r.via = "step" =>
       NextBar(r.symbol, r.bar)

Answered(r) ==
  /\ r \in ResultType /\ OnNextBar(r)
  /\ results' = Append(results, r) /\ phase # "step"
  /\ UNCHANGED <<panel, setting, day, phase, logged, fillLog>>

KeptBook ==
  /\ UNCHANGED books
  /\ \A s \in Symbols : pos'[s].lots = pos[s].lots /\ pos'[s].cost = pos[s].cost

Kept ==
  /\ KeptBook /\ UNCHANGED <<panel, setting, day, results, logged, fillLog>>
  /\ phase' = phase \/ phase = "step" \/ phase' = "log"

SoldWhole(r, fees) ==
  /\ Answered(r) /\ r.status = "filled" /\ r.side = "sell" /\ r.qty = pos[r.symbol].lots
  /\ fees \in Nat
  /\ books' = Credited(books, pos[r.symbol], pos[r.symbol].lots, r.price, fees)
  /\ pos' = [pos EXCEPT ![r.symbol] = NoPosition]

BoughtMore(r) ==
  /\ Answered(r) /\ r.status = "filled" /\ r.side = "buy" /\ r.qty # 0 /\ phase = "orders"
  /\ books' = Paid(books, r.qty, r.price)
  /\ pos' = [pos EXCEPT ![r.symbol] = Added(@, r.qty, r.price)]

Refused(r) == Answered(r) /\ r.status = "rejected" /\ phase = "orders" /\ KeptBook

(* One answer is gone through, and the answers are done with.              *)
Logged ==
  /\ KeptBook /\ logged < Len(results) /\ logged' = logged + 1
  /\ UNCHANGED <<panel, setting, day, results, phase>>
  /\ phase \notin {"step", "orders"}
  /\ fillLog' = IF results[logged + 1].status = "filled"
                THEN Append(fillLog, Row(results[logged + 1])) ELSE fillLog

Cleared ==
  /\ KeptBook /\ logged = Len(results) /\ results' = <<>> /\ logged' = 0
  /\ UNCHANGED <<panel, setting, fillLog>> /\ day' \in {day, day + 1}

Kinds ==
  \/ Kept \/ Logged \/ Cleared
  \/ \E r : BoughtMore(r) \/ Refused(r) \/ \E fees : SoldWhole(r, fees)

(* Every fill is on a day of the bars; in market mode on the next one.     *)
LEMMA AtOpenDay ==
  ASSUME NEW bars, NEW days, NEW f \in AtOpen(bars, days)
  PROVE  f.day \in days
<1>1. PICK e \in days :
        f = [day |-> e, price |-> bars[e].open + BpsOf(bars[e].open, MarketSlippageBps)]
  BY Zenon DEF AtOpen
<1> QED
  BY <1>1

LEMMA BuyFillDay ==
  ASSUME NEW bars, IsBars(bars), NEW d, NEW mode, NEW f \in BuyFill(bars, d, mode)
  PROVE  f.day \in Nat /\ (mode = "market" => f.day \in Nth(Forward(bars, d), 1))
<1>1. \A n : Nth(Forward(bars, d), n) \subseteq Nat
  BY DEF Nth, Forward, IsBars
<1>2. ASSUME NEW n, f \in AtOpen(bars, Nth(Forward(bars, d), n))
      PROVE  f.day \in Nth(Forward(bars, d), n)
  BY <1>2, AtOpenDay
<1>3. CASE f \in LimitHits(bars, d) /\ mode # "market"
  BY <1>3 DEF LimitHits, Forward, IsBars
<1>4. CASE mode = "market"
  <2>1. f \in AtOpen(bars, Nth(Forward(bars, d), 1))
    BY <1>4 DEF BuyFill
  <2> QED
    BY <1>1, <1>2, <2>1
<1>5. CASE mode # "market" /\ f \notin LimitHits(bars, d)
  <2>1. f \in AtOpen(bars, Nth(Forward(bars, d), Window + 1))
    BY <1>5 DEF BuyFill, LimitBuy
  <2> QED
    BY <1>1, <1>2, <1>5, <2>1
<1> QED
  BY <1>3, <1>4, <1>5

LEMMA SellFillDay ==
  ASSUME NEW bars, IsBars(bars), NEW d, NEW f \in SellFill(bars, d)
  PROVE  f.day \in Nat /\ f.day \in Nth(Forward(bars, d), 1)
<1>1. PICK e \in Nth(Forward(bars, d), 1) :
        f = [day |-> e, price |-> bars[e].open - BpsOf(bars[e].open, MarketSlippageBps)]
  BY Zenon DEF SellFill
<1> QED
  BY <1>1 DEF Nth, Forward, IsBars

LEMMA FoldDay == FoldInv => day \in Nat
BY FoldAssumption DEF FoldInv, FoldTypeOK

LEMMA PlaceSellKind ==
  ASSUME FoldInv, TypeOK, ExactInv, NEW s \in Symbols, PlaceSell(s)
  PROVE  Kinds
<1>0. in.heldQty[s] = pos[s].lots /\ in.price[s] \in Nat
  BY DEF PlaceSell, SendSell, ExactInv, TypeOK, InputType
<1>1. /\ in.heldQty[s] = pos[s].lots /\ pos[s] \in PositionType /\ panel \in Panels
      /\ day \in Nat /\ in.price[s] \in Nat /\ phase = "orders" /\ pos[s].lots \in Nat
  BY <1>0, FoldDay DEF PlaceSell, FoldInv, FoldTypeOK, PositionType
<1>2. ASSUME results' = Append(results, Refusal(s, "sell")), UNCHANGED <<pos, books>>
      PROVE  Kinds
  <2> DEFINE r == Refusal(s, "sell")
  <2>1. r \in ResultType /\ OnNextBar(r) /\ r.status = "rejected"
    BY <1>1 DEF Refusal, ResultType, OnNextBar
  <2>2. results' = Append(results, r)
    BY <1>2
  <2> HIDE DEF r
  <2>3. Refused(r)
    BY <1>1, <1>2, <2>1, <2>2 DEF PlaceSell, Refused, Answered, KeptBook
  <2> QED
    BY <2>3 DEF Kinds
<1>3. ASSUME NEW f \in SellFill(panel.bars[s], day),
             books' = Credited(books, pos[s], pos[s].lots, f.price, Fees(pos[s].lots, f.price)),
             pos' = [pos EXCEPT ![s] = Reduced(@, pos[s].lots, f.price)],
             results' = Append(results,
                          Fill(s, "sell", pos[s].lots, f.price, f.day, in.price[s], "step"))
      PROVE  Kinds
  <2> DEFINE r == Fill(s, "sell", pos[s].lots, f.price, f.day, in.price[s], "step")
  <2>1. f.price \in Nat /\ f.day \in Nat /\ NextBar(s, f.day)
    BY <1>1, PanelBars, SellFillPrice, SellFillDay DEF NextBar
  <2>2. Fees(pos[s].lots, f.price) \in Nat
    <3>1. \A n \in Nat : 0..n \subseteq Nat
      OBVIOUS
    <3>2. /\ pos[s].lots * f.price \in Nat
          /\ Fees(pos[s].lots, f.price) \in 0..(pos[s].lots * f.price)
      BY <1>1, <2>1, FeesBounds
    <3> QED
      BY <3>1, <3>2
  <2>3. pos' = [pos EXCEPT ![s] = NoPosition]
    BY <1>3 DEF Reduced
  <2>4. /\ r \in ResultType /\ OnNextBar(r) /\ r.status = "filled" /\ r.side = "sell"
        /\ r.qty = pos[s].lots /\ r.symbol = s /\ r.price = f.price
    BY <1>1, <2>1 DEF Fill, ResultType, OnNextBar
  <2>5. results' = Append(results, r)
    BY <1>3
  <2> HIDE DEF r
  <2>6. SoldWhole(r, Fees(pos[s].lots, f.price))
    BY <1>1, <1>3, <2>2, <2>3, <2>4, <2>5 DEF PlaceSell, SoldWhole, Answered
  <2> QED
    BY <2>6 DEF Kinds
<1> QED
  BY <1>1, <1>2, <1>3 DEF PlaceSell

LEMMA PlaceBuyKind ==
  ASSUME FoldInv, TypeOK, NEW s \in Symbols, PlaceBuy(s)
  PROVE  Kinds
<1> DEFINE qty == Lots(in.equity, SizedOf(s), in.price[s])
<1>0. qty \in Nat \ {0}
  BY LotsType DEF PlaceBuy, SendBuy, TypeOK
<1>1. /\ qty \in Nat \ {0} /\ panel \in Panels
      /\ day \in Nat /\ in.price[s] \in Nat /\ phase = "orders"
  BY <1>0, FoldDay DEF PlaceBuy, TypeOK, InputType, FoldInv, FoldTypeOK
<1> HIDE DEF qty
<1>2. ASSUME results' = Append(results, Refusal(s, "buy")), UNCHANGED <<pos, books>>
      PROVE  Kinds
  <2> DEFINE r == Refusal(s, "buy")
  <2>1. r \in ResultType /\ OnNextBar(r) /\ r.status = "rejected"
    BY <1>1 DEF Refusal, ResultType, OnNextBar
  <2>2. results' = Append(results, r)
    BY <1>2
  <2> HIDE DEF r
  <2>3. Refused(r)
    BY <1>1, <1>2, <2>1, <2>2 DEF PlaceBuy, Refused, Answered, KeptBook
  <2> QED
    BY <2>3 DEF Kinds
<1>3. ASSUME NEW f \in BuyFill(panel.bars[s], day, setting.fillMode),
             books' = Paid(books, qty, f.price),
             pos' = [pos EXCEPT ![s] = Added(@, qty, f.price)],
             results' = Append(results,
                          Fill(s, "buy", qty, f.price, f.day, in.price[s], "step"))
      PROVE  Kinds
  <2> DEFINE r == Fill(s, "buy", qty, f.price, f.day, in.price[s], "step")
  <2>1. f.price \in Nat /\ f.day \in Nat /\ (setting.fillMode = "market" => NextBar(s, f.day))
    BY <1>1, PanelBars, BuyFillPrice, BuyFillDay DEF NextBar
  <2>2. /\ r \in ResultType /\ OnNextBar(r) /\ r.status = "filled" /\ r.side = "buy"
        /\ r.qty = qty /\ r.symbol = s /\ r.price = f.price
    BY <1>1, <2>1 DEF Fill, ResultType, OnNextBar
  <2>3. results' = Append(results, r)
    BY <1>3
  <2> HIDE DEF r
  <2>4. BoughtMore(r)
    BY <1>1, <1>3, <2>2, <2>3 DEF PlaceBuy, BoughtMore, Answered
  <2> QED
    BY <2>4 DEF Kinds
<1> QED
  BY <1>2, <1>3 DEF PlaceBuy, qty

LEMMA CheckStopKind ==
  ASSUME FoldInv, NEW s \in Symbols, CheckStop(s)
  PROVE  Kinds
<1>1. /\ pos[s] \in PositionType /\ panel \in Panels /\ day \in Nat /\ phase = "stops"
      /\ pos[s].lots \in Nat
  BY FoldDay DEF FoldInv, FoldTypeOK, PositionType, CheckStop
<1>2. CASE UNCHANGED <<pos, books, results>>
  BY <1>2 DEF CheckStop, Kinds, Kept, KeptBook
<1>3. ASSUME NEW level \in TouchedLevels(s),
             books' = Credited(books, pos[s], pos[s].lots, StopPrice(level), 0),
             pos' = [pos EXCEPT ![s] = Reduced(@, pos[s].lots, StopPrice(level))],
             results' = Append(results,
                          Fill(s, "sell", pos[s].lots, StopPrice(level), day, 0, "stop"))
      PROVE  Kinds
  <2> DEFINE r == Fill(s, "sell", pos[s].lots, StopPrice(level), day, 0, "stop")
  <2>1. StopPrice(level) \in Nat
    <3>1. day \in DOMAIN panel.bars[s] /\ level \in LevelHit(pos[s], panel.bars[s][day])
      BY <1>3 DEF TouchedLevels
    <3>2. panel.bars[s][day] \in BarType
      BY <1>1, <3>1, PanelBars DEF IsBars
    <3> QED
      BY <1>1, <3>1, <3>2, StopPriceType
  <2>2. pos' = [pos EXCEPT ![s] = NoPosition]
    BY <1>3 DEF Reduced
  <2>3. /\ r \in ResultType /\ OnNextBar(r) /\ r.status = "filled" /\ r.side = "sell"
        /\ r.qty = pos[s].lots /\ r.symbol = s /\ r.price = StopPrice(level)
    BY <1>1, <2>1 DEF Fill, ResultType, OnNextBar
  <2>4. results' = Append(results, r)
    BY <1>3
  <2> HIDE DEF r
  <2>5. SoldWhole(r, 0)
    BY <1>1, <1>3, <2>2, <2>3, <2>4 DEF CheckStop, SoldWhole, Answered
  <2> QED
    BY <2>5 DEF Kinds
<1> QED
  BY <1>2, <1>3 DEF CheckStop

LEMMA LoopKinds ==
  ASSUME FoldInv, ResultsInv, LogOrder \/ LogStop \/ StartStops \/ MarkDay
  PROVE  Kinds
<1>0. pos \in [Symbols -> PositionType] /\ day' \in {day, day + 1}
  BY DEF FoldInv, FoldTypeOK, LogOrder, LogStop, StartStops, MarkDay
<1>1. \A s \in Symbols : pos'[s].lots = pos[s].lots /\ pos'[s].cost = pos[s].cost
  <2>1. CASE LogOrder
    <3>1. PICK r \in ResultType : r = results[logged + 1]
      BY <2>1 DEF LogOrder, ResultsInv
    <3>2. r.symbol \in Symbols
      BY DEF ResultType
    <3>3. pos' = pos \/ pos' = [pos EXCEPT ![r.symbol].levels = LevelsAt(r.close)]
      BY <2>1, <3>1 DEF LogOrder
    <3> QED
      BY <1>0, <3>2, <3>3 DEF PositionType
  <2>2. CASE MarkDay
    BY <1>0, <2>2 DEF MarkDay, PositionType
  <2> QED
    BY <2>1, <2>2 DEF LogStop, StartStops
<1>2. CASE LogOrder
  BY <1>1, <1>2 DEF LogOrder, GetsRow, KeptBook, Logged, Kinds
<1>3. CASE LogStop
  <2>1. results[logged + 1].status = "filled"
    BY <1>3 DEF LogStop, ResultsInv
  <2> QED
    BY <1>1, <1>3, <2>1 DEF LogStop, KeptBook, Logged, Kinds
<1>4. CASE StartStops
  BY <1>1, <1>4 DEF StartStops, KeptBook, Cleared, Kinds
<1>5. CASE MarkDay
  BY <1>1, <1>5 DEF MarkDay, KeptBook, Cleared, Kinds
<1> QED
  BY <1>2, <1>3, <1>4, <1>5

LEMMA FoldKinds ==
  FoldInv /\ ResultsInv /\ TypeOK /\ ExactInv /\ [FoldNext]_allVars => Kinds
<1> SUFFICES ASSUME FoldInv, ResultsInv, TypeOK, ExactInv, [FoldNext]_allVars
             PROVE  Kinds
  OBVIOUS
<1>1. CASE FinishStep
  BY <1>1 DEF FinishStep, Kinds, Kept, KeptBook
<1>2. CASE StartDay
  BY <1>2 DEF StartDay, Kinds, Kept, KeptBook
<1>3. ASSUME NEW s \in Symbols, DropSignal(s)
      PROVE  Kinds
  BY <1>3 DEF DropSignal, foldVars, Kinds, Kept, KeptBook
<1>4. CASE FoldDone \/ UNCHANGED allVars
  BY <1>4 DEF FoldDone, allVars, foldVars, Kinds, Kept, KeptBook
<1> QED
  BY <1>1, <1>2, <1>3, <1>4, PlaceSellKind, PlaceBuyKind, CheckStopKind, LoopKinds DEF FoldNext

-----------------------------------------------------------------------------
(* The answers waiting for the log, and the invariants that hold together: *)
(* the log loop keeps positions well formed because answers are, and they  *)
(* are because positions are.                                              *)
LEMMA InitResultsInv == FoldInit => ResultsInv
BY DEF FoldInit, ResultsInv

LEMMA NextResultsInv == ResultsInv /\ Kinds => ResultsInv'
<1> SUFFICES ASSUME ResultsInv, Kinds
             PROVE  ResultsInv'
  OBVIOUS
<1>0. results \in Seq(ResultType) /\ logged \in 0..Len(results) /\ Len(results) \in Nat
  BY DEF ResultsInv
<1>1. CASE Kept
  BY <1>0, <1>1 DEF Kept, ResultsInv
<1>2. CASE Logged
  BY <1>0, <1>2 DEF Logged, ResultsInv
<1>3. CASE Cleared
  BY <1>3 DEF Cleared, ResultsInv
<1>4. ASSUME NEW r, Answered(r), r.status = "filled" \/ phase = "orders"
      PROVE  ResultsInv'
  <2>1. PICK n \in Nat : n = Len(results)
    BY <1>0
  <2>2. /\ results' \in Seq(ResultType) /\ Len(results') = n + 1 /\ results'[n + 1] = r
        /\ \A i \in 1..n : results'[i] = results[i]
        /\ DOMAIN results = 1..n /\ DOMAIN results' = 1..(n + 1)
    BY <1>0, <1>4, <2>1 DEF Answered
  <2>3. \A i \in 1..(n + 1) : i \in 1..n \/ i = n + 1
    OBVIOUS
  <2> QED
    BY <1>0, <1>4, <2>1, <2>2, <2>3 DEF Answered, ResultsInv
<1> QED
  BY <1>1, <1>2, <1>3, <1>4 DEF Kinds, BoughtMore, Refused, SoldWhole

LEMMA FoldInvariant == FoldSpec => [](FoldInv /\ ResultsInv /\ ExactInv)
<1>1. FoldSpec => []TypeOK
  BY FoldImplementsStep, TypeCorrect, PTL
<1>2. FoldInit => FoldInv /\ ResultsInv /\ ExactInv
  BY InitFoldInv, InitResultsInv, InitExactInv
<1>3. /\ FoldInv /\ ResultsInv /\ ExactInv
      /\ TypeOK /\ TypeOK' /\ [FoldNext]_allVars
      => (FoldInv /\ ResultsInv /\ ExactInv)'
  BY NextFoldInv, NextExactInv, FoldKinds, NextResultsInv
<1> QED
  BY <1>1, <1>2, <1>3, PTL DEF FoldSpec

(* Positions, books and the clock of every fold stay well formed. *)
THEOREM FoldTypeCorrect == FoldSpec => []FoldTypeOK
BY FoldInvariant, PTL DEF FoldInv

(* No fold ever spends cash it does not have, whatever its BUYs were sized *)
(* on (portfolio.py:208-222).                                              *)
THEOREM CashNeverNegative == FoldSpec => []CashCovered
BY FoldInvariant, PTL DEF FoldInv

(* The portfolio always covers the quantity a pending SELL asks for, so    *)
(* apply never raises (portfolio.py:401-405).                              *)
THEOREM SellsAlwaysCovered == FoldSpec => []SellsCovered
BY FoldInvariant, PTL DEF FoldInv

-----------------------------------------------------------------------------
(* Money and the log: sums over symbols and over log rows.                 *)
Costs == [s \in Symbols |-> pos[s].cost]
Quantities == [i \in DOMAIN fillLog |-> fillLog[i].qty]
Filled(s, side) == Total(Quantities, FillsOf(s, side))

LedgerInv ==
  /\ \A s \in Symbols : pos[s].lots = 0 => pos[s].cost = 0
  /\ books.cash + Total(Costs, Symbols) + books.entryFees = InitialCapital + books.realized

(* The rows the answers still waiting will become.                         *)
Unlogged == {i \in DOMAIN results : i > logged /\ results[i].status = "filled"}
Answers == [i \in DOMAIN results |-> results[i].qty]
WaitingOf(s, side) == {i \in Unlogged : results[i].symbol = s /\ results[i].side = side}
Waiting(s, side) == Total(Answers, WaitingOf(s, side))

(* What the book has done is in the log or in an answer not logged yet:    *)
(* the strengthening that makes the log's promise inductive.               *)
TallyInv ==
  /\ fillLog \in Seq(LogType)
  /\ books.trades = Len(fillLog) + Cardinality(Unlogged)
  /\ \A s \in Symbols :
       pos[s].lots = (Filled(s, "buy") + Waiting(s, "buy"))
                     - (Filled(s, "sell") + Waiting(s, "sell"))

(* The sums the properties are written with.                               *)
LEMMA CostSum ==
  ASSUME NEW X \in SUBSET Symbols
  PROVE  MapThenSumSet(LAMBDA s : pos[s].cost, X) = Total(Costs, X)
<1> DEFINE Is(g) == g = [U \in SUBSET X |-> IF U = {} THEN 0
                                           ELSE pos[Some(U)].cost + g[U \ {Some(U)}]]
<1>1. ASSUME NEW g PROVE Is(g) <=> Adds(g, Costs, X)
  <2>1. \A U \in SUBSET X : U # {} => Costs[Some(U)] = pos[Some(U)].cost
    BY SomeIn DEF Costs
  <2>2. \A U \in SUBSET X : (IF U = {} THEN 0 ELSE pos[Some(U)].cost + g[U \ {Some(U)}])
                           = (IF U = {} THEN 0 ELSE Costs[Some(U)] + g[U \ {Some(U)}])
    BY <2>1
  <2> QED
    BY <2>2 DEF Adds
<1>2. MapThenSumSet(LAMBDA s : pos[s].cost, X) = (CHOOSE g : Is(g))[X]
  BY DEF MapThenSumSet, MapThenFoldSet, Some
<1> HIDE DEF Is
<1>3. (CHOOSE g : Is(g)) = (CHOOSE g : Adds(g, Costs, X))
  BY <1>1
<1> QED
  BY <1>2, <1>3, TotalIsChosen

LEMMA QuantitySum ==
  ASSUME NEW X \in SUBSET DOMAIN fillLog
  PROVE  MapThenSumSet(LAMBDA i : fillLog[i].qty, X) = Total(Quantities, X)
<1> DEFINE Is(g) == g = [U \in SUBSET X |-> IF U = {} THEN 0
                                           ELSE fillLog[Some(U)].qty + g[U \ {Some(U)}]]
<1>1. ASSUME NEW g PROVE Is(g) <=> Adds(g, Quantities, X)
  <2>1. \A U \in SUBSET X : U # {} => Quantities[Some(U)] = fillLog[Some(U)].qty
    BY SomeIn DEF Quantities
  <2>2. \A U \in SUBSET X : (IF U = {} THEN 0 ELSE fillLog[Some(U)].qty + g[U \ {Some(U)}])
                           = (IF U = {} THEN 0 ELSE Quantities[Some(U)] + g[U \ {Some(U)}])
    BY <2>1
  <2> QED
    BY <2>2 DEF Adds
<1>2. MapThenSumSet(LAMBDA i : fillLog[i].qty, X) = (CHOOSE g : Is(g))[X]
  BY DEF MapThenSumSet, MapThenFoldSet, Some
<1> HIDE DEF Is
<1>3. (CHOOSE g : Is(g)) = (CHOOSE g : Adds(g, Quantities, X))
  BY <1>1
<1> QED
  BY <1>2, <1>3, TotalIsChosen

LEMMA FiniteIndices ==
  ASSUME NEW n \in Nat, NEW X \in SUBSET (1..n)
  PROVE  IsFiniteSet(X)
<1>1. IsFiniteSet(1..n)
  BY FS_Interval
<1> QED
  BY <1>1, FS_Subset

LEMMA FilledType ==
  ASSUME fillLog \in Seq(LogType), NEW s \in Symbols, NEW side
  PROVE  Filled(s, side) \in Int
<1> DEFINE X == FillsOf(s, side)
           F == Quantities
<1>1. /\ X \subseteq 1..Len(fillLog) /\ Len(fillLog) \in Nat
      /\ \A i \in 1..Len(fillLog) : i \in DOMAIN fillLog /\ fillLog[i] \in LogType
  BY DEF FillsOf
<1>2. \A i \in X : F[i] \in Int
  BY <1>1 DEF Quantities, LogType
<1> HIDE DEF X, F
<1>3. IsFiniteSet(X)
  BY <1>1, FiniteIndices
<1>4. Total(F, X) \in Int
  BY <1>2, <1>3, TotalType
<1> QED
  BY <1>4 DEF Filled, F, X

(* A row adds its quantity to the fills of its symbol and side only.       *)
LEMMA FilledAfter ==
  ASSUME fillLog \in Seq(LogType), NEW e \in LogType, fillLog' = Append(fillLog, e),
         NEW s \in Symbols, NEW side
  PROVE  /\ Filled(s, side) \in Int
         /\ Filled(s, side)'
              = Filled(s, side) + (IF e.symbol = s /\ e.side = side THEN e.qty ELSE 0)
<1> DEFINE n == Len(fillLog)
           X == FillsOf(s, side)
           Y == FillsOf(s, side)'
           F == Quantities
           G == Quantities'
<1>1. n \in Nat /\ DOMAIN fillLog = 1..n /\ \A i \in 1..n : fillLog[i] \in LogType
  OBVIOUS
<1>2. /\ DOMAIN fillLog' = 1..(n + 1) /\ fillLog'[n + 1] = e
      /\ \A i \in 1..n : fillLog'[i] = fillLog[i]
  BY <1>1
<1>3. X \subseteq 1..n /\ IsFiniteSet(X)
  <2>1. X \subseteq 1..n
    BY <1>1 DEF FillsOf
  <2>2. IsFiniteSet(1..n)
    BY <1>1, FS_Interval
  <2> HIDE DEF X
  <2> QED
    BY <2>1, <2>2, FS_Subset
<1>4. \A i \in X : F[i] \in Int /\ G[i] = F[i]
  BY <1>1, <1>2, <1>3 DEF Quantities, LogType
<1>5. G[n + 1] = e.qty /\ e.qty \in Int
  BY <1>1, <1>2 DEF Quantities, LogType
<1>6. Y = IF e.symbol = s /\ e.side = side THEN X \cup {n + 1} ELSE X
  BY <1>1, <1>2 DEF FillsOf
<1>7. n + 1 \notin X
  BY <1>1, <1>3
<1>8. Filled(s, side) = Total(F, X) /\ Filled(s, side)' = Total(G, Y)
  BY DEF Filled
<1> HIDE DEF X, Y, F, G
<1>9. Total(F, X) \in Int /\ Total(G, X) = Total(F, X)
  BY <1>3, <1>4, TotalType, TotalAgree
<1>10. \A i \in X : G[i] \in Int
  BY <1>4
<1>11. Total(G, X \cup {n + 1}) = Total(G, X) + G[n + 1]
  <2> DEFINE m == n + 1
  <2>1. m \notin X /\ G[m] \in Int
    BY <1>5, <1>7
  <2> HIDE DEF m
  <2>2. Total(G, X \cup {m}) = Total(G, X) + G[m]
    BY <1>3, <1>10, <2>1, TotalAdd
  <2> QED
    BY <2>2 DEF m
<1> QED
  BY <1>5, <1>6, <1>8, <1>9, <1>11

(* One position changes: the sum of costs changes by as much.              *)
LEMMA CostsAfter ==
  ASSUME pos \in [Symbols -> PositionType], NEW s \in Symbols, NEW p \in PositionType,
         pos' = [pos EXCEPT ![s] = p]
  PROVE  /\ Total(Costs, Symbols) \in Int
         /\ Total(Costs, Symbols)' = Total(Costs, Symbols) - pos[s].cost + p.cost
<1> DEFINE F == Costs
           G == Costs'
<1>1. \A x \in Symbols : F[x] \in Int /\ G[x] \in Int
  BY DEF Costs, PositionType
<1>2. \A x \in Symbols : x # s => F[x] = G[x]
  BY DEF Costs
<1>3. F[s] = pos[s].cost /\ G[s] = p.cost
  BY DEF Costs
<1>4. Total(Costs, Symbols)' = Total(G, Symbols)
  OBVIOUS
<1> HIDE DEF F, G
<1>5. Total(F, Symbols) \in Int
  BY <1>1, UniverseAssumption, TotalType
<1>6. Total(G, Symbols) = Total(F, Symbols) - F[s] + G[s]
  BY <1>1, <1>2, UniverseAssumption, TotalChange
<1> QED
  BY <1>3, <1>4, <1>5, <1>6 DEF F

LEMMA InitLedgerInv == FoldInit => LedgerInv
<1> SUFFICES ASSUME FoldInit
             PROVE  LedgerInv
  OBVIOUS
<1>1. \A s \in Symbols : pos[s].lots = 0 /\ pos[s].cost = 0
  BY DEF FoldInit, NoPosition
<1>2. Total(Costs, Symbols) = 0
  <2>1. Total(Costs, Symbols) = Total(Costs, {})
    <3> DEFINE F == Costs
    <3>1. \A s \in Symbols : F[s] \in Int /\ F[s] = 0
      BY <1>1 DEF Costs
    <3> HIDE DEF F
    <3>2. Total(F, Symbols) = Total(F, {})
      BY <3>1, UniverseAssumption, TotalZeros
    <3> QED
      BY <3>2 DEF F
  <2> QED
    BY <2>1, TotalEmpty
<1>3. /\ books.cash = InitialCapital /\ books.entryFees = 0 /\ books.realized = 0
      /\ InitialCapital \in Nat
  BY FoldAssumption DEF FoldInit
<1> QED
  BY <1>1, <1>2, <1>3 DEF LedgerInv

LEMMA SoldLedgerInv ==
  ASSUME FoldInv, LedgerInv, NEW r, NEW fees, SoldWhole(r, fees)
  PROVE  LedgerInv'
<1> DEFINE s == r.symbol
           price == r.price
           lots == pos[s].lots
<1>1. /\ s \in Symbols /\ price \in Nat /\ fees \in Nat
      /\ books' = Credited(books, pos[s], lots, price, fees)
      /\ pos' = [pos EXCEPT ![s] = NoPosition]
  BY DEF SoldWhole, Answered, ResultType
<1> HIDE DEF s, price
<1>2. /\ pos \in [Symbols -> PositionType] /\ books \in BooksType
      /\ lots \in Nat /\ pos[s].cost \in Nat
  BY <1>1 DEF FoldInv, FoldTypeOK, PositionType
<1>3. NoPosition \in PositionType /\ NoPosition.lots = 0 /\ NoPosition.cost = 0
  BY DEF NoPosition, PositionType
<1>5. \A x \in Symbols : pos'[x] = IF x = s THEN NoPosition ELSE pos[x]
  BY <1>1, <1>2
<1>6. \A x \in Symbols : pos'[x].lots = 0 => pos'[x].cost = 0
  BY <1>3, <1>5 DEF LedgerInv
<1>7. /\ Total(Costs, Symbols) \in Int
      /\ Total(Costs, Symbols)' = Total(Costs, Symbols) - pos[s].cost + 0
  BY <1>1, <1>2, <1>3, CostsAfter
<1>8. books'.cash + Total(Costs, Symbols)' + books'.entryFees = InitialCapital + books'.realized
  <2> DEFINE paid == lots * price
  <2>1. paid \in Int
    BY <1>1, <1>2
  <2> HIDE DEF paid, lots
  <2>2. CostOf(pos[s], lots) = pos[s].cost
    BY DEF CostOf, lots
  <2>3. /\ books'.cash = books.cash + paid - fees
        /\ books'.realized = books.realized + (paid - pos[s].cost - fees)
        /\ books'.entryFees = books.entryFees
    BY <1>1, <1>2, <2>2 DEF Credited, BooksType, paid
  <2>4. books.cash \in Int /\ books.realized \in Int /\ books.entryFees \in Int
        /\ InitialCapital \in Int
    BY <1>2, FoldAssumption DEF BooksType
  <2>5. books.cash + Total(Costs, Symbols) + books.entryFees = InitialCapital + books.realized
    BY DEF LedgerInv
  <2>6. fees \in Int /\ pos[s].cost \in Int
    BY <1>1, <1>2
  <2>7. \A c, t, f, i, z, m, g, k \in Int :
          c + t + f = i + z => (c + m - g) + (t - k) + f = i + (z + (m - k - g))
    OBVIOUS
  <2>8. Total(Costs, Symbols)' = Total(Costs, Symbols) - pos[s].cost
    BY <1>7, <2>6
  <2>9. (books.cash + paid - fees) + (Total(Costs, Symbols) - pos[s].cost) + books.entryFees
          = InitialCapital + (books.realized + (paid - pos[s].cost - fees))
    BY <1>7, <2>1, <2>4, <2>5, <2>6, <2>7
  <2> QED
    BY <2>3, <2>8, <2>9
<1> QED
  BY <1>6, <1>8 DEF LedgerInv

LEMMA BoughtLedgerInv ==
  ASSUME FoldInv, LedgerInv, NEW r, BoughtMore(r)
  PROVE  LedgerInv'
<1> DEFINE s == r.symbol
           qty == r.qty
           price == r.price
           p == Added(pos[s], qty, price)
           paid == qty * price
           fees == Fees(qty, price)
<1>1. /\ s \in Symbols /\ price \in Nat /\ qty \in Nat \ {0}
      /\ books' = Paid(books, qty, price)
      /\ pos' = [pos EXCEPT ![s] = p]
  BY DEF BoughtMore, Answered, ResultType
<1> HIDE DEF s, qty, price
<1>2. /\ pos \in [Symbols -> PositionType] /\ books \in BooksType
      /\ pos[s].lots \in Nat /\ pos[s].cost \in Nat
  BY <1>1 DEF FoldInv, FoldTypeOK, PositionType
<1>3. paid \in Nat /\ fees \in Int
  <2>1. \A n \in Nat : 0..n \subseteq Int
    OBVIOUS
  <2>2. paid \in Nat /\ fees \in 0..paid
    BY <1>1, FeesBounds
  <2> QED
    BY <2>1, <2>2
<1>5. p \in PositionType /\ p.lots = pos[s].lots + qty /\ p.cost = pos[s].cost + paid
  <2>1. p \in PositionType
    BY <1>1, <1>2, AddedType
  <2>2. p.lots = pos[s].lots + qty /\ p.cost = pos[s].cost + paid
    BY <1>1, <1>2 DEF Added, PositionType
  <2> QED
    BY <2>1, <2>2
<1> HIDE DEF p
<1>6. \A x \in Symbols : pos'[x] = IF x = s THEN p ELSE pos[x]
  BY <1>1, <1>2
<1>7. p.lots # 0
  BY <1>1, <1>2, <1>5
<1>8. \A x \in Symbols : pos'[x].lots = 0 => pos'[x].cost = 0
  BY <1>6, <1>7 DEF LedgerInv
<1>9. /\ Total(Costs, Symbols) \in Int
      /\ Total(Costs, Symbols)' = Total(Costs, Symbols) - pos[s].cost + p.cost
  BY <1>1, <1>2, <1>5, CostsAfter
<1>10. /\ books'.cash = books.cash - (paid + fees)
       /\ books'.realized = books.realized
       /\ books'.entryFees = books.entryFees + fees
       /\ books'.trades = books.trades + 1
  <2> HIDE DEF paid, fees
  <2> QED
    BY <1>1, <1>2 DEF Paid, BooksType, paid, fees
<1>11. books'.cash + Total(Costs, Symbols)' + books'.entryFees = InitialCapital + books'.realized
  <2> HIDE DEF paid, fees
  <2>1. books.cash \in Int /\ books.realized \in Int /\ books.entryFees \in Int
        /\ InitialCapital \in Int
    BY <1>2, FoldAssumption DEF BooksType
  <2>2. books.cash + Total(Costs, Symbols) + books.entryFees = InitialCapital + books.realized
    BY DEF LedgerInv
  <2> QED
    BY <1>2, <1>3, <1>5, <1>9, <1>10, <2>1, <2>2
<1> QED
  BY <1>8, <1>11 DEF LedgerInv

LEMMA NextLedgerInv == FoldInv /\ LedgerInv /\ Kinds => LedgerInv'
<1> SUFFICES ASSUME FoldInv, LedgerInv, Kinds
             PROVE  LedgerInv'
  OBVIOUS
<1>1. CASE KeptBook
  <2>1. Costs' = Costs
    BY <1>1 DEF KeptBook, Costs
  <2>2. Total(Costs, Symbols)' = Total(Costs, Symbols)
    BY <2>1
  <2> QED
    BY <1>1, <2>2 DEF KeptBook, LedgerInv
<1> QED
  BY <1>1, SoldLedgerInv, BoughtLedgerInv DEF Kinds, Kept, Logged, Cleared, Refused

LEMMA LedgerInvariant == FoldSpec => []LedgerInv
<1>1. FoldSpec => []TypeOK
  BY FoldImplementsStep, TypeCorrect, PTL
<1> QED
  BY <1>1, FoldInvariant, FoldKinds, InitLedgerInv, NextLedgerInv, PTL DEF FoldSpec

(* Cash, the cost of the open positions and the profit realized always     *)
(* account for the initial capital: no order, stop or fee loses or makes   *)
(* money (portfolio.py:364-431).                                           *)
THEOREM MoneyIsConserved == FoldSpec => []MoneyConserved
<1>1. FoldInv /\ LedgerInv => MoneyConserved
  <2> SUFFICES ASSUME FoldInv, LedgerInv
               PROVE  MoneyConserved
    OBVIOUS
  <2>1. Held \in SUBSET Symbols
    BY DEF Held
  <2>2. \A s \in Symbols : Costs[s] \in Int
    BY DEF FoldInv, FoldTypeOK, PositionType, Costs
  <2>3. \A s \in Symbols \ Held : Costs[s] = 0
    BY DEF FoldInv, FoldTypeOK, PositionType, Costs, Held, LedgerInv
  <2>4. Total(Costs, Symbols) = Total(Costs, Held)
    BY <2>1, <2>2, <2>3, UniverseAssumption, TotalZeros
  <2>5. MapThenSumSet(LAMBDA s : pos[s].cost, Held) = Total(Costs, Held)
    BY <2>1, CostSum
  <2> QED
    BY <2>4, <2>5 DEF LedgerInv, MoneyConserved
<1> QED
  BY <1>1, FoldInvariant, LedgerInvariant, PTL

(* One more answer waits, or the next one is gone through.                 *)
LEMMA WaitingAfter ==
  ASSUME results \in Seq(ResultType), NEW U, NEW i \in DOMAIN results', NEW X \in SUBSET U,
         U = Unlogged, i \notin U, results' \in Seq(ResultType),
         \A k \in U : k \in DOMAIN results' /\ results'[k] = results[k]
  PROVE  /\ IsFiniteSet(U) /\ Cardinality(U) \in Nat
         /\ Cardinality(U \cup {i}) = Cardinality(U) + 1
         /\ Total(Answers, X) \in Int /\ Total(Answers', X) = Total(Answers, X)
         /\ Total(Answers', X \cup {i}) = Total(Answers, X) + results'[i].qty
<1> DEFINE F == Answers
           G == Answers'
<1>1. /\ U \subseteq 1..Len(results) /\ Len(results) \in Nat
      /\ \A k \in 1..Len(results) : k \in DOMAIN results /\ results[k] \in ResultType
      /\ \A k \in DOMAIN results' : results'[k] \in ResultType
  BY DEF Unlogged
<1>2. IsFiniteSet(U) /\ IsFiniteSet(X)
  BY <1>1, FiniteIndices
<1>3. Cardinality(U) \in Nat /\ Cardinality(U \cup {i}) = Cardinality(U) + 1
  BY <1>2, FS_CardinalityType, FS_AddElement
<1>4. \A k \in X : F[k] \in Int /\ G[k] \in Int /\ F[k] = G[k]
  BY <1>1 DEF Answers, ResultType
<1>5. G[i] = results'[i].qty /\ G[i] \in Int
  BY <1>1 DEF Answers, ResultType
<1>6. i \notin X
  OBVIOUS
<1> HIDE DEF F, G
<1>7. Total(F, X) \in Int /\ Total(G, X) = Total(F, X)
  BY <1>2, <1>4, TotalType, TotalAgree
<1>8. Total(G, X \cup {i}) = Total(G, X) + G[i]
  <2>1. \A k \in X : G[k] \in Int
    BY <1>4
  <2> QED
    BY <1>2, <1>5, <1>6, <2>1, TotalAdd
<1> QED
  BY <1>2, <1>3, <1>5, <1>7, <1>8 DEF F, G

LEMMA AnsweredTally ==
  ASSUME ResultsInv, NEW r, Answered(r), NEW s \in Symbols, NEW side
  PROVE  /\ Cardinality(Unlogged) \in Nat /\ Waiting(s, side) \in Int
         /\ Cardinality(Unlogged)'
              = Cardinality(Unlogged) + (IF r.status = "filled" THEN 1 ELSE 0)
         /\ Waiting(s, side)' = Waiting(s, side)
              + (IF r.status = "filled" /\ r.symbol = s /\ r.side = side THEN r.qty ELSE 0)
<1> DEFINE U == Unlogged
           X == WaitingOf(s, side)
<1>1. PICK n \in Nat : n = Len(results)
  BY DEF ResultsInv
<1>2. PICK i \in Nat : i = n + 1
  BY <1>1
<1>3. /\ results \in Seq(ResultType) /\ logged \in 0..n /\ logged' = logged
      /\ DOMAIN results = 1..n /\ DOMAIN results' = 1..i /\ results'[i] = r
      /\ \A k \in 1..n : results'[k] = results[k]
      /\ results' \in Seq(ResultType) /\ i \in DOMAIN results' /\ i > logged /\ i \notin 1..n
  BY <1>1, <1>2 DEF ResultsInv, Answered
<1>4. \A k \in 1..i : k \in 1..n \/ k = i
  BY <1>2
<1>5. 1..n \subseteq 1..i
  BY <1>2
<1>6. Unlogged' = IF r.status = "filled" THEN U \cup {i} ELSE U
  BY <1>3, <1>4, <1>5 DEF Unlogged
<1>7. WaitingOf(s, side)' =
        IF r.status = "filled" /\ r.symbol = s /\ r.side = side THEN X \cup {i} ELSE X
  BY <1>3, <1>4, <1>5, <1>6 DEF Unlogged, WaitingOf
<1>8. /\ U = Unlogged /\ i \notin U /\ X \subseteq U
      /\ \A k \in U : k \in DOMAIN results' /\ results'[k] = results[k]
  BY <1>3, <1>5 DEF Unlogged, WaitingOf
<1>9. /\ Waiting(s, side) = Total(Answers, X)
      /\ Waiting(s, side)' = Total(Answers', WaitingOf(s, side)')
  BY DEF Waiting
<1> HIDE DEF U, X
<1>10. /\ IsFiniteSet(U) /\ Cardinality(U) \in Nat
       /\ Cardinality(U \cup {i}) = Cardinality(U) + 1
       /\ Total(Answers, X) \in Int /\ Total(Answers', X) = Total(Answers, X)
       /\ Total(Answers', X \cup {i}) = Total(Answers, X) + results'[i].qty
  BY <1>3, <1>8, WaitingAfter
<1> QED
  BY <1>3, <1>6, <1>7, <1>8, <1>9, <1>10

LEMMA LoggedTally ==
  ASSUME ResultsInv, Logged, NEW r, r = results[logged + 1], NEW s \in Symbols, NEW side
  PROVE  /\ r \in ResultType
         /\ Cardinality(Unlogged)' \in Nat /\ Waiting(s, side)' \in Int
         /\ Cardinality(Unlogged)
              = Cardinality(Unlogged)' + (IF r.status = "filled" THEN 1 ELSE 0)
         /\ Waiting(s, side) = Waiting(s, side)'
              + (IF r.status = "filled" /\ r.symbol = s /\ r.side = side THEN r.qty ELSE 0)
<1> DEFINE i == logged + 1
           U == Unlogged'
           X == WaitingOf(s, side)'
<1>1. /\ results \in Seq(ResultType) /\ results' = results /\ logged \in Nat
      /\ logged' = i /\ i \in DOMAIN results /\ r \in ResultType /\ i \in Nat
      /\ DOMAIN results \subseteq Nat
  BY DEF ResultsInv, Logged
<1>2. \A k \in Nat : k > logged <=> k > i \/ k = i
  BY <1>1
<1>3. i \notin U /\ X \subseteq U /\ U \subseteq DOMAIN results
  BY <1>1 DEF Unlogged, WaitingOf
<1>4. Unlogged = IF r.status = "filled" THEN U \cup {i} ELSE U
  BY <1>1, <1>2 DEF Unlogged
<1>5. WaitingOf(s, side) =
        IF r.status = "filled" /\ r.symbol = s /\ r.side = side THEN X \cup {i} ELSE X
  BY <1>1, <1>2, <1>4 DEF Unlogged, WaitingOf
<1>6. Waiting(s, side)' = Total(Answers, X) /\ Answers' = Answers
  BY <1>1 DEF Waiting, Answers
<1>7. \A k \in X : Answers[k] \in Int
  <2>1. \A k \in DOMAIN results : results[k] \in ResultType
    BY <1>1
  <2> QED
    BY <1>3, <2>1 DEF Answers, ResultType
<1>8. Answers[i] = r.qty /\ r.qty \in Int
  BY <1>1 DEF Answers, ResultType
<1>9. Waiting(s, side) = Total(Answers, WaitingOf(s, side))
  BY DEF Waiting
<1> HIDE DEF i, U, X
<1>10. IsFiniteSet(U) /\ IsFiniteSet(X)
  <2>1. DOMAIN results = 1..Len(results) /\ Len(results) \in Nat
    BY <1>1
  <2> QED
    BY <1>3, <2>1, FiniteIndices
<1>11. Cardinality(U) \in Nat /\ Cardinality(U \cup {i}) = Cardinality(U) + 1
  BY <1>3, <1>10, FS_CardinalityType, FS_AddElement
<1>12. Total(Answers, X) \in Int
  BY <1>7, <1>10, TotalType
<1>13. Total(Answers, X \cup {i}) = Total(Answers, X) + Answers[i]
  BY <1>3, <1>7, <1>8, <1>10, TotalAdd
<1>14. Cardinality(Unlogged)' = Cardinality(U)
  BY DEF U
<1> QED
  BY <1>1, <1>4, <1>5, <1>6, <1>8, <1>9, <1>11, <1>12, <1>13, <1>14

LEMMA NothingWaits ==
  ASSUME ResultsInv, logged = Len(results)
  PROVE  /\ Cardinality(Unlogged) = 0
         /\ \A s \in Symbols : \A side : Waiting(s, side) = 0
<1>1. Unlogged = {}
  BY DEF ResultsInv, Unlogged
<1>2. \A s \in Symbols : \A side : WaitingOf(s, side) = {}
  BY <1>1 DEF WaitingOf
<1> QED
  BY <1>1, <1>2, FS_EmptySet, TotalEmpty DEF Waiting

LEMMA InitTallyInv == FoldInit => TallyInv
<1> SUFFICES ASSUME FoldInit
             PROVE  TallyInv
  OBVIOUS
<1>1. /\ fillLog = <<>> /\ results = <<>> /\ logged = 0 /\ books.trades = 0
      /\ \A s \in Symbols : pos[s].lots = 0
  BY DEF FoldInit, NoPosition
<1>2. \A s \in Symbols : \A side : Filled(s, side) = 0
  <2>1. \A s \in Symbols : \A side : FillsOf(s, side) = {}
    BY <1>1 DEF FillsOf
  <2> QED
    BY <2>1, TotalEmpty DEF Filled
<1>3. Cardinality(Unlogged) = 0 /\ \A s \in Symbols : \A side : Waiting(s, side) = 0
  BY <1>1, InitResultsInv, NothingWaits
<1> QED
  BY <1>1, <1>2, <1>3 DEF TallyInv

LEMMA AnsweredTallyInv ==
  ASSUME FoldInv, ResultsInv, TallyInv, NEW r,
         BoughtMore(r) \/ Refused(r) \/ \E fees : SoldWhole(r, fees)
  PROVE  TallyInv'
<1>1. Answered(r) /\ r \in ResultType /\ r.qty \in Nat /\ r.symbol \in Symbols
  BY DEF BoughtMore, Refused, SoldWhole, Answered, ResultType
<1>2. books \in BooksType /\ pos \in [Symbols -> PositionType] /\ fillLog' = fillLog
  BY <1>1 DEF FoldInv, FoldTypeOK, Answered
<1>3. books'.trades = books.trades + (IF r.status = "filled" THEN 1 ELSE 0)
  <2>1. CASE Refused(r)
    BY <1>2, <2>1 DEF Refused, KeptBook, BooksType
  <2>2. CASE BoughtMore(r)
    BY <1>2, <2>2 DEF BoughtMore, Paid, BooksType
  <2>3. CASE \E fees : SoldWhole(r, fees)
    BY <1>2, <2>3 DEF SoldWhole, Credited, BooksType
  <2> QED
    BY <2>1, <2>2, <2>3
<1>4. Cardinality(Unlogged) \in Nat /\ Cardinality(Unlogged)'
        = Cardinality(Unlogged) + (IF r.status = "filled" THEN 1 ELSE 0)
  BY <1>1, AnsweredTally
<1>5. books'.trades = Len(fillLog') + Cardinality(Unlogged)'
  <2>1. Len(fillLog) \in Nat /\ books.trades = Len(fillLog) + Cardinality(Unlogged)
    BY DEF TallyInv
  <2> QED
    BY <1>2, <1>3, <1>4, <2>1
<1>6. ASSUME NEW s \in Symbols
      PROVE  pos'[s].lots = (Filled(s, "buy")' + Waiting(s, "buy")')
                            - (Filled(s, "sell")' + Waiting(s, "sell")')
  <2>1. \A side : Filled(s, side)' = Filled(s, side) /\ Filled(s, side) \in Int
    BY <1>2, FilledType DEF TallyInv, Filled, FillsOf, Quantities
  <2>2. \A side : /\ Waiting(s, side) \in Int
                  /\ Waiting(s, side)' = Waiting(s, side)
                       + (IF r.status = "filled" /\ r.symbol = s /\ r.side = side
                          THEN r.qty ELSE 0)
    BY <1>1, AnsweredTally
  <2>3. pos[s].lots \in Int /\ pos[s].lots = (Filled(s, "buy") + Waiting(s, "buy"))
                            - (Filled(s, "sell") + Waiting(s, "sell"))
    BY <1>2 DEF TallyInv, PositionType
  <2>4. CASE BoughtMore(r)
    <3>1. pos'[s].lots = IF r.symbol = s THEN pos[s].lots + r.qty ELSE pos[s].lots
      BY <1>2, <2>4 DEF BoughtMore, Added, PositionType
    <3> QED
      BY <1>1, <2>1, <2>2, <2>3, <2>4, <3>1 DEF BoughtMore
  <2>5. CASE \E fees : SoldWhole(r, fees)
    <3>1. /\ pos'[s].lots = IF r.symbol = s THEN 0 ELSE pos[s].lots
          /\ r.status = "filled" /\ r.side = "sell" /\ r.qty = pos[r.symbol].lots
      BY <1>2, <2>5 DEF SoldWhole, NoPosition
    <3> QED
      BY <1>1, <2>1, <2>2, <2>3, <3>1
  <2>6. CASE Refused(r)
    BY <2>1, <2>2, <2>3, <2>6 DEF Refused, KeptBook
  <2> QED
    BY <2>4, <2>5, <2>6
<1> QED
  BY <1>2, <1>5, <1>6 DEF TallyInv

LEMMA LoggedTallyInv ==
  ASSUME FoldInv, ResultsInv, TallyInv, Logged
  PROVE  TallyInv'
<1> DEFINE r == results[logged + 1]
           e == Row(r)
<1>1. r \in ResultType
  BY DEF ResultsInv, Logged
<1>2. /\ e \in LogType /\ e.symbol = r.symbol /\ e.side = r.side /\ e.qty = r.qty
      /\ r.qty \in Int
  BY <1>1, FoldDay DEF Row, LogType, ResultType
<1>3. fillLog' = IF r.status = "filled" THEN Append(fillLog, e) ELSE fillLog
  BY DEF Logged
<1>4. fillLog \in Seq(LogType) /\ books' = books
  BY DEF TallyInv, Logged, KeptBook
<1>5. \A s \in Symbols : \A side :
        /\ Cardinality(Unlogged)' \in Nat /\ Waiting(s, side)' \in Int
        /\ Cardinality(Unlogged)
             = Cardinality(Unlogged)' + (IF r.status = "filled" THEN 1 ELSE 0)
        /\ Waiting(s, side) = Waiting(s, side)'
             + (IF r.status = "filled" /\ r.symbol = s /\ r.side = side THEN r.qty ELSE 0)
  BY LoggedTally
<1>6. r.symbol \in Symbols
  BY <1>1 DEF ResultType
<1> HIDE DEF r, e
<1>7. fillLog' \in Seq(LogType) /\ Len(fillLog) \in Nat
      /\ Len(fillLog') = Len(fillLog) + (IF r.status = "filled" THEN 1 ELSE 0)
  BY <1>2, <1>3, <1>4
<1>8. books'.trades = Len(fillLog') + Cardinality(Unlogged)'
  <2>1. books.trades = Len(fillLog) + Cardinality(Unlogged)
    BY DEF TallyInv
  <2>2. /\ Cardinality(Unlogged)' \in Nat
        /\ Cardinality(Unlogged)
             = Cardinality(Unlogged)' + (IF r.status = "filled" THEN 1 ELSE 0)
    BY <1>5, <1>6
  <2> HIDE DEF Unlogged
  <2> QED
    BY <1>4, <1>7, <2>1, <2>2
<1>9. ASSUME NEW s \in Symbols
      PROVE  pos'[s].lots = (Filled(s, "buy")' + Waiting(s, "buy")')
                            - (Filled(s, "sell")' + Waiting(s, "sell")')
  <2>1. \A side :
          /\ Filled(s, side) \in Int
          /\ Filled(s, side)' = Filled(s, side)
               + (IF r.status = "filled" /\ r.symbol = s /\ r.side = side THEN r.qty ELSE 0)
    <3>1. CASE r.status = "filled"
      BY <1>2, <1>3, <1>4, <3>1, FilledAfter
    <3>2. CASE r.status # "filled"
      <4>1. fillLog' = fillLog
        BY <1>3, <3>2
      <4>2. \A side : Filled(s, side)' = Filled(s, side)
        BY <4>1 DEF Filled, FillsOf, Quantities
      <4>3. \A side : Filled(s, side) \in Int
        BY <1>4, FilledType
      <4> QED
        BY <3>2, <4>2, <4>3
    <3> QED
      BY <3>1, <3>2
  <2>2. pos'[s].lots = (Filled(s, "buy") + Waiting(s, "buy"))
                       - (Filled(s, "sell") + Waiting(s, "sell"))
    BY DEF TallyInv, Logged, KeptBook
  <2>3. \A side : Filled(s, side)' + Waiting(s, side)' = Filled(s, side) + Waiting(s, side)
    BY <1>2, <1>5, <2>1
  <2> QED
    BY <2>2, <2>3
<1> QED
  BY <1>7, <1>8, <1>9 DEF TallyInv

LEMMA NextTallyInv == FoldInv /\ ResultsInv /\ ResultsInv' /\ TallyInv /\ Kinds => TallyInv'
<1> SUFFICES ASSUME FoldInv, ResultsInv, ResultsInv', TallyInv, Kinds
             PROVE  TallyInv'
  OBVIOUS
<1>1. CASE Kept
  <2>1. /\ Unlogged' = Unlogged
        /\ \A s \in Symbols, side \in {"buy", "sell"} :
             Waiting(s, side)' = Waiting(s, side) /\ Filled(s, side)' = Filled(s, side)
    BY <1>1 DEF Kept, Unlogged, Waiting, WaitingOf, Answers, Filled, FillsOf, Quantities
  <2> QED
    BY <1>1, <2>1 DEF Kept, KeptBook, TallyInv
<1>2. CASE Cleared
  <2>1. \A s \in Symbols, side \in {"buy", "sell"} :
          /\ Waiting(s, side) = 0 /\ Waiting(s, side)' = 0
          /\ Filled(s, side)' = Filled(s, side)
    <3>1. logged = Len(results) /\ logged' = Len(results')
      BY <1>2 DEF Cleared
    <3>2. \A s \in Symbols, side \in {"buy", "sell"} : Filled(s, side)' = Filled(s, side)
      BY <1>2 DEF Cleared, Filled, FillsOf, Quantities
    <3>3. \A s \in Symbols, side \in {"buy", "sell"} : Waiting(s, side) = 0
      BY <3>1, NothingWaits
    <3>4. \A s \in Symbols, side \in {"buy", "sell"} : Waiting(s, side)' = 0
      <4>1. Unlogged' = {}
        BY <3>1 DEF ResultsInv, Unlogged
      <4>2. \A s \in Symbols : \A side : WaitingOf(s, side)' = {}
        BY <4>1 DEF WaitingOf
      <4> QED
        BY <4>2, TotalEmpty DEF Waiting
    <3> QED
      BY <3>2, <3>3, <3>4
  <2>2. Cardinality(Unlogged) = 0 /\ Cardinality(Unlogged)' = 0
    <3>1. logged = Len(results) /\ logged' = Len(results')
      BY <1>2 DEF Cleared
    <3>2. Unlogged' = {} /\ Unlogged = {}
      BY <3>1 DEF ResultsInv, Unlogged
    <3> QED
      BY <3>2, FS_EmptySet
  <2> QED
    BY <1>2, <2>1, <2>2 DEF Cleared, KeptBook, TallyInv
<1> QED
  BY <1>1, <1>2, LoggedTallyInv, AnsweredTallyInv DEF Kinds

LEMMA TallyInvariant == FoldSpec => []TallyInv
<1>1. FoldSpec => []TypeOK
  BY FoldImplementsStep, TypeCorrect, PTL
<1> QED
  BY <1>1, FoldInvariant, FoldKinds, InitTallyInv, NextTallyInv, PTL DEF FoldSpec

(* At the end of every day the log has a row per counted trade, and its    *)
(* buys less its sells are the open positions, although rows are derived   *)
(* from the answers after the book has changed (engine.py:300-334).        *)
THEOREM LogAlwaysExplainsBook == FoldSpec => []LogExplainsBook
<1>1. ResultsInv /\ TallyInv => LogExplainsBook
  <2> SUFFICES ASSUME ResultsInv, TallyInv, phase = "step"
               PROVE  /\ books.trades = Len(fillLog)
                      /\ \A s \in Symbols : pos[s].lots
                           = MapThenSumSet(LAMBDA i : fillLog[i].qty, FillsOf(s, "buy"))
                             - MapThenSumSet(LAMBDA i : fillLog[i].qty, FillsOf(s, "sell"))
    BY DEF LogExplainsBook
  <2>0. results = <<>> /\ logged = Len(results) /\ fillLog \in Seq(LogType)
    BY DEF ResultsInv, TallyInv
  <2>1. /\ Cardinality(Unlogged) = 0 /\ Len(fillLog) \in Nat
        /\ \A s \in Symbols : \A side : Waiting(s, side) = 0
    BY <2>0, NothingWaits
  <2>2. books.trades = Len(fillLog)
    BY <2>1 DEF TallyInv
  <2>3. ASSUME NEW s \in Symbols
        PROVE  pos[s].lots = MapThenSumSet(LAMBDA i : fillLog[i].qty, FillsOf(s, "buy"))
                             - MapThenSumSet(LAMBDA i : fillLog[i].qty, FillsOf(s, "sell"))
    <3>1. \A side : FillsOf(s, side) \in SUBSET DOMAIN fillLog
      BY DEF FillsOf
    <3>2. \A side : Filled(s, side) \in Int
      BY <2>0, FilledType
    <3>3. pos[s].lots = (Filled(s, "buy") + 0) - (Filled(s, "sell") + 0)
      BY <2>1 DEF TallyInv
    <3>4. MapThenSumSet(LAMBDA i : fillLog[i].qty, FillsOf(s, "buy")) = Filled(s, "buy")
      BY <3>1, QuantitySum DEF Filled
    <3>5. MapThenSumSet(LAMBDA i : fillLog[i].qty, FillsOf(s, "sell")) = Filled(s, "sell")
      BY <3>1, QuantitySum DEF Filled
    <3> QED
      BY <3>2, <3>3, <3>4, <3>5
  <2> QED
    BY <2>2, <2>3
<1> QED
  BY <1>1, FoldInvariant, TallyInvariant, PTL

-----------------------------------------------------------------------------
(* Levels: while the orders of a day are placed, an open position without  *)
(* levels is one the step has just bought.                                 *)
AboutTo(s) ==
  /\ phase \in {"orders", "log"}
  /\ \E i \in DOMAIN results : i > logged /\ results[i].symbol = s /\ Attaches(results[i])

ProtectInv == \A s \in Held : pos[s].levels # {} \/ AboutTo(s)

LEMMA AboutToAnswered ==
  ASSUME ResultsInv, NEW r, Answered(r), NEW x \in Symbols
  PROVE  /\ AboutTo(x) => AboutTo(x)'
         /\ phase = "orders" /\ r.symbol = x /\ Attaches(r) => AboutTo(x)'
<1>1. PICK n \in Nat : n = Len(results)
  BY DEF ResultsInv
<1>2. /\ DOMAIN results = 1..n /\ DOMAIN results' = 1..(n + 1) /\ results'[n + 1] = r
      /\ \A i \in 1..n : results'[i] = results[i]
      /\ 1..n \subseteq 1..(n + 1) /\ n + 1 \in 1..(n + 1)
      /\ logged' = logged /\ logged \in 0..n /\ phase' = phase /\ n + 1 > logged
  BY <1>1 DEF ResultsInv, Answered
<1> QED
  BY <1>2 DEF AboutTo, Attaches

(* Levels go only with the position.                                       *)
LEMMA LevelsKept ==
  ASSUME FoldInv, ResultsInv, [FoldNext]_allVars, NEW x \in Symbols
  PROVE  pos'[x].levels = pos[x].levels \/ pos'[x].levels # {} \/ pos'[x].lots = 0
<1>0. pos \in [Symbols -> PositionType]
  BY DEF FoldInv, FoldTypeOK
<1>1. ASSUME NEW s \in Symbols, PlaceSell(s) \/ PlaceBuy(s) \/ CheckStop(s)
      PROVE  pos'[x].levels = pos[x].levels \/ pos'[x].lots = 0
  <2>1. CASE UNCHANGED pos
    BY <2>1
  <2>2. ASSUME NEW qty, NEW price, pos' = [pos EXCEPT ![s] = Added(@, qty, price)]
        PROVE  pos'[x].levels = pos[x].levels
    BY <1>0, <2>2 DEF Added, PositionType
  <2>3. ASSUME NEW qty, NEW price, pos' = [pos EXCEPT ![s] = Reduced(@, qty, price)]
        PROVE  pos'[x].levels = pos[x].levels \/ pos'[x].lots = 0
    BY <1>0, <2>3 DEF Reduced, NoPosition, PositionType
  <2> QED
    BY <1>1, <2>1, <2>2, <2>3 DEF PlaceSell, PlaceBuy, CheckStop
<1>2. CASE LogOrder
  BY <1>0, <1>2 DEF LogOrder, LevelsAt, PositionType
<1>3. CASE MarkDay
  BY <1>0, <1>3 DEF MarkDay, PositionType
<1> QED
  BY <1>1, <1>2, <1>3
     DEF FoldNext, StartDay, FinishStep, StartStops, LogStop, FoldDone, DropSignal, foldVars,
         allVars

LEMMA NextProtectInv ==
  FoldInv /\ ResultsInv /\ TypeOK /\ ExactInv /\ ProtectInv /\ [FoldNext]_allVars => ProtectInv'
<1> SUFFICES ASSUME FoldInv, ResultsInv, TypeOK, ExactInv, ProtectInv, [FoldNext]_allVars,
                    NEW x \in Symbols, pos'[x].lots > 0
             PROVE  pos'[x].levels # {} \/ AboutTo(x)'
  BY DEF ProtectInv, Held
<1>0. pos \in [Symbols -> PositionType] /\ pos[x].lots \in Nat
  BY DEF FoldInv, FoldTypeOK, PositionType
<1>1. Kinds
  BY FoldKinds
<1>2. CASE pos[x].lots = 0
  <2>1. PICK r : BoughtMore(r) /\ r.symbol = x
    BY <1>0, <1>1, <1>2
       DEF Kinds, Kept, Logged, Cleared, Refused, KeptBook, SoldWhole, BoughtMore, NoPosition
  <2> QED
    BY <2>1, AboutToAnswered DEF BoughtMore, Attaches
<1>3. CASE pos[x].lots > 0 /\ pos[x].levels # {}
  BY <1>3, LevelsKept
<1>4. CASE pos[x].lots > 0 /\ AboutTo(x)
  <2>1. PICK i \in DOMAIN results : i > logged /\ results[i].symbol = x /\ Attaches(results[i])
    BY <1>4 DEF AboutTo
  <2>2. /\ phase \in {"orders", "log"} /\ logged \in Nat /\ DOMAIN results = 1..Len(results)
        /\ i \in Nat /\ i <= Len(results)
    BY <1>4 DEF AboutTo, ResultsInv
  <2>3. CASE Kept
    BY <2>1, <2>2, <2>3 DEF Kept, AboutTo, Attaches
  <2>4. CASE Cleared
    BY <2>1, <2>2, <2>4 DEF Cleared
  <2>5. ASSUME NEW r, Answered(r)
        PROVE  AboutTo(x)'
    BY <1>4, <2>5, AboutToAnswered
  <2>6. CASE Logged /\ i # logged + 1
    BY <2>1, <2>2, <2>6 DEF Logged, AboutTo, Attaches
  <2>7. CASE Logged /\ i = logged + 1
    <3>1. phase = "log" /\ phase' = "log" /\ logged' # logged
      BY <2>2, <2>7 DEF Logged
    <3>2. LogOrder
      <4>1. ~StartDay /\ ~FinishStep /\ ~StartStops /\ ~LogStop /\ ~MarkDay
        BY <3>1 DEF StartDay, FinishStep, StartStops, LogStop, MarkDay
      <4>2. ~FoldDone /\ ~UNCHANGED allVars
        BY <3>1 DEF FoldDone, allVars, foldVars
      <4>3. \A s \in Symbols :
              ~PlaceSell(s) /\ ~PlaceBuy(s) /\ ~DropSignal(s) /\ ~CheckStop(s)
        BY <3>1 DEF PlaceSell, PlaceBuy, DropSignal, CheckStop
      <4> QED
        BY <4>1, <4>2, <4>3 DEF FoldNext
    <3> QED
      BY <1>0, <1>4, <2>1, <2>7, <3>2 DEF LogOrder, LevelsAt, PositionType
  <2> QED
    BY <1>1, <2>3, <2>4, <2>5, <2>6, <2>7 DEF Kinds, BoughtMore, Refused, SoldWhole
<1> QED
  BY <1>0, <1>2, <1>3, <1>4 DEF ProtectInv, Held

(* No fill escapes attach_levels: when the stops of a day are checked      *)
(* every open position is under a stop and a target (engine.py:300-311).   *)
THEOREM HeldAlwaysProtected == FoldSpec => []HeldAreProtected
<1>1. FoldInit => ProtectInv
  BY DEF FoldInit, ProtectInv, Held, NoPosition
<1>2. ProtectInv => HeldAreProtected
  BY DEF ProtectInv, AboutTo, HeldAreProtected
<1>3. FoldSpec => []TypeOK
  BY FoldImplementsStep, TypeCorrect, PTL
<1> QED
  BY <1>1, <1>2, <1>3, FoldInvariant, NextProtectInv, PTL DEF FoldSpec

-----------------------------------------------------------------------------
(* Order of fills.                                                         *)

(* The first bar after a later day is not an earlier bar.                  *)
LEMMA FirstBarLater ==
  ASSUME NEW bars, IsBars(bars), NEW c \in Nat, NEW d \in Nat, c <= d,
         NEW a \in Nth(Forward(bars, c), 1), NEW b \in Nth(Forward(bars, d), 1)
  PROVE  a <= b
<1> DEFINE X == {e \in Forward(bars, c) : e <= a}
<1>1. /\ a \in DOMAIN bars /\ b \in DOMAIN bars /\ DOMAIN bars \subseteq Nat
      /\ a \in Forward(bars, c) /\ b \in Forward(bars, c) /\ Cardinality(X) = 1
  BY DEF Nth, Forward, IsBars
<1>2. X \subseteq 0..a /\ IsFiniteSet(0..a)
  BY <1>1, FS_Interval DEF Forward
<1>3. IsFiniteSet(X)
  <2> HIDE DEF X
  <2> QED
    BY <1>2, FS_Subset
<1>4. \E e : X = {e}
  <2> HIDE DEF X
  <2> QED
    BY <1>1, <1>3, FS_Singleton
<1>5. a \in X
  BY <1>1
<1>6. b <= a => b \in X
  BY <1>1
<1> HIDE DEF X
<1>7. b <= a => b = a
  BY <1>4, <1>5, <1>6
<1> QED
  BY <1>1, <1>7

(* The rows are in the order of the days they were signalled on, and in    *)
(* market mode a strategy order filled on the first bar after its day.     *)
RowInv(i) ==
  /\ fillLog[i].signalled \in Nat /\ fillLog[i].signalled <= day
  /\ fillLog[i].side = "buy" => fillLog[i].via = "step"
  /\ setting.fillMode = "market" /\ fillLog[i].via = "step" =>
       fillLog[i].bar \in Nth(Forward(panel.bars[fillLog[i].symbol], fillLog[i].signalled), 1)

OrderInv ==
  /\ \A i \in DOMAIN fillLog : RowInv(i)
  /\ \A i \in DOMAIN fillLog : \A j \in 1..i : fillLog[j].signalled <= fillLog[i].signalled
  /\ \A i \in DOMAIN results : OnNextBar(results[i])

LEMMA RowAfter ==
  ASSUME FoldInv, TallyInv, OrderInv, UNCHANGED <<panel, setting, day>>,
         NEW e \in LogType, fillLog' = Append(fillLog, e), e.signalled = day,
         e.side = "buy" => e.via = "step",
         setting.fillMode = "market" /\ e.via = "step" => NextBar(e.symbol, e.bar)
  PROVE  /\ \A i \in DOMAIN fillLog' : RowInv(i)'
         /\ \A i \in DOMAIN fillLog' :
              \A j \in 1..i : fillLog'[j].signalled <= fillLog'[i].signalled
<1>0. PICK n \in Nat : n = Len(fillLog)
  BY DEF TallyInv
<1>1. DOMAIN fillLog = 1..n /\ day \in Nat
  BY <1>0, FoldDay DEF TallyInv
<1>2. /\ DOMAIN fillLog' = 1..(n + 1) /\ fillLog'[n + 1] = e
      /\ \A i \in 1..n : fillLog'[i] = fillLog[i]
  BY <1>0 DEF TallyInv
<1>3. \A i \in 1..n : RowInv(i)'
  BY <1>1, <1>2 DEF OrderInv, RowInv
<1>4. RowInv(n + 1)'
  BY <1>1, <1>2 DEF RowInv, NextBar
<1>5. \A i \in 1..n : \A j \in 1..i : fillLog'[j].signalled <= fillLog'[i].signalled
  <2>1. \A i \in 1..n : \A j \in 1..i : j \in 1..n
    BY <1>1
  <2> QED
    BY <1>1, <1>2, <2>1 DEF OrderInv
<1>6. \A j \in 1..(n + 1) : fillLog'[j].signalled <= day
  BY <1>1, <1>2, <1>3, <1>4 DEF OrderInv, RowInv
<1>7. \A i \in 1..(n + 1) : i \in 1..n \/ i = n + 1
  BY <1>1
<1> QED
  BY <1>2, <1>3, <1>4, <1>5, <1>6, <1>7

LEMMA NextOrderInv ==
  FoldInv /\ ResultsInv /\ TallyInv /\ Kinds /\ OrderInv => OrderInv'
<1> SUFFICES ASSUME FoldInv, ResultsInv, TallyInv, Kinds, OrderInv
             PROVE  OrderInv'
  OBVIOUS
<1>0. day \in Nat
  BY FoldDay
<1>1. CASE Kept
  BY <1>1 DEF Kept, OrderInv, RowInv, OnNextBar, NextBar
<1>2. CASE Cleared
  BY <1>0, <1>2 DEF Cleared, OrderInv, RowInv
<1>3. CASE Logged
  <2> DEFINE r == results[logged + 1]
             e == Row(r)
  <2>1. r \in ResultType /\ OnNextBar(r)
    BY <1>3 DEF Logged, ResultsInv, OrderInv
  <2>2. /\ e \in LogType /\ e.signalled = day /\ (e.side = "buy" => e.via = "step")
        /\ r.status = "filled" /\ setting.fillMode = "market" /\ e.via = "step"
             => NextBar(e.symbol, e.bar)
    BY <1>0, <2>1 DEF Row, LogType, ResultType, OnNextBar
  <2>3. fillLog' = IF r.status = "filled" THEN Append(fillLog, e) ELSE fillLog
    BY <1>3 DEF Logged
  <2> HIDE DEF r, e
  <2>4. UNCHANGED <<panel, setting, day, results>>
    BY <1>3 DEF Logged
  <2>5. \A i \in DOMAIN results' : OnNextBar(results[i])'
    BY <2>4 DEF OrderInv, OnNextBar, NextBar
  <2>6. CASE r.status = "filled"
    BY <2>2, <2>3, <2>4, <2>5, <2>6, RowAfter DEF OrderInv
  <2>7. CASE r.status # "filled"
    BY <2>3, <2>4, <2>5, <2>7 DEF OrderInv, RowInv
  <2> QED
    BY <2>6, <2>7
<1>4. ASSUME NEW r, Answered(r)
      PROVE  OrderInv'
  <2>1. PICK n \in Nat : n = Len(results)
    BY DEF ResultsInv
  <2>2. /\ DOMAIN results = 1..n /\ DOMAIN results' = 1..(n + 1) /\ results'[n + 1] = r
        /\ \A i \in 1..n : results'[i] = results[i]
        /\ UNCHANGED <<panel, setting, day, fillLog>> /\ OnNextBar(r)
    BY <1>4, <2>1 DEF Answered, ResultsInv
  <2>3. \A i \in 1..(n + 1) : i \in 1..n \/ i = n + 1
    BY <2>1
  <2>4. \A i \in DOMAIN results' : OnNextBar(results[i])'
    BY <2>2, <2>3 DEF OrderInv, OnNextBar, NextBar
  <2> QED
    BY <2>2, <2>4 DEF OrderInv, RowInv
<1> QED
  BY <1>1, <1>2, <1>3, <1>4 DEF Kinds, BoughtMore, Refused, SoldWhole

(* In market mode a strategy SELL never executes on an earlier bar than    *)
(* an entry it follows, although entries are booked before their bar is    *)
(* reached (portfolio.py:255-259, 319-322).                                *)
THEOREM MarketExitsAlwaysFollow == FoldSpec => []MarketExitsFollowEntries
<1>1. FoldInit => OrderInv
  BY DEF FoldInit, OrderInv
<1>2. FoldInv /\ TallyInv /\ OrderInv => MarketExitsFollowEntries
  <2> SUFFICES ASSUME FoldInv, TallyInv, OrderInv, setting.fillMode = "market",
                      NEW i \in DOMAIN fillLog, fillLog[i].via = "step",
                      NEW j \in EntriesBefore(i)
               PROVE  fillLog[j].bar <= fillLog[i].bar
    BY DEF MarketExitsFollowEntries
  <2>1. /\ i \in Nat /\ j \in 1..i /\ j \in DOMAIN fillLog
        /\ fillLog[j].symbol = fillLog[i].symbol /\ fillLog[j].side = "buy"
    BY DEF EntriesBefore, TallyInv
  <2>2. fillLog[i] \in LogType
    BY DEF TallyInv
  <2>3. IsBars(panel.bars[fillLog[i].symbol])
    BY <2>2, PanelBars DEF LogType, FoldInv, FoldTypeOK
  <2>4. RowInv(i) /\ RowInv(j) /\ fillLog[j].signalled <= fillLog[i].signalled
    BY <2>1 DEF OrderInv
  <2> QED
    BY <2>1, <2>3, <2>4, FirstBarLater DEF RowInv
<1>3. FoldSpec => []TypeOK
  BY FoldImplementsStep, TypeCorrect, PTL
<1> QED
  BY <1>1, <1>2, <1>3, FoldInvariant, TallyInvariant, FoldKinds, NextOrderInv, PTL DEF FoldSpec
=============================================================================
