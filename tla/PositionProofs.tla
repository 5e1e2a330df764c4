---------------------------- MODULE PositionProofs ----------------------------
(***************************************************************************)
(* Theorems about Position, for any prices, any number of buys of the      *)
(* token and any window.                                                   *)
(***************************************************************************)
EXTENDS Position, TLAPS

-----------------------------------------------------------------------------
(* Types.                                                                   *)

\* Every record is one of a token.
LEMMA InfoIsNot == NoInfo \notin Info
  BY DEF Info, NoInfo

\* The stop is one of the table's.
LEMMA StopType == ASSUME NEW entry, NEW peak PROVE Stop(entry, peak) \in Stops
  BY DEF Stop, Stops

\* A fresh record has its type.
LEMMA NewType ==
    ASSUME TypeOK, NEW entry \in Nat
    PROVE  New(entry) \in Info
  BY PositionAssumption DEF TypeOK, New, Info, Stops

\* A record keeps its type, and what a new price leaves alone.
LEMMA UpdatedType ==
    ASSUME NEW i \in Info, NEW p \in Nat, now \in Nat
    PROVE  /\ Updated(i, p) \in Info
           /\ Updated(i, p).entry = i.entry
           /\ Updated(i, p).highest = IF p > i.highest THEN p ELSE i.highest
           /\ Updated(i, p).lowest = Lowest(i, p)
           /\ Updated(i, p).peak = Peak(i, p)
           /\ Updated(i, p).stop = Stop(i.entry, Peak(i, p))
           /\ Updated(i, p).quick = Quick(i, p)
           /\ Updated(i, p).born = i.born
  <1>1. /\ Peak(i, p) \in Nat /\ Lowest(i, p) \in Nat /\ Quick(i, p) \in BOOLEAN
        /\ (IF p > i.highest THEN p ELSE i.highest) \in Nat
    BY DEF Info, Peak, Lowest, Quick, AtLeastUp
  <1>2. Stop(i.entry, Peak(i, p)) \in Stops
    BY StopType
  <1> QED
    BY <1>1, <1>2 DEF Info, Updated

\* Records are of natural prices, and so are their histories.
LEMMA TypeNext == TypeOK /\ [Next]_vars => TypeOK'
  <1> SUFFICES ASSUME TypeOK, [Next]_vars
               PROVE  TypeOK'
    OBVIOUS
  <1> USE DEF TypeOK, history
  <1>1. ASSUME NEW b \in Buys, BranchInsert(b) \/ BuyFails(b) \/ TailInsert(b)
        PROVE  TypeOK'
    <2>1. price[b] \in Nat
      OBVIOUS
    <2>2. New(price[b]) \in Info
      BY <2>1, NewType
    <2> QED
      BY <1>1, <2>1, <2>2 DEF BranchInsert, BuyFails, TailInsert, Insert
  <1>2. ASSUME NEW p \in Prices, Trade(p)
        PROVE  TypeOK'
    <2>1. p \in Nat /\ info \in Info /\ now \in Nat
      BY <1>2, PositionAssumption DEF Trade
    <2>2. info' \in Info
      BY <1>2, <2>1, UpdatedType DEF Trade
    <2>3. rose' \in BOOLEAN
      BY <1>2 DEF Trade, AtLeastUp
    <2> QED
      BY <1>2, <2>1, <2>2, <2>3 DEF Trade
  <1>3. CASE Remove
    BY <1>3 DEF Remove
  <1>4. CASE Tick
    <2>1. now' \in 0..MaxTime
      BY <1>4, PositionAssumption DEF Tick
    <2> QED
      BY <1>4, <2>1 DEF Tick
  <1>5. CASE UNCHANGED vars
    BY <1>5 DEF vars
  <1> QED
    BY <1>1, <1>2, <1>3, <1>4, <1>5 DEF Next

\* TypeOK, as the run checks it.
THEOREM TypeCorrect == Spec => []TypeOK
  <1>1. Init => TypeOK
    <2> SUFFICES ASSUME Init
                 PROVE  TypeOK
      OBVIOUS
    <2>1. price \in [Buys -> Nat]
      BY PositionAssumption DEF Init
    <2>2. now \in 0..MaxTime
      BY PositionAssumption DEF Init
    <2>3. stage \in [Buys -> {"verify", "tail", "done"}]
      BY DEF Init
    <2> QED
      BY <2>1, <2>2, <2>3 DEF Init, TypeOK
  <1> QED
    BY <1>1, TypeNext, PTL DEF Spec

-----------------------------------------------------------------------------
(* The record and its history.                                              *)

\* What the record says of the prices since it was inserted.  The best PnL was
\* reached at the highest price, unless there is no entry price to compare with.
Faithful ==
    /\ info.highest \in seen /\ \A p \in seen : p <= info.highest
    /\ info.lowest \in dips /\ \A p \in dips : info.lowest <= p
    /\ info.lowest <= info.highest
    /\ info.entry > 0 => info.peak = info.highest
    /\ info.stop = Stop(info.entry, info.peak)
    /\ info.quick <=> rose

PInv == (info # NoInfo => Faithful) /\ BoughtIsTracked

\* A new record has seen its entry price.
LEMMA FaithfulInsert ==
    ASSUME TypeOK, NEW entry \in Nat, Insert(entry)
    PROVE  Faithful' /\ info' # NoInfo
  <1>1. New(entry) # NoInfo
    BY NewType, InfoIsNot
  <1>2. Stop(entry, entry) = 1
    BY DEF Stop, AtMostUp
  <1> QED
    BY <1>1, <1>2 DEF Insert, New, Faithful

\* A trade is taken into account.
LEMMA FaithfulTrade ==
    ASSUME TypeOK, info # NoInfo, Faithful, NEW p \in Prices, Trade(p)
    PROVE  Faithful' /\ info' # NoInfo
  <1>1. p \in Nat /\ info \in Info /\ now \in Nat /\ info' = Updated(info, p)
    BY PositionAssumption DEF TypeOK, Trade
  <1> DEFINE j == Updated(info, p)
  <1>2. /\ j \in Info /\ j.entry = info.entry
        /\ j.highest = IF p > info.highest THEN p ELSE info.highest
        /\ j.lowest = Lowest(info, p)
        /\ j.peak = Peak(info, p)
        /\ j.stop = Stop(info.entry, Peak(info, p))
        /\ j.quick = Quick(info, p)
    BY <1>1, UpdatedType
  <1>3. /\ info.highest \in Nat /\ info.lowest \in Nat /\ info.entry \in Nat
        /\ info.born \in Nat /\ seen \subseteq Nat /\ dips \subseteq Nat
    BY <1>1 DEF Info, TypeOK
  <1>4. /\ seen' = seen \cup {p}
        /\ dips' = IF \A q \in seen : q < p THEN {p} ELSE dips \cup {p}
        /\ rose' = (rose \/ (AtLeastUp(20, info.entry, p)
                                /\ now <= info.born + QuickWindow))
    BY DEF Trade
  <1> HIDE DEF j
  <1>5. (\A q \in seen : q < p) <=> p > info.highest
    BY <1>1, <1>3 DEF Faithful
  <1>6. /\ j.highest \in seen' /\ \A q \in seen' : q <= j.highest
        /\ j.lowest \in dips' /\ \A q \in dips' : j.lowest <= q
        /\ j.lowest <= j.highest
    BY <1>1, <1>2, <1>3, <1>4, <1>5 DEF Faithful, Lowest
  <1>7. j.entry > 0 => j.peak = j.highest
    BY <1>1, <1>2, <1>3 DEF Faithful, Peak
  <1>8. j.stop = Stop(j.entry, j.peak)
    BY <1>2
  <1>9. j.quick <=> rose'
    <2>1. now - info.born <= QuickWindow <=> now <= info.born + QuickWindow
      BY <1>1, <1>3, PositionAssumption
    <2> QED
      BY <1>2, <1>4, <2>1 DEF Faithful, Quick
  <1>10. info' = j
    BY <1>1 DEF j
  <1> QED
    BY <1>2, <1>6, <1>7, <1>8, <1>9, <1>10, InfoIsNot DEF Faithful

\* Every step keeps the record faithful.
LEMMA FaithfulNext == TypeOK /\ PInv /\ [Next]_vars => PInv'
  <1> SUFFICES ASSUME TypeOK, PInv, [Next]_vars
               PROVE  PInv'
    OBVIOUS
  <1> USE DEF PInv, BoughtIsTracked, history
  <1>1. ASSUME NEW b \in Buys, BranchInsert(b) \/ TailInsert(b)
        PROVE  PInv'
    <2>1. price[b] \in Nat
      BY DEF TypeOK
    <2>2. CASE Insert(price[b])
      BY <2>1, <2>2, FaithfulInsert
    <2>3. CASE UNCHANGED <<info, history>>
      BY <2>3 DEF Faithful
    <2> QED
      BY <1>1, <2>2, <2>3 DEF BranchInsert, TailInsert
  <1>2. ASSUME NEW p \in Prices, Trade(p)
        PROVE  PInv'
    <2>1. info # NoInfo
      BY <1>2 DEF Trade
    <2> QED
      BY <1>2, <2>1, FaithfulTrade
  <1>3. CASE Remove
    BY <1>3 DEF Remove
  <1>4. CASE Tick \/ UNCHANGED vars \/ \E b \in Buys : BuyFails(b)
    <2>1. UNCHANGED <<info, history>>
      BY <1>4 DEF Tick, BuyFails, vars
    <2> QED
      BY <2>1 DEF Faithful
  <1> QED
    BY <1>1, <1>2, <1>3, <1>4 DEF Next

\* The record stays faithful, whoever inserts it again.
LEMMA AlwaysFaithful == Spec => [](TypeOK /\ PInv)
  <1>1. Init => PInv
    BY DEF Init, PInv, BoughtIsTracked
  <1> QED
    BY <1>1, TypeCorrect, FaithfulNext, PTL DEF Spec

\* The extremes kept are those of the prices since the last insertion.
THEOREM ExtremaAreExact == Spec => []ExtremaExact
  <1>1. PInv => ExtremaExact
    BY DEF PInv, Faithful, ExtremaExact
  <1> QED
    BY <1>1, AlwaysFaithful, PTL

\* The trailing stop is that of the best price, for every table position and
\* every entry price, zero included.
THEOREM StopIsOfBest == Spec => []StopOfBest
  <1>1. TypeOK /\ PInv => StopOfBest
    <2> SUFFICES ASSUME TypeOK, Faithful, info # NoInfo
                 PROVE  info.stop = Stop(info.entry, info.highest)
      BY DEF PInv, Faithful, StopOfBest
    <2>1. info.entry \in Nat
      BY DEF TypeOK, Info
    <2>2. CASE info.entry > 0
      BY <2>2 DEF Faithful
    <2>3. CASE info.entry = 0
      BY <2>3 DEF Faithful, Stop, AtMostUp
    <2> QED
      BY <2>1, <2>2, <2>3
  <1> QED
    BY <1>1, AlwaysFaithful, PTL

\* A quick rise is remembered if and only if there was one.
THEOREM QuickIsExact == Spec => []QuickExact
  <1>1. PInv => QuickExact
    BY DEF PInv, Faithful, QuickExact
  <1> QED
    BY <1>1, AlwaysFaithful, PTL

\* A confirmed buy is tracked at any price.
THEOREM BoughtIsTrackedAlways == Spec => []BoughtIsTracked
  BY AlwaysFaithful, PTL DEF PInv
-----------------------------------------------------------------------------
(* What a trade may not do to the record.                                   *)

\* The table grows with the PnL.
LEMMA StopMonotone ==
    ASSUME NEW entry \in Nat, NEW a \in Nat, NEW b \in Nat, a <= b
    PROVE  Stop(entry, a) <= Stop(entry, b)
  <1>1. CASE entry = 0
    BY <1>1 DEF Stop, AtMostUp
  <1>2. CASE entry > 0
    <2> DEFINE E == 100 * entry
    <2>1. /\ E \in Nat /\ 105 * entry > E /\ 120 * entry > 105 * entry
          /\ 150 * entry > 120 * entry /\ 200 * entry > 150 * entry
      BY <1>2
    <2>2. 100 * a <= 100 * b
      OBVIOUS
    <2>3. ASSUME NEW p \in Nat
          PROVE  Stop(entry, p) = IF 100 * p <= 105 * entry THEN 1
                                  ELSE IF 100 * p <= 120 * entry THEN 5
                                  ELSE IF 100 * p <= 150 * entry THEN 10
                                  ELSE IF 100 * p <= 200 * entry THEN 30 ELSE 100
      <3>1. /\ AtMostUp(5, entry, p) <=> 100 * p <= 105 * entry
            /\ AtMostUp(20, entry, p) <=> 100 * p <= 120 * entry
            /\ AtMostUp(50, entry, p) <=> 100 * p <= 150 * entry
            /\ AtMostUp(100, entry, p) <=> 100 * p <= 200 * entry
        BY <1>2 DEF AtMostUp
      <3>2. /\ AtMostUp(5, entry, p) => AtMostUp(20, entry, p)
            /\ AtMostUp(20, entry, p) => AtMostUp(50, entry, p)
            /\ AtMostUp(50, entry, p) => AtMostUp(100, entry, p)
        BY <2>1, <3>1
      <3>3. /\ AtMostUp(5, entry, p) => Stop(entry, p) = 1
            /\ ~AtMostUp(5, entry, p) /\ AtMostUp(20, entry, p) => Stop(entry, p) = 5
            /\ ~AtMostUp(20, entry, p) /\ AtMostUp(50, entry, p) => Stop(entry, p) = 10
            /\ ~AtMostUp(50, entry, p) /\ AtMostUp(100, entry, p) => Stop(entry, p) = 30
            /\ ~AtMostUp(100, entry, p) => Stop(entry, p) = 100
        BY <3>2 DEF Stop
      <3> QED
        BY <3>1, <3>2, <3>3
    <2> QED
      BY <2>1, <2>2, <2>3
  <1> QED
    BY <1>1, <1>2

\* Between two insertions the trailing stop never gets narrower, the highest
\* price never falls, and a quick rise is not forgotten, however far the price
\* falls and whichever monitor reports it: only an insertion starts over.
THEOREM RecordRatchets ==
    Spec => [][info # NoInfo /\ info' # NoInfo /\ stage' = stage
                  => /\ info.stop <= info'.stop
                     /\ info.highest <= info'.highest
                     /\ info.quick => info'.quick]_vars
  <1> DEFINE Ratchet == info # NoInfo /\ info' # NoInfo /\ stage' = stage
                           => /\ info.stop <= info'.stop
                              /\ info.highest <= info'.highest
                              /\ info.quick => info'.quick
  <1>1. ASSUME TypeOK, PInv, Next, info # NoInfo, info' # NoInfo, stage' = stage
        PROVE  /\ info.stop <= info'.stop
               /\ info.highest <= info'.highest
               /\ info.quick => info'.quick
    <2>1. info \in Info /\ now \in Nat /\ Faithful
      BY <1>1 DEF TypeOK, PInv
    <2>2. /\ info.entry \in Nat /\ info.peak \in Nat /\ info.highest \in Nat
          /\ info.stop \in Nat
      BY <2>1 DEF Info, Stops
    <2>3. ASSUME NEW p \in Prices, Trade(p)
          PROVE  /\ info.stop <= info'.stop
                 /\ info.highest <= info'.highest
                 /\ info.quick => info'.quick
      <3>1. p \in Nat /\ info' = Updated(info, p)
        BY <2>3, PositionAssumption DEF Trade
      <3>2. /\ info'.highest = IF p > info.highest THEN p ELSE info.highest
            /\ info'.stop = Stop(info.entry, Peak(info, p))
            /\ info'.quick = Quick(info, p)
        BY <2>1, <3>1, UpdatedType
      <3>3. Peak(info, p) \in Nat /\ info.peak <= Peak(info, p)
        BY <2>2, <3>1 DEF Peak
      <3>4. info.stop <= info'.stop
        BY <2>1, <2>2, <3>2, <3>3, StopMonotone DEF Faithful
      <3>5. info.highest <= info'.highest
        BY <2>2, <3>1, <3>2
      <3>6. info.quick => info'.quick
        BY <3>2, Zenon DEF Quick
      <3> QED
        BY <3>4, <3>5, <3>6
    <2>4. ASSUME NEW b \in Buys
          PROVE  ~(BranchInsert(b) \/ BuyFails(b) \/ TailInsert(b))
      <3>1. BranchInsert(b) \/ BuyFails(b) \/ TailInsert(b) => stage'[b] # stage[b]
        BY <1>1 DEF TypeOK, BranchInsert, BuyFails, TailInsert
      <3> QED
        BY <1>1, <3>1
    <2>5. CASE Remove \/ Tick
      BY <1>1, <2>2, <2>5 DEF Remove, Tick
    <2> QED
      BY <1>1, <2>3, <2>4, <2>5 DEF Next
  <1>2. TypeOK /\ PInv /\ [Next]_vars => [Ratchet]_vars
    BY <1>1
  <1> QED
    BY <1>2, AlwaysFaithful, PTL DEF Spec
=============================================================================
