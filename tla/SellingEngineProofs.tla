------------------------- MODULE SellingEngineProofs -------------------------
(***************************************************************************)
(* Theorems about SellingEngine, for any tasks, prices and configuration.  *)
(***************************************************************************)
EXTENDS SellingEngine, FiniteSetTheorems, TLAPS

-----------------------------------------------------------------------------
(* Entry prices.                                                            *)

\* An average lies between the prices it is taken of, and is a price.
LEMMA AverageBetween ==
    ASSUME NEW a \in Nat, NEW b \in Nat, NEW e \in Average(a, b)
    PROVE  e \in Nat /\ Lesser(a, b) <= e /\ e <= Greater(a, b)
  BY DEF Average, Lesser, Greater

\* An absent entry has no extremes; a present one has positive ones.
PriceRange ==
    /\ PricesInRange
    /\ ~Known => metrics = NoMetrics
    /\ Known => metrics.lowest > 0

MInv == TypeOK /\ PriceRange

\* The entry price after a trade stays within the extremes after that trade.
LEMMA EntryInRange ==
    ASSUME MInv, NEW t \in Trade, t.price # 0, NEW e \in EntryAfter(t)
    PROVE  /\ e \in Nat
           /\ e <= Greater(metrics.highest, t.price)
           /\ \/ e = 0
              \/ e >= IF metrics.lowest = 0 THEN t.price
                      ELSE Lesser(metrics.lowest, t.price)
  <1> USE SellingAssumption
      DEF MInv, TypeOK, PriceRange, PricesInRange, Known, Metrics, NoMetrics, Trade,
          Kinds, Lesser, Greater
  <1>1. CASE t.kind = "buy" /\ metrics.held /\ metrics.entry > 0
    <2>1. e \in Average(metrics.entry, t.price)
      BY <1>1 DEF EntryAfter
    <2>2. metrics.entry \in Nat /\ t.price \in Nat
      OBVIOUS
    <2>3. /\ e \in Nat
          /\ Lesser(metrics.entry, t.price) <= e
          /\ e <= Greater(metrics.entry, t.price)
      BY <2>1, <2>2, AverageBetween
    <2> QED
      BY <1>1, <2>2, <2>3
  <1>2. CASE ~(t.kind = "buy" /\ metrics.held /\ metrics.entry > 0)
    <2>1. e = t.price \/ e = metrics.entry
      BY <1>2 DEF EntryAfter
    <2>2. t.price \in Nat
      OBVIOUS
    <2>3. CASE Known
      BY <2>1, <2>2, <2>3
    <2>4. CASE ~Known
      <3>1. metrics.entry = 0 /\ metrics.lowest = 0 /\ metrics.highest = 0
        BY <2>4
      <3> QED
        BY <2>1, <2>2, <3>1
    <2> QED
      BY <2>3, <2>4
  <1> QED
    BY <1>1, <1>2

\* At first there is no entry, or one of a single price.
LEMMA MetricsInit == Init => MInv
  <1> SUFFICES ASSUME Init PROVE MInv
    OBVIOUS
  <1>1. pc \in [Workers -> PC]
    BY DEF Init, PC
  <1>2. CASE metrics = NoMetrics
    <2>1. metrics \in Metrics /\ PriceRange
      BY <1>2 DEF PriceRange, PricesInRange, Known, Metrics, NoMetrics
    <2> QED
      BY <1>1, <2>1 DEF MInv, TypeOK
  <1>3. CASE metrics # NoMetrics
    <2>1. PICK p \in Prices : metrics = Existing(p)
      BY <1>3 DEF Init
    <2>2. p \in Nat /\ p > 0
      BY SellingAssumption
    <2>3. metrics \in Metrics /\ PriceRange
      BY <2>1, <2>2 DEF Existing, PriceRange, PricesInRange, Known, Metrics
    <2> QED
      BY <1>1, <2>3 DEF MInv, TypeOK
  <1> QED
    BY <1>2, <1>3

\* Updating the entry is the only step that computes a price.
LEMMA MetricsUpdate ==
    ASSUME MInv, NEW w \in Workers, Update(w)
    PROVE  MInv'
  <1> USE DEF MInv, TypeOK, PC
  <1>1. pc' \in [Workers -> PC]
    BY DEF Update, Goto
  <1>2. PICK t \in Trade : Record(t)
    BY DEF Update
  <1>3. CASE t.price = 0
    <2>1. UNCHANGED metrics
      BY <1>2, <1>3 DEF Record
    <2> QED
      BY <1>1, <2>1 DEF PriceRange, PricesInRange, Known
  <1>4. CASE t.price # 0
    <2>1. PICK e \in EntryAfter(t) :
             metrics' =
                [entry    |-> e,
                 highest  |-> Greater(metrics.highest, t.price),
                 lowest   |-> IF metrics.lowest = 0 THEN t.price
                              ELSE Lesser(metrics.lowest, t.price),
                 current  |-> t.price,
                 held     |-> t.held,
                 liqEntry |-> IF t.kind = "buy" \/ ~Known THEN t.liquidity
                              ELSE metrics.liqEntry,
                 liqNow   |-> t.liquidity,
                 old      |-> metrics.old]
      BY <1>2, <1>4 DEF Record
    <2>2. t.price \in Nat \ {0} /\ t.liquidity \in Nat /\ t.held \in BOOLEAN
      BY <1>4, SellingAssumption DEF Trade
    <2>3. /\ e \in Nat
          /\ e <= Greater(metrics.highest, t.price)
          /\ \/ e = 0
             \/ e >= IF metrics.lowest = 0 THEN t.price
                     ELSE Lesser(metrics.lowest, t.price)
      BY <1>4, EntryInRange
    <2>4. metrics' \in Metrics
      BY <2>1, <2>2, <2>3 DEF Metrics, Greater, Lesser
    <2>5. PriceRange'
      BY <2>1, <2>2, <2>3 DEF PriceRange, PricesInRange, Known, Metrics, Greater, Lesser
    <2> QED
      BY <1>1, <2>4, <2>5
  <1> QED
    BY <1>3, <1>4

\* Nobody but Update touches a price.
LEMMA MetricsNext == MInv /\ [Next]_vars => MInv'
  <1> SUFFICES ASSUME MInv, [Next]_vars
               PROVE  MInv'
    OBVIOUS
  <1> USE DEF MInv, TypeOK, PriceRange, PricesInRange, Known, Goto, PC, Selling, Holding
  <1>1. ASSUME NEW w \in Workers, Receive(w)
        PROVE  MInv'
    BY <1>1 DEF Receive
  <1>2. ASSUME NEW w \in Workers, Update(w)
        PROVE  MInv'
    BY <1>2, MetricsUpdate
  <1>3. ASSUME NEW w \in Workers, Evaluate(w)
        PROVE  MInv'
    <2>1. Decision \in PC
      BY DEF Decision
    <2> QED
      BY <1>3, <2>1 DEF Evaluate
  <1>4. ASSUME NEW w \in Workers, Block(w) \/ WhaleStart(w) \/ WhaleFails(w) \/ SaleEnds(w)
        PROVE  MInv'
    BY <1>4 DEF Block, WhaleStart, WhaleFails, SaleEnds
  <1>5. CASE Age
    BY <1>5 DEF Age, Metrics, NoMetrics
  <1>6. CASE Forget
    BY <1>6 DEF Forget, Metrics, NoMetrics
  <1>7. CASE UNCHANGED vars
    BY <1>7 DEF vars
  <1> QED
    BY <1>1, <1>2, <1>3, <1>4, <1>5, <1>6, <1>7 DEF Next, Step, Advance

\* Types are kept, for any configuration.
THEOREM MetricsInvariant == Spec => []MInv
  BY MetricsInit, MetricsNext, PTL DEF Spec

\* The tasks and the metrics keep their types.
THEOREM TypeCorrect == Spec => []TypeOK
  <1>1. MInv => TypeOK
    BY DEF MInv
  <1> QED
    BY <1>1, MetricsInvariant, PTL

\* Entry and current price always lie between the extremes seen.
THEOREM PricesStayInRange == Spec => []PricesInRange
  <1>1. MInv => PricesInRange
    BY DEF MInv, PriceRange
  <1> QED
    BY <1>1, MetricsInvariant, PTL

-----------------------------------------------------------------------------
(* Whale sales.                                                             *)

\* Before any trade nobody sells.
LEMMA WhaleInit == Init => WhaleSellInProfit
  BY DEF Init, WhaleSellInProfit

\* Whoever is selling holds a reference, which keeps every writer out.
LEMMA WhaleNext == MInv /\ WhaleSellInProfit /\ [Next]_vars => WhaleSellInProfit'
  <1> SUFFICES ASSUME MInv, WhaleSellInProfit, [Next]_vars
               PROVE  WhaleSellInProfit'
    OBVIOUS
  <1> USE DEF MInv, TypeOK, WhaleSellInProfit, Goto, PC
  <1> DEFINE Same == metrics' = metrics
  <1>0. Same => (Known <=> Known') /\ (WhaleLevel <=> WhaleLevel')
    BY DEF Known, WhaleLevel, PnlReaches, PnlAtLeast
  <1>1. ASSUME NEW w \in Workers, Receive(w) \/ Block(w)
        PROVE  WhaleSellInProfit'
    BY <1>0, <1>1 DEF Receive, Block
  <1>2. ASSUME NEW w \in Workers, Update(w)
        PROVE  WhaleSellInProfit'
    BY <1>2 DEF Update, Referenced, Holding
  <1>3. ASSUME NEW w \in Workers, Evaluate(w)
        PROVE  WhaleSellInProfit'
    <2>1. Decision # "whaleSell"
      BY DEF Decision
    <2> QED
      BY <1>0, <1>3, <2>1 DEF Evaluate
  <1>4. ASSUME NEW w \in Workers, WhaleStart(w)
        PROVE  WhaleSellInProfit'
    BY <1>0, <1>4 DEF WhaleStart
  <1>5. ASSUME NEW w \in Workers, WhaleFails(w) \/ SaleEnds(w)
        PROVE  WhaleSellInProfit'
    BY <1>0, <1>5 DEF WhaleFails, SaleEnds
  <1>6. CASE Age
    <2>1. Known /\ Known'
      BY <1>6 DEF Age, Known, Metrics
    <2>2. WhaleLevel <=> WhaleLevel'
      BY <1>6 DEF Age, Metrics, WhaleLevel, PnlReaches, PnlAtLeast
    <2> QED
      BY <1>6, <2>1, <2>2 DEF Age
  <1>7. CASE Forget
    BY <1>7 DEF Forget, Referenced, Holding
  <1>8. CASE UNCHANGED vars
    BY <1>0, <1>8 DEF vars
  <1> QED
    BY <1>1, <1>2, <1>3, <1>4, <1>5, <1>6, <1>7, <1>8 DEF Next, Step, Advance

\* A whale sale that goes on is one some level still asks for.
THEOREM WhalesSellInProfit == Spec => []WhaleSellInProfit
  BY WhaleInit, WhaleNext, MetricsInvariant, PTL DEF Spec

-----------------------------------------------------------------------------
(* The rules that never decide.                                             *)

\* A PNL that reaches a percentage reaches every lower one.
LEMMA PnlMonotone ==
    ASSUME metrics \in Metrics, NEW p \in Int, NEW q \in Int, p <= q, PnlReaches(q)
    PROVE  PnlReaches(p)
  <1> DEFINE n == metrics.entry
  <1>1. n \in Nat /\ metrics.current \in Nat
    BY DEF Metrics
  <1>2. p * n <= q * n
    BY <1>1
  <1> QED
    BY <1>1, <1>2 DEF PnlReaches, PnlAtLeast

\* A PNL above a percentage reaches it.
LEMMA PnlExceedsReaches ==
    ASSUME metrics \in Metrics, NEW p \in Int, PnlExceeds(p)
    PROVE  PnlReaches(p)
  <1>1. metrics.entry \in Nat /\ metrics.current \in Nat /\ p * metrics.entry \in Int
    BY DEF Metrics
  <1> QED
    BY <1>1 DEF PnlReaches, PnlAtLeast, PnlExceeds, PnlAbove

\* When some whale level is not above take profit, and some is not above the
\* retracement level, neither rule ever decides: with the table the code has,
\* 10%, that is every configuration whose TAKE_PROFIT and RETRACEMENT_PNL_THRESHOLD
\* are at least 10, the defaults included.
THEOREM NormalRulesUnreachable ==
    ASSUME \E p \in WhaleThresholds : p <= TakeProfit,
           \E p \in WhaleThresholds : p <= RetracementPnl
    PROVE  Spec => []NoNormalSell
  <1> USE SellingAssumption
  <1>1. ASSUME metrics \in Metrics
        PROVE  Decision # "normal"
    <2>1. PnlReaches(TakeProfit) => WhaleLevel
      BY <1>1, PnlMonotone DEF WhaleLevel
    <2>2. Retraced => WhaleLevel
      BY <1>1, PnlMonotone, PnlExceedsReaches DEF WhaleLevel, Retraced
    <2> QED
      BY <2>1, <2>2 DEF Decision
  <1>2. Init => NoNormalSell
    BY DEF Init, NoNormalSell
  <1>3. MInv /\ NoNormalSell /\ [Next]_vars => NoNormalSell'
    <2> SUFFICES ASSUME MInv, NoNormalSell, [Next]_vars
                 PROVE  NoNormalSell'
      OBVIOUS
    <2> USE DEF MInv, TypeOK, NoNormalSell, Goto
    <2>1. ASSUME NEW w \in Workers, Evaluate(w)
          PROVE  NoNormalSell'
      BY <1>1, <2>1 DEF Evaluate
    <2>2. ASSUME NEW w \in Workers,
                 Receive(w) \/ Block(w) \/ Update(w) \/ WhaleStart(w)
                    \/ WhaleFails(w) \/ SaleEnds(w)
          PROVE  NoNormalSell'
      BY <2>2 DEF Receive, Block, Update, WhaleStart, WhaleFails, SaleEnds
    <2>3. CASE Age \/ Forget \/ UNCHANGED vars
      BY <2>3 DEF Age, Forget, vars
    <2> QED
      BY <2>1, <2>2, <2>3 DEF Next, Step, Advance
  <1> QED
    BY <1>2, <1>3, MetricsInvariant, PTL DEF Spec
-----------------------------------------------------------------------------
(* Waiting for the metrics.                                                 *)

\* A sale has a reference into the metrics, and every worker thread waits for it.
Stalled == Referenced /\ ~ThreadFree

\* What a step leaves alone while some sale has a reference.
Frozen == metrics' \in {metrics, [metrics EXCEPT !.old = TRUE]}

\* As long as a whale sale, or the sale it falls back on, is under way, no trade
\* of the token is recorded and its entry stays: the prices the sale was decided
\* on are not followed until it is over.
THEOREM SalesFreezeMetrics == Spec => [][Referenced => Frozen]_vars
  <1>1. ASSUME [Next]_vars, Referenced
        PROVE  Frozen
    <2>1. ASSUME NEW w \in Workers,
                 Receive(w) \/ Block(w) \/ Evaluate(w) \/ WhaleStart(w)
                    \/ WhaleFails(w) \/ SaleEnds(w)
          PROVE  Frozen
      BY <2>1 DEF Receive, Block, Evaluate, WhaleStart, WhaleFails, SaleEnds, Frozen
    <2>2. ASSUME NEW w \in Workers, Update(w)
          PROVE  Frozen
      BY <1>1, <2>2 DEF Update
    <2>3. CASE Age \/ Forget \/ UNCHANGED vars
      BY <1>1, <2>3 DEF Age, Forget, vars, Frozen
    <2> QED
      BY <1>1, <2>1, <2>2, <2>3 DEF Next, Step, Advance
  <1>2. [Next]_vars => [Referenced => Frozen]_vars
    BY <1>1
  <1> QED
    BY <1>2, PTL DEF Spec

\* With as many worker threads as tasks that see trades of the token, a thread is
\* always left for the task the others wait for.
THEOREM ThreadsSuffice ==
    ASSUME Cardinality(Workers) <= Threads
    PROVE  Spec => []~Stalled
  <1>1. ASSUME TypeOK, Referenced
        PROVE  ThreadFree
    <2>1. PICK h \in Workers : pc[h] \in Holding
      BY <1>1 DEF Referenced
    <2>2. Blocked \subseteq Workers \ {h}
      BY <2>1 DEF Blocked, Holding
    <2>3. /\ IsFiniteSet(Workers \ {h})
          /\ Cardinality(Workers \ {h}) = Cardinality(Workers) - 1
      BY <2>1, SellingAssumption, FS_RemoveElement
    <2>4. /\ IsFiniteSet(Blocked)
          /\ Cardinality(Blocked) <= Cardinality(Workers \ {h})
      BY <2>2, <2>3, FS_Subset
    <2>5. Cardinality(Blocked) \in Nat /\ Cardinality(Workers) \in Nat
      BY <2>4, SellingAssumption, FS_CardinalityType
    <2> QED
      BY <2>3, <2>4, <2>5, SellingAssumption DEF ThreadFree
  <1>2. TypeOK => ~Stalled
    BY <1>1 DEF Stalled
  <1> QED
    BY <1>2, TypeCorrect, PTL

\* With fewer, a stall is final: the task that would let go of the reference has
\* no thread to run on, and no task that sees trades of the token moves again.
\* The position may still come of age, which nobody notices.
THEOREM StallsAreFinal == Spec => [][Stalled => UNCHANGED pc /\ Stalled']_vars
  <1>1. ASSUME [Next]_vars, Stalled
        PROVE  UNCHANGED pc
    <2>1. ASSUME NEW w \in Workers
          PROVE  ~(Receive(w) \/ Block(w) \/ Update(w) \/ Evaluate(w)
                      \/ WhaleStart(w) \/ WhaleFails(w) \/ SaleEnds(w))
      BY <1>1 DEF Stalled, Receive, Block, Update, Evaluate, WhaleStart,
                  WhaleFails, SaleEnds
    <2>2. CASE Age \/ Forget \/ UNCHANGED vars
      BY <2>2 DEF Age, Forget, vars
    <2> QED
      BY <1>1, <2>1, <2>2 DEF Next, Step, Advance
  <1>2. ASSUME UNCHANGED pc
        PROVE  Stalled <=> Stalled'
    BY <1>2 DEF Stalled, Referenced, ThreadFree, Blocked
  <1>3. [Next]_vars => [Stalled => UNCHANGED pc /\ Stalled']_vars
    BY <1>1, <1>2
  <1> QED
    BY <1>3, PTL DEF Spec
=============================================================================
