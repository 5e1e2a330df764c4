-------------------------- MODULE CopyTradingProofs --------------------------
(***************************************************************************)
(* Theorems about CopyTrading, for every value of its constants.           *)
(***************************************************************************)
EXTENDS CopyTrading, FiniteSetTheorems, TLAPS

-----------------------------------------------------------------------------
(* Type correctness.  TypeOK is not inductive by itself: a task that has    *)
(* left "idle" uses its token as an index.                                  *)

\* Whoever acts has been spawned, and so has a token.
Spawned ==
    /\ \A t \in Trades : pc[t] # "idle" => mint[t] \in Mints
    /\ \A t \in Buys : pc[t] = "idle" => monitor[t] = "none" /\ buyTx[t] = "none"
    /\ \A t \in Buys : monitor[t] \in SellingState => subject[t] \in Mints

TInv == TypeOK /\ Spawned

\* The initial state: every task is idle and every table is empty.
LEMMA TypeInit == Init => TInv
  BY ConstantsAssumption
  DEF Init, TInv, TypeOK, Spawned, HandlerPC, MonitorState, SellingState,
      TxState, Trades

\* The steps of a buy handler keep the types.
LEMMA TypeHandler ==
    ASSUME TInv, NEW t \in Buys, HandlerStep(t)
    PROVE  TInv'
  <1> USE DEF TInv, TypeOK, Spawned, Goto, HandlerPC, RunningPC, BuyingPC,
              FinishedPC, MonitorState, SellingState, TxState, Trades, handlerVars, listVars,
              tableVars, monitorVars, sweepVars, sellVars, chainVars
  <1>1. CASE Admit(t)
    BY <1>1 DEF Admit
  <1>2. CASE CheckBlacklist(t)
    BY <1>2 DEF CheckBlacklist
  <1>3. CASE Build(t)
    BY <1>3 DEF Build
  <1>4. CASE Send(t)
    BY <1>4 DEF Send
  <1>5. CASE Verify(t)
    BY <1>5 DEF Verify
  <1>6. CASE Record(t)
    BY <1>6 DEF Record
  <1>7. CASE Seal(t)
    BY <1>7 DEF Seal
  <1>8. CASE Tally(t)
    BY <1>8 DEF Tally
  <1>9. CASE Track(t)
    BY <1>9 DEF Track
  <1>10. CASE StartMonitor(t)
    BY <1>10 DEF StartMonitor
  <1> QED
    BY <1>1, <1>2, <1>3, <1>4, <1>5, <1>6, <1>7, <1>8, <1>9, <1>10 DEF HandlerStep

\* The steps of a monitor keep the types.
LEMMA TypeMonitor ==
    ASSUME TInv, NEW t \in Buys, MonitorStep(t)
    PROVE  TInv'
  <1> USE DEF TInv, TypeOK, Spawned, Move, MonitorState, SellingState, Trades,
              handlerVars, listVars, tableVars, monitorVars, sweepVars,
              sellVars, chainVars
  <1>a. /\ monitor[t] # "none" => pc[t] # "idle" /\ mint[t] \in Mints
        /\ t \in Trades
    OBVIOUS
  <1>1. CASE MonitorConnect(t)
    BY <1>a, <1>1 DEF MonitorConnect
  <1>2. ASSUME NEW m \in Mints, MonitorTrigger(t, m)
        PROVE  TInv'
    BY <1>a, <1>2 DEF MonitorTrigger
  <1>3. CASE MonitorStreamEnd(t)
    BY <1>a, <1>3 DEF MonitorStreamEnd
  <1>4. CASE MonitorCancelled(t)
    BY <1>a, <1>4 DEF MonitorCancelled
  <1>5. CASE ReadBalance(t)
    BY <1>a, <1>5 DEF ReadBalance, Return
  <1>6. CASE WhaleSubmit(t)
    BY <1>a, <1>6 DEF WhaleSubmit, Submit
  <1>7. CASE EmergencySubmit(t)
    BY <1>a, <1>7 DEF EmergencySubmit, Return, Submit
  <1>8. CASE CancelMonitoring(t)
    BY <1>a, <1>8 DEF CancelMonitoring, Return, Deregister
  <1> QED
    BY <1>1, <1>2, <1>3, <1>4, <1>5, <1>6, <1>7, <1>8 DEF MonitorStep

\* The steps of a whale handler keep the types.
LEMMA TypeWhale ==
    ASSUME TInv, NEW t \in Whales, WhaleStep(t)
    PROVE  TInv'
  <1> USE DEF TInv, TypeOK, Spawned, Goto, HandlerPC, WhalePC, FinishedPC,
              Trades, handlerVars, listVars, tableVars, monitorVars, sweepVars,
              sellVars, chainVars
  <1>1. CASE WhaleDetected(t)
    BY ConstantsAssumption, <1>1 DEF WhaleDetected
  <1>2. CASE WhaleSend(t)
    BY ConstantsAssumption, <1>2 DEF WhaleSend, Submit
  <1>3. CASE WhaleVerify(t)
    BY ConstantsAssumption, <1>3 DEF WhaleVerify
  <1> QED
    BY <1>1, <1>2, <1>3 DEF WhaleStep

\* The clean-up task keeps the types.
LEMMA TypeSweep ==
    ASSUME TInv, SweepStep
    PROVE  TInv'
  <1> USE DEF TInv, TypeOK, Spawned, SweepNext, Trades, handlerVars, listVars,
              tableVars, monitorVars, sweepVars, sellVars, chainVars
  <1>1. CASE \E mode \in {"basic", "full"} : SweepBegin(mode)
    BY <1>1 DEF SweepBegin
  <1>2. ASSUME NEW m \in Mints, SweepKeep(m)
        PROVE  TInv'
    BY <1>2 DEF SweepKeep
  <1>3. ASSUME NEW m \in Mints, SweepFound(m)
        PROVE  TInv'
    BY <1>3 DEF SweepFound
  <1>4. ASSUME NEW m \in Mints, SweepBasic(m)
        PROVE  TInv'
    BY <1>4 DEF SweepBasic
  <1>5. ASSUME NEW m \in Mints, SweepFull(m)
        PROVE  TInv'
    BY <1>5 DEF SweepFull, Deregister
  <1> QED
    BY <1>1, <1>2, <1>3, <1>4, <1>5 DEF SweepStep

\* The chain keeps the types: a sell lands only if the wallet can pay it.
LEMMA TypeChain ==
    ASSUME TInv, ChainStep
    PROVE  TInv'
  <1> USE DEF TInv, TypeOK, Spawned, TxState, Trades, handlerVars, listVars,
              tableVars, monitorVars, sweepVars, sellVars, chainVars
  <1>1. ASSUME NEW t \in Buys, BuyLands(t)
        PROVE  TInv'
    BY <1>1 DEF BuyLands
  <1>2. ASSUME NEW t \in Buys, BuyDropped(t)
        PROVE  TInv'
    BY <1>2 DEF BuyDropped
  <1>3. ASSUME NEW s \in sells, SellLands(s)
        PROVE  TInv'
    <2>1. s.by \in Trades /\ s.qty \in Nat /\ s.of \in Mints
      OBVIOUS
    <2> QED
      BY <1>3, <2>1 DEF SellLands
  <1>4. ASSUME NEW s \in sells, SellDropped(s)
        PROVE  TInv'
    BY <1>4 DEF SellDropped
  <1> QED
    BY <1>1, <1>2, <1>3, <1>4 DEF ChainStep

\* Every step of the specification keeps the types.
LEMMA TypeNext == TInv /\ [Next]_vars => TInv'
  <1> SUFFICES ASSUME TInv, [Next]_vars
               PROVE  TInv'
    OBVIOUS
  <1>1. CASE UNCHANGED vars
    BY <1>1 DEF TInv, TypeOK, Spawned, vars, handlerVars, tableVars,
                monitorVars, sweepVars, chainVars
  <1>2. ASSUME NEW t \in Trades, NEW m \in Mints, Spawn(t, m)
        PROVE  TInv'
    BY <1>2 DEF TInv, TypeOK, Spawned, Spawn, Goto, HandlerPC, RunningPC,
                WhalePC, Trades, tableVars, monitorVars, sweepVars, chainVars
  <1>3. ASSUME NEW m \in Mints, WalletNotice(m) \/ WalletNoticeLost(m)
        PROVE  TInv'
    BY <1>3 DEF TInv, TypeOK, Spawned, WalletNotice, WalletNoticeLost,
                handlerVars, tableVars, monitorVars, sweepVars, sellVars
  <1>4. CASE Restart
    BY ConstantsAssumption, <1>4
    DEF TInv, TypeOK, Spawned, Restart, Reloaded, HandlerPC, FinishedPC, MonitorState,
        SellingState, Trades, sellVars
  <1> QED
    BY <1>1, <1>2, <1>3, <1>4, TypeHandler, TypeMonitor, TypeWhale, TypeSweep,
       TypeChain
    DEF Next

\* Every process counter, table and message of the bot stays within its type.
THEOREM TypeInvariant == Spec => []TInv
  BY TypeInit, TypeNext, PTL DEF Spec

\* TypeOK, as the runs check it.
THEOREM TypeCorrect == Spec => []TypeOK
  BY TypeInvariant, PTL DEF TInv
-----------------------------------------------------------------------------
(* Positions are blacklisted.  A handler past "seal" carries a token it has *)
(* put on the blacklist, and only a restart, which kills it, takes tokens   *)
(* off.                                                                     *)

BInv ==
    /\ PositionsBlacklisted
    /\ \A t \in Buys : pc[t] \in {"tally", "track", "settle"} => mint[t] \in blacklist

\* Nothing is listed at the start.
LEMMA BlacklistInit == Init => BInv
  BY ConstantsAssumption DEF Init, BInv, PositionsBlacklisted, Trades

\* A handler writes the blacklist before the tables that trail it.
LEMMA BlacklistHandler ==
    ASSUME TInv, BInv, NEW t \in Buys, HandlerStep(t)
    PROVE  BInv'
  <1> USE DEF TInv, TypeOK, Spawned, BInv, PositionsBlacklisted, Goto, Trades,
              handlerVars, listVars, tableVars, monitorVars, sweepVars,
              sellVars, chainVars
  <1>1. CASE Admit(t)
    BY <1>1 DEF Admit
  <1>2. CASE CheckBlacklist(t)
    BY <1>2 DEF CheckBlacklist
  <1>3. CASE Build(t)
    BY <1>3 DEF Build
  <1>4. CASE Send(t)
    BY <1>4 DEF Send
  <1>5. CASE Verify(t)
    BY <1>5 DEF Verify
  <1>6. CASE Record(t)
    BY <1>6 DEF Record
  <1>7. CASE Seal(t)
    BY <1>7 DEF Seal
  <1>8. CASE Tally(t)
    BY <1>8 DEF Tally
  <1>9. CASE Track(t)
    BY <1>9 DEF Track
  <1>10. CASE StartMonitor(t)
    BY <1>10 DEF StartMonitor
  <1> QED
    BY <1>1, <1>2, <1>3, <1>4, <1>5, <1>6, <1>7, <1>8, <1>9, <1>10
    DEF HandlerStep

\* The steps nobody takes for a buy handler, restarts apart.
OthersStep ==
    \/ \E t \in Buys : MonitorStep(t)
    \/ \E t \in Whales : WhaleStep(t)
    \/ SweepStep
    \/ \E m \in Mints : WalletNotice(m) \/ WalletNoticeLost(m)
    \/ ChainStep

\* What they leave alone: the blacklist only a restart shortens, the buy
\* handlers, and whether a buy was ever sent; they forget tokens, at most.
Frame ==
    /\ blacklist' = blacklist /\ mint' = mint
    /\ listed' \subseteq listed /\ tracked' \subseteq tracked
    /\ \A m \in Mints : tasks'[m] \in {tasks[m], NoTrade}
    /\ \A t \in Buys : pc'[t] = pc[t]
    /\ \A t \in Buys : buyTx'[t] = "none" <=> buyTx[t] = "none"

\* Monitors, whale handlers, clean-up, the wallet stream and the chain take
\* tokens out of the tables, never off the blacklist, and leave the buy
\* handlers alone.
LEMMA OthersFrame ==
    ASSUME TInv, OthersStep
    PROVE  Frame
  <1> USE DEF TInv, TypeOK, Frame, handlerVars, listVars, tableVars,
              monitorVars, sweepVars, sellVars, chainVars
  <1>1. ASSUME NEW t \in Buys, MonitorStep(t)
        PROVE  Frame
    BY <1>1 DEF MonitorStep, Return, MonitorConnect, MonitorTrigger, MonitorStreamEnd,
                MonitorCancelled, ReadBalance, WhaleSubmit, EmergencySubmit,
                CancelMonitoring, Deregister
  <1>2. ASSUME NEW t \in Whales, WhaleStep(t)
        PROVE  Frame
    BY <1>2, ConstantsAssumption
    DEF WhaleStep, WhaleDetected, WhaleSend, WhaleVerify, Goto, Trades
  <1>3. CASE SweepStep
    BY <1>3 DEF SweepStep, SweepBegin, SweepKeep, SweepFound, SweepBasic,
                SweepFull, Deregister
  <1>4. ASSUME NEW m \in Mints, WalletNotice(m) \/ WalletNoticeLost(m)
        PROVE  Frame
    BY <1>4 DEF WalletNotice, WalletNoticeLost
  <1>5. CASE ChainStep
    BY <1>5 DEF ChainStep, BuyLands, BuyDropped, SellLands, SellDropped
  <1> QED
    BY <1>1, <1>2, <1>3, <1>4, <1>5 DEF OthersStep

\* Every step keeps positions blacklisted.
LEMMA BlacklistNext == TInv /\ BInv /\ [Next]_vars => BInv'
  <1> SUFFICES ASSUME TInv, BInv, [Next]_vars
               PROVE  BInv'
    OBVIOUS
  <1>1. CASE UNCHANGED vars
    BY <1>1 DEF BInv, PositionsBlacklisted, vars, handlerVars, tableVars,
                monitorVars
  <1>2. ASSUME NEW t \in Trades, NEW m \in Mints, Spawn(t, m)
        PROVE  BInv'
    BY <1>2 DEF TInv, TypeOK, BInv, PositionsBlacklisted, Spawn, Goto, Trades,
                tableVars, monitorVars
  <1>3. CASE Restart
    BY <1>3 DEF TInv, TypeOK, BInv, PositionsBlacklisted, Restart, FinishedPC,
                Trades
  <1> QED
    <2>1. CASE \E t \in Buys : HandlerStep(t)
      BY <2>1, BlacklistHandler
    <2>2. CASE OthersStep
      BY <2>2, OthersFrame DEF Frame, BInv, PositionsBlacklisted
    <2> QED
      BY <1>1, <1>2, <1>3, <2>1, <2>2 DEF Next, OthersStep

\* A token is active, monitored or listed only if it is blacklisted, or about
\* to be by the handler that listed it.
THEOREM PositionsAreBlacklisted == Spec => []PositionsBlacklisted
  <1>1. Spec => []BInv
    BY BlacklistInit, BlacklistNext, TypeInvariant, PTL DEF Spec
  <1> QED
    BY <1>1, PTL DEF BInv

-----------------------------------------------------------------------------
(* The overshoot of COUNTER_LIMIT.  A handler that passes the check counts  *)
(* for one token from then on: the active tokens and the admitted handlers  *)
(* together never reach CounterLimit + MaxOverlap.                          *)

OInv ==
    /\ Cardinality(Running) <= MaxOverlap
    /\ Cardinality(tracked) + Cardinality(Admitted) < CounterLimit + MaxOverlap

\* The sets that are counted are finite, and an admitted handler runs.
LEMMA Counts ==
    ASSUME TInv
    PROVE  /\ IsFiniteSet(Running) /\ IsFiniteSet(Admitted) /\ IsFiniteSet(tracked)
           /\ Cardinality(Running) \in Nat /\ Cardinality(Admitted) \in Nat
           /\ Cardinality(tracked) \in Nat
           /\ Admitted \subseteq Running
  <1>1. IsFiniteSet(Buys) /\ IsFiniteSet(Mints)
    BY ConstantsAssumption, FS_Subset DEF Trades
  <1>2. Running \subseteq Buys /\ Admitted \subseteq Running /\ tracked \subseteq Mints
    BY DEF TInv, TypeOK, Running, Admitted, RunningPC
  <1>3. IsFiniteSet(Running) /\ IsFiniteSet(Admitted) /\ IsFiniteSet(tracked)
    BY <1>1, <1>2, FS_Subset
  <1> QED
    BY <1>2, <1>3, FS_CardinalityType

\* Nothing that only finishes handlers and forgets tokens breaks the bound.
LEMMA OvershootShrinks ==
    ASSUME TInv, OInv, Running' \subseteq Running, Admitted' \subseteq Admitted,
           tracked' \subseteq tracked
    PROVE  OInv'
  <1>1. /\ Cardinality(Running') <= Cardinality(Running)
        /\ Cardinality(Admitted') <= Cardinality(Admitted)
        /\ Cardinality(tracked') <= Cardinality(tracked)
        /\ Cardinality(Running') \in Nat /\ Cardinality(Admitted') \in Nat
        /\ Cardinality(tracked') \in Nat
    BY Counts, FS_Subset, FS_CardinalityType
  <1> HIDE DEF Running, Admitted
  <1> QED
    BY <1>1, Counts, ConstantsAssumption DEF OInv

\* Nobody runs at the start.
LEMMA OvershootInit == Init => OInv
  <1> SUFFICES ASSUME Init
               PROVE  OInv
    OBVIOUS
  <1>1. Running = {} /\ Admitted = {} /\ tracked = {}
    BY DEF Init, Running, Admitted, RunningPC, BuyingPC, Trades
  <1> QED
    BY <1>1, FS_EmptySet, ConstantsAssumption DEF OInv

\* Spawning respects the overlap; the new handler is not admitted yet.
LEMMA OvershootSpawn ==
    ASSUME TInv, OInv, NEW t \in Trades, NEW m \in Mints, Spawn(t, m)
    PROVE  OInv'
  <1>1. Admitted' = Admitted /\ tracked' = tracked
    BY ConstantsAssumption
    DEF TInv, TypeOK, Spawn, Goto, Admitted, BuyingPC, Trades, tableVars
  <1>2. CASE t \in Whales
    <2>1. Running' = Running
      BY <1>2, ConstantsAssumption
      DEF TInv, TypeOK, Spawn, Goto, Running, RunningPC, BuyingPC, Trades
    <2> QED
      BY <1>1, <2>1, OvershootShrinks
  <1>3. CASE t \notin Whales
    <2>1. t \notin Running /\ Running' = Running \cup {t}
      BY <1>3 DEF TInv, TypeOK, Spawn, Goto, Running, RunningPC, BuyingPC, Trades
    <2>2. Cardinality(Running') = Cardinality(Running) + 1
      BY <2>1, Counts, FS_AddElement
    <2>3. Cardinality(Running) < MaxOverlap
      BY <1>3 DEF Spawn
    <2> QED
      BY <1>1, <2>2, <2>3, Counts, ConstantsAssumption DEF OInv
  <1> QED
    BY <1>2, <1>3

\* The check admits a handler that runs and was not admitted: fewer than
\* MaxOverlap others are, and fewer than CounterLimit tokens are active.
LEMMA OvershootAdmit ==
    ASSUME TInv, OInv, NEW t \in Buys, Admit(t)
    PROVE  OInv'
  <1>1. tracked' = tracked /\ Running' \subseteq Running
    BY DEF TInv, TypeOK, Admit, Goto, Running, RunningPC, BuyingPC, Trades, tableVars
  <1>2. CASE pc'[t] # "blacklist"
    <2>1. Admitted' \subseteq Admitted
      BY <1>2 DEF TInv, TypeOK, Admit, Goto, Admitted, BuyingPC, Trades
    <2> QED
      BY <1>1, <2>1, OvershootShrinks
  <1>3. CASE pc'[t] = "blacklist"
    <2>0. Cardinality(tracked) < CounterLimit
      BY <1>3 DEF TInv, TypeOK, Admit, Goto, Trades
    <2>1. t \in Running /\ t \notin Admitted /\ Admitted' = Admitted \cup {t}
      BY <1>3 DEF TInv, TypeOK, Admit, Goto, Admitted, Running, RunningPC,
                  BuyingPC, Trades
    <2>2. Cardinality(Admitted') = Cardinality(Admitted) + 1
      BY <2>1, Counts, FS_AddElement
    <2>3. Cardinality(Admitted \cup {t}) <= Cardinality(Running)
      BY <2>1, Counts, FS_Subset
    <2>4. /\ Cardinality(Running') <= Cardinality(Running)
          /\ Cardinality(Running') \in Nat
      BY <1>1, Counts, FS_Subset, FS_CardinalityType
    <2> QED
      BY <1>1, <2>0, <2>1, <2>2, <2>3, <2>4, Counts, ConstantsAssumption DEF OInv
  <1> QED
    BY <1>2, <1>3

\* An active token replaces an admitted handler.
LEMMA OvershootTrack ==
    ASSUME TInv, OInv, NEW t \in Buys, Track(t)
    PROVE  OInv'
  <1>1. /\ Running' = Running
        /\ t \in Admitted /\ Admitted' = Admitted \ {t}
        /\ tracked' = tracked \cup {mint[t]}
    BY DEF TInv, TypeOK, Track, Goto, Running, Admitted, RunningPC, BuyingPC,
           Trades
  <1>2. Cardinality(Admitted') = Cardinality(Admitted) - 1
    BY <1>1, Counts, FS_RemoveElement
  <1>3. /\ Cardinality(tracked') <= Cardinality(tracked) + 1
        /\ Cardinality(tracked') \in Nat
    <2>1. CASE mint[t] \in tracked
      <3>1. tracked' = tracked
        BY <1>1, <2>1
      <3> QED
        BY <3>1, Counts
    <2>2. CASE mint[t] \notin tracked
      <3>1. Cardinality(tracked \cup {mint[t]}) = Cardinality(tracked) + 1
        BY <2>2, Counts, FS_AddElement
      <3> QED
        BY <1>1, <3>1, Counts
    <2> QED
      BY <2>1, <2>2
  <1> QED
    BY <1>1, <1>2, <1>3, Counts, ConstantsAssumption DEF OInv

\* Every step keeps the bound.
LEMMA OvershootNext == TInv /\ OInv /\ [Next]_vars => OInv'
  <1> SUFFICES ASSUME TInv, OInv, [Next]_vars
               PROVE  OInv'
    OBVIOUS
  <1>1. CASE UNCHANGED vars
    BY <1>1 DEF OInv, Running, Admitted, vars, handlerVars, tableVars
  <1>2. ASSUME NEW t \in Trades, NEW m \in Mints, Spawn(t, m)
        PROVE  OInv'
    BY <1>2, OvershootSpawn
  <1>3. ASSUME NEW t \in Buys, HandlerStep(t)
        PROVE  OInv'
    <2>1. CASE Admit(t) \/ Track(t)
      BY <2>1, OvershootAdmit, OvershootTrack
    <2>2. CASE ~Admit(t) /\ ~Track(t)
      <3>1. /\ tracked' = tracked
            /\ Running' \subseteq Running /\ Admitted' \subseteq Admitted
        BY <1>3, <2>2
        DEF TInv, TypeOK, HandlerStep, CheckBlacklist, Build, Send, Verify,
            Record, Seal, Tally, StartMonitor, Goto, Running, Admitted,
            RunningPC, BuyingPC, Trades, tableVars
      <3> QED
        BY <3>1, OvershootShrinks
    <2> QED
      BY <2>1, <2>2
  <1>4. CASE Restart
    <2>1. /\ tracked' \subseteq tracked
          /\ Running' \subseteq Running /\ Admitted' \subseteq Admitted
      BY <1>4 DEF TInv, TypeOK, Restart, Running, Admitted, RunningPC, BuyingPC,
                  FinishedPC, Trades
    <2> QED
      BY <2>1, OvershootShrinks
  <1>5. CASE OthersStep
    <2>1. Running' \subseteq Running /\ Admitted' \subseteq Admitted
      BY <1>5, OthersFrame DEF Frame, Running, Admitted
    <2>2. tracked' \subseteq tracked
      BY <1>5, OthersFrame DEF Frame
    <2> QED
      BY <2>1, <2>2, OvershootShrinks
  <1> QED
    BY <1>1, <1>2, <1>3, <1>4, <1>5 DEF Next, OthersStep

\* However many handlers race through the limit check, the active tokens stay
\* below the limit plus the number of handlers that overlap.
THEOREM OvershootIsBounded == Spec => []OvershootBounded
  <1>1. Spec => []OInv
    BY OvershootInit, OvershootNext, TypeInvariant, PTL DEF Spec
  <1>2. TInv /\ OInv => OvershootBounded
    BY Counts, ConstantsAssumption DEF OInv, OvershootBounded
  <1> QED
    BY <1>1, <1>2, TypeInvariant, PTL

-----------------------------------------------------------------------------
(* Cancellation tokens.  A live monitor either is in the registry, or has   *)
(* been cancelled, or was displaced by a later monitor of its token.        *)

\* Every live monitor is in the registry or has been cancelled, but for those
\* another buy displaced; the handler that displaced it never loses its token.
LEMMA OrphanInit == Init => OrphanWasDisplaced
  BY DEF Init, OrphanWasDisplaced, Live

\* A handler displaces the monitor it finds in the registry when it starts its
\* own; its other steps touch no monitor.
LEMMA OrphanHandler ==
    ASSUME TInv, OrphanWasDisplaced, NEW u \in Buys, HandlerStep(u)
    PROVE  OrphanWasDisplaced'
  <1>1. CASE StartMonitor(u)
    BY <1>1 DEF TInv, TypeOK, Spawned, OrphanWasDisplaced, Live, StartMonitor,
                Goto, Trades
  <1>2. CASE ~StartMonitor(u)
    <2>1. mint' = mint /\ UNCHANGED monitorVars
      BY <1>2 DEF HandlerStep, Admit, CheckBlacklist, Build, Send, Verify,
                  Record, Seal, Tally, Track
    <2> QED
      BY <2>1 DEF OrphanWasDisplaced, Live, monitorVars
  <1> QED
    BY <1>1, <1>2

\* A monitor takes a token out of the registry only by cancelling it.
LEMMA OrphanMonitor ==
    ASSUME TInv, OrphanWasDisplaced, NEW u \in Buys, MonitorStep(u)
    PROVE  OrphanWasDisplaced'
  <1> USE DEF TInv, TypeOK, Spawned, OrphanWasDisplaced, Live, Move,
              SellingState, MonitorState, handlerVars, Trades
  <1>1. CASE MonitorConnect(u)
    BY <1>1, ConstantsAssumption DEF MonitorConnect
  <1>2. ASSUME NEW m \in Mints, MonitorTrigger(u, m)
        PROVE  OrphanWasDisplaced'
    BY <1>2, ConstantsAssumption DEF MonitorTrigger
  <1>3. CASE MonitorStreamEnd(u)
    BY <1>3, ConstantsAssumption DEF MonitorStreamEnd
  <1>4. CASE MonitorCancelled(u)
    BY <1>4, ConstantsAssumption DEF MonitorCancelled
  <1>5. CASE ReadBalance(u)
    BY <1>5, ConstantsAssumption DEF ReadBalance, Return
  <1>6. CASE WhaleSubmit(u)
    BY <1>6, ConstantsAssumption DEF WhaleSubmit
  <1>7. CASE EmergencySubmit(u)
    BY <1>7, ConstantsAssumption DEF EmergencySubmit, Return
  <1>8. CASE CancelMonitoring(u)
    BY <1>8, ConstantsAssumption DEF CancelMonitoring, Return, Deregister
  <1> QED
    BY <1>1, <1>2, <1>3, <1>4, <1>5, <1>6, <1>7, <1>8 DEF MonitorStep

\* Every step preserves it: clean-up cancels what it removes, and a restart
\* leaves no live monitor.
LEMMA OrphanNext == TInv /\ OrphanWasDisplaced /\ [Next]_vars => OrphanWasDisplaced'
  <1> SUFFICES ASSUME TInv, OrphanWasDisplaced, [Next]_vars
               PROVE  OrphanWasDisplaced'
    OBVIOUS
  <1>1. ASSUME NEW m \in Mints, SweepFull(m)
        PROVE  OrphanWasDisplaced'
    BY <1>1, ConstantsAssumption
    DEF TInv, TypeOK, Spawned, OrphanWasDisplaced, Live, SweepFull, Deregister,
        handlerVars, Trades
  <1>2. ASSUME NEW t \in Trades, NEW m \in Mints, Spawn(t, m)
        PROVE  OrphanWasDisplaced'
    BY <1>2 DEF TInv, TypeOK, Spawned, OrphanWasDisplaced, Live, Spawn, Goto,
                monitorVars, Trades
  <1>3. CASE Restart
    BY <1>3 DEF TInv, TypeOK, OrphanWasDisplaced, Live, Restart
  <1>4. CASE mint' = mint /\ UNCHANGED monitorVars
    BY <1>4 DEF OrphanWasDisplaced, Live, monitorVars
  <1>5. ASSUME \/ UNCHANGED vars
               \/ \E t \in Whales : WhaleStep(t)
               \/ \E mode \in {"basic", "full"} : SweepBegin(mode)
               \/ \E m \in Mints : SweepKeep(m) \/ SweepFound(m) \/ SweepBasic(m)
               \/ \E m \in Mints : WalletNotice(m) \/ WalletNoticeLost(m)
               \/ ChainStep
        PROVE  OrphanWasDisplaced'
    BY <1>4, <1>5
    DEF vars, handlerVars, WhaleStep, WhaleDetected, WhaleSend, WhaleVerify,
        SweepBegin, SweepKeep, SweepFound, SweepBasic, WalletNotice,
        WalletNoticeLost, ChainStep, BuyLands, BuyDropped, SellLands, SellDropped
  <1> QED
    BY <1>1, <1>2, <1>3, <1>5, OrphanHandler, OrphanMonitor DEF Next, SweepStep

\* The registry loses a live monitor only to a later buy of the same token.
THEOREM OrphansWereDisplaced == Spec => []OrphanWasDisplaced
  BY OrphanInit, OrphanNext, TypeInvariant, PTL DEF Spec

-----------------------------------------------------------------------------
(* CopyTrading implements BuyOnce.  The mapping reads the stage of a buy    *)
(* off its transaction and its handler; RInv says that the two agree.       *)

RInv ==
    \A t \in Buys :
        /\ pc[t] \in {"idle", "admit", "blacklist", "build", "send"}
              => buyTx[t] = "none"
        /\ pc[t] \in {"verify", "record", "seal", "tally", "track", "settle"}
              => buyTx[t] # "none"

\* Nothing has been sent at the start.
LEMMA SentInit == Init => RInv
  BY DEF Init, RInv, Trades

\* A handler sends exactly when it goes on to verify, or fails.
LEMMA SentNext == TInv /\ RInv /\ [Next]_vars => RInv'
  <1> SUFFICES ASSUME TInv, RInv, [Next]_vars
               PROVE  RInv'
    OBVIOUS
  <1> USE DEF TInv, TypeOK, RInv, Trades
  <1>1. CASE UNCHANGED vars
    BY <1>1 DEF vars, handlerVars, chainVars
  <1>2. ASSUME NEW t \in Trades, NEW m \in Mints, Spawn(t, m)
        PROVE  RInv'
    BY <1>2, ConstantsAssumption DEF Spawn, Goto, chainVars
  <1>3. ASSUME NEW t \in Buys, HandlerStep(t)
        PROVE  RInv'
    BY <1>3 DEF HandlerStep, Admit, CheckBlacklist, Build, Send, Verify, Record,
                Seal, Tally, Track, StartMonitor, Goto, chainVars
  <1>4. CASE Restart
    BY <1>4 DEF Restart, FinishedPC
  <1>5. CASE OthersStep
    BY <1>5, OthersFrame DEF Frame
  <1> QED
    BY <1>1, <1>2, <1>3, <1>4, <1>5 DEF Next, OthersStep

\* The initial states of the bot map to those of the promise.
LEMMA PromiseInit == Init => Promise!Init
  BY DEF Init, Promise!Init, Stage, Trades

\* A step that changes neither a stage, nor a token, nor the blacklist is a
\* stutter of the promise.
LEMMA PromiseStutter ==
    ASSUME blacklist' = blacklist,
           \A t \in Buys : mint'[t] = mint[t] /\ Stage(t)' = Stage(t)
    PROVE  UNCHANGED Promise!vars
  BY DEF Promise!vars

\* What a handler step means to the promise.
LEMMA PromiseHandler ==
    ASSUME TInv, RInv, NEW t \in Buys, HandlerStep(t)
    PROVE  [Promise!Next]_(Promise!vars)
  <1> DEFINE stage == [u \in Buys |-> Stage(u)]
             token == [u \in Buys |-> mint[u]]
  <1>0. /\ mint' = mint
        /\ \A u \in Buys \ {t} : pc'[u] = pc[u] /\ buyTx'[u] = buyTx[u]
    BY DEF TInv, TypeOK, HandlerStep, Admit, CheckBlacklist, Build, Send, Verify,
           Record, Seal, Tally, Track, StartMonitor, Goto, chainVars, Trades
  <1>a. \A u \in Buys \ {t} : Stage(u)' = Stage(u)
    BY <1>0 DEF Stage
  <1>b. stage' = [stage EXCEPT ![t] = Stage(t)'] /\ token' = token
    BY <1>0, <1>a
  <1>1. CASE Admit(t)
    <2>1. Stage(t) = "open" /\ Stage(t)' \in {"open", "closed"} /\ blacklist' = blacklist
      BY <1>1 DEF TInv, TypeOK, RInv, Admit, Goto, Stage, Trades, tableVars, chainVars
    <2>2. CASE Stage(t)' = "open"
      BY <1>0, <1>a, <2>1, <2>2, PromiseStutter
    <2>3. CASE Stage(t)' = "closed"
      <3>1. Promise!Close(t)
        BY <1>b, <2>1, <2>3 DEF Promise!Close, Promise!Become
      <3> QED
        BY <3>1 DEF Promise!Next
    <2> QED
      BY <2>1, <2>2, <2>3
  <1>2. CASE CheckBlacklist(t)
    <2>1. /\ Stage(t) = "open" /\ blacklist' = blacklist
          /\ Stage(t)' = IF mint[t] \in blacklist THEN "closed" ELSE "cleared"
      BY <1>2 DEF TInv, TypeOK, RInv, CheckBlacklist, Goto, Stage, Trades,
                  tableVars, chainVars
    <2>2. Promise!Close(t) \/ Promise!Clear(t)
      BY <1>b, <2>1 DEF Promise!Close, Promise!Clear, Promise!Become
    <2> QED
      BY <2>2 DEF Promise!Next
  <1>3. CASE Build(t) \/ Send(t)
    <2>1. /\ Stage(t) = "cleared" /\ blacklist' = blacklist
          /\ Stage(t)' \in {"cleared", "closed", "committed"}
      BY <1>3 DEF TInv, TypeOK, RInv, Build, Send, Goto, Stage, TxState, Trades,
                  tableVars, chainVars
    <2>2. CASE Stage(t)' = "cleared"
      BY <1>0, <1>a, <2>1, <2>2, PromiseStutter
    <2>3. CASE Stage(t)' = "closed"
      <3>1. Promise!Close(t)
        BY <1>b, <2>1, <2>3 DEF Promise!Close, Promise!Become
      <3> QED
        BY <3>1 DEF Promise!Next
    <2>4. CASE Stage(t)' = "committed"
      <3>1. Promise!Commit(t)
        BY <1>b, <2>1, <2>4 DEF Promise!Commit, Promise!Become
      <3> QED
        BY <3>1 DEF Promise!Next
    <2> QED
      BY <2>1, <2>2, <2>3, <2>4
  <1>4. CASE Verify(t) \/ Record(t) \/ Seal(t) \/ Tally(t) \/ Track(t) \/ StartMonitor(t)
    <2>1. /\ Stage(t) = "committed" /\ Stage(t)' = "committed"
          /\ blacklist' \in {blacklist, blacklist \cup {mint[t]}}
      BY <1>4 DEF TInv, TypeOK, RInv, Verify, Record, Seal, Tally, Track,
                  StartMonitor, Goto, Stage, Trades, tableVars, chainVars
    <2>2. CASE blacklist' = blacklist
      BY <1>0, <1>a, <2>1, <2>2, PromiseStutter
    <2>3. CASE blacklist' = blacklist \cup {mint[t]}
      <3>1. Promise!Confirm(t)
        BY <1>b, <2>1, <2>3 DEF Promise!Confirm
      <3> QED
        BY <3>1 DEF Promise!Next
    <2> QED
      BY <2>1, <2>2, <2>3
  <1> QED
    BY <1>1, <1>2, <1>3, <1>4 DEF HandlerStep

\* Every step of the bot is a step of the promise, or nothing to it.
LEMMA PromiseNext == TInv /\ RInv /\ [Next]_vars => [Promise!Next]_(Promise!vars)
  <1> SUFFICES ASSUME TInv, RInv, [Next]_vars
               PROVE  [Promise!Next]_(Promise!vars)
    OBVIOUS
  <1>1. CASE UNCHANGED vars
    BY <1>1, PromiseStutter
    DEF vars, handlerVars, tableVars, chainVars, Stage
  <1>2. ASSUME NEW t \in Trades, NEW m \in Mints, Spawn(t, m)
        PROVE  [Promise!Next]_(Promise!vars)
    <2>0. blacklist' = blacklist /\ buyTx' = buyTx
      BY <1>2 DEF Spawn, tableVars, chainVars
    <2>a. \A u \in Buys \ {t} : Stage(u)' = Stage(u) /\ mint'[u] = mint[u]
      BY <1>2, <2>0 DEF TInv, TypeOK, Spawn, Goto, Stage, Trades
    <2>1. CASE t \in Buys
      <3>1. /\ Stage(t) = "new" /\ Stage(t)' = "open"
            /\ mint'[t] = m
        BY <1>2, <2>0, <2>1, ConstantsAssumption
        DEF TInv, TypeOK, RInv, Spawn, Goto, Stage, Trades
      <3>2. Promise!Open(t, m)
        BY <2>0, <2>a, <2>1, <3>1 DEF Promise!Open, Promise!Become
      <3> QED
        BY <2>1, <3>2 DEF Promise!Next
    <2>2. CASE t \notin Buys
      BY <2>0, <2>a, <2>2, PromiseStutter
    <2> QED
      BY <2>1, <2>2
  <1>3. ASSUME NEW t \in Buys, HandlerStep(t)
        PROVE  [Promise!Next]_(Promise!vars)
    BY <1>3, PromiseHandler
  <1>4. CASE Restart
    <2>1. \A t \in Buys : Stage(t)' = IF Stage(t) \in {"open", "cleared"}
                                      THEN "closed" ELSE Stage(t)
      BY <1>4 DEF TInv, TypeOK, RInv, Restart, FinishedPC, HandlerPC, RunningPC,
                  BuyingPC, WhalePC, Stage, Trades
    <2>2. blacklist' = {} /\ mint' = mint
      BY <1>4 DEF Restart
    <2>3. Promise!Forget
      BY <2>1, <2>2 DEF Promise!Forget
    <2> QED
      BY <2>3 DEF Promise!Next
  <1>5. CASE OthersStep
    <2>1. \A t \in Buys : mint'[t] = mint[t] /\ Stage(t)' = Stage(t)
      BY <1>5, OthersFrame DEF Frame, Stage
    <2>2. blacklist' = blacklist
      BY <1>5, OthersFrame DEF Frame
    <2> QED
      BY <2>1, <2>2, PromiseStutter
  <1> QED
    BY <1>1, <1>2, <1>3, <1>4, <1>5 DEF Next, OthersStep

\* Whatever monitors, clean-up, the chain and restarts do meanwhile, the
\* handlers implement the promise: a buy is sent only after its token was found
\* off the blacklist, and only a restart takes a token off it.
THEOREM BuysOnce == Spec => KeepsPromise
  <1>1. Spec => []RInv
    BY SentInit, SentNext, TypeInvariant, PTL DEF Spec
  <1> QED
    BY <1>1, PromiseInit, PromiseNext, TypeInvariant, PTL
    DEF Spec, KeepsPromise, Promise!Spec

\* The theorems about BuyOnce, read for the bot.
PromiseProofs == INSTANCE BuyOnceProofs WITH
                    stage <- [t \in Buys |-> Stage(t)],
                    token <- [t \in Buys |-> mint[t]],
                    bought <- blacklist

\* What the promise is worth here: a handler that has still to ask the blacklist
\* when its token is on it never gets a transaction out, neither later nor after
\* a restart has emptied the blacklist.
NoLateBuy ==
    \A t \in Buys :
        [](pc[t] \in {"admit", "blacklist"} /\ mint[t] \in blacklist
              => [](buyTx[t] = "none"))

\* The steps of the bot are steps of the promise, which leave late buys late.
THEOREM NoBuyIsLate == Spec => NoLateBuy
  <1> SUFFICES ASSUME NEW t \in Buys
               PROVE  Spec => [](pc[t] \in {"admit", "blacklist"} /\ mint[t] \in blacklist
                                    => [](buyTx[t] = "none"))
    BY DEF NoLateBuy
  <1>1. [Promise!Next]_(Promise!vars) => [PromiseProofs!Next]_(PromiseProofs!vars)
    BY DEF Promise!Next, Promise!Open, Promise!Clear, Promise!Commit, Promise!Close,
           Promise!Confirm, Promise!Forget, Promise!Become, Promise!vars,
           PromiseProofs!Next, PromiseProofs!Open, PromiseProofs!Clear,
           PromiseProofs!Commit, PromiseProofs!Close, PromiseProofs!Confirm,
           PromiseProofs!Forget, PromiseProofs!Become, PromiseProofs!vars
  <1>2. Promise!Init => PromiseProofs!Init
    BY DEF Promise!Init, PromiseProofs!Init
  <1>3. Spec => []PromiseProofs!TInv
    BY <1>1, <1>2, BuysOnce, PromiseProofs!TypeCorrect, PTL
    DEF KeepsPromise, Promise!Spec, PromiseProofs!Spec
  <1>4. t \in PromiseProofs!Late /\ PromiseProofs!Late \subseteq PromiseProofs!Late'
           => (t \in PromiseProofs!Late)'
    OBVIOUS
  <1>5. TInv /\ RInv => /\ pc[t] \in {"admit", "blacklist"} /\ mint[t] \in blacklist
                               => t \in PromiseProofs!Late
                        /\ t \in PromiseProofs!Late => buyTx[t] = "none"
    BY DEF TInv, TypeOK, RInv, Stage, PromiseProofs!Late
  <1>6. Spec => []RInv
    BY SentInit, SentNext, TypeInvariant, PTL DEF Spec
  <1> QED
    BY <1>1, <1>3, <1>4, <1>5, <1>6, PromiseNext, PromiseProofs!LateStays,
       TypeInvariant, PTL DEF Spec

-----------------------------------------------------------------------------
(* Untouched positions are kept.  Whatever takes a token out of a table has *)
(* either sold it or seen its account empty, and an account is empty only   *)
(* before the buy lands, when the token is in no table, or after a sell,    *)
(* when it is touched.                                                      *)

ConfirmedPC == {"record", "seal", "tally", "track", "settle", "done"}

\* Some buy of m has landed.
Traded(m) == \E u \in Buys : buyTx[u] = "landed" /\ mint[u] = m

\* Confirmed buys have landed, and what has landed and is untouched is held.
Landed ==
    /\ \A t \in Buys : pc[t] \in ConfirmedPC => buyTx[t] = "landed"
    /\ \A t \in Buys : monitor[t] # "none" => buyTx[t] = "landed"
    /\ \A t \in Buys : buyTx[t] = "landed" => mint[t] \in touched \/ wallet[mint[t]] > 0
    /\ \A m \in listed \cup tracked \cup sweepTodo : Traded(m)

\* Sells, notices of them, and whoever concluded that a token is gone.
Touching ==
    /\ \A s \in sells : s.of \in touched
    /\ notices \subseteq touched
    /\ sweepZero \in touched \cup {NoMint}
    /\ \A t \in Buys :
          /\ monitor[t] \in SellingState => subject[t] \in touched \cup {mint[t]}
          /\ monitor[t] = "cancel" => subject[t] \in touched

\* The tables a handler has written still have its untouched token.
Kept ==
    restarts = 0 =>
       \A t \in Buys :
          mint[t] \notin touched =>
             /\ pc[t] \in {"seal", "tally", "track", "settle", "done"}
                   => mint[t] \in listed \cap accounts
             /\ pc[t] \in {"tally", "track", "settle", "done"} => mint[t] \in blacklist
             /\ pc[t] \in {"settle", "done"} => mint[t] \in tracked
             /\ pc[t] = "done" => tasks[mint[t]] \in Buys \ cancelled

\* What is registered or cancelled is the monitor of a handler that has returned,
\* registered for its own token: one that is started now has not been cancelled
\* before, and a cancellation hits the monitor of no other token.
Registered ==
    /\ \A m \in Mints :
          tasks[m] # NoTrade => pc[tasks[m]] = "done" /\ mint[tasks[m]] = m
    /\ \A t \in cancelled : pc[t] = "done"

KInv == Landed /\ Touching /\ Registered /\ Kept

\* Nothing has been bought at the start.
LEMMA KeptInit == Init => KInv
  BY ConstantsAssumption
  DEF Init, KInv, Landed, Touching, Registered, Kept, ConfirmedPC, SellingState, Trades

\* Taking a token out of the registry leaves the monitors of other tokens
\* registered and not cancelled.
LEMMA OthersStayRegistered ==
    ASSUME TInv, Registered, NEW m \in Mints, NEW t \in Buys, mint[t] \in Mints,
           mint[t] # m, tasks[mint[t]] \in Buys \ cancelled, Deregister(m)
    PROVE  tasks'[mint[t]] \in Buys \ cancelled'
  BY ConstantsAssumption DEF TInv, TypeOK, Registered, Deregister, Trades

\* A handler adds its token to one table after the other.
LEMMA KeptHandler ==
    ASSUME TInv, RInv, KInv, NEW t \in Buys, HandlerStep(t)
    PROVE  KInv'
  <1> USE DEF TInv, TypeOK, Spawned, KInv, Landed, Touching, Registered, Kept, Traded, ConfirmedPC,
              Goto, Trades, handlerVars, listVars, tableVars, monitorVars,
              sweepVars, sellVars, chainVars
  <1>1. CASE Admit(t)
    BY <1>1 DEF Admit
  <1>2. CASE CheckBlacklist(t)
    BY <1>2 DEF CheckBlacklist
  <1>3. CASE Build(t)
    BY <1>3 DEF Build
  <1>4. CASE Send(t)
    BY <1>4 DEF Send, RInv
  <1>5. CASE Verify(t)
    BY <1>5 DEF Verify
  <1>6. CASE Record(t)
    BY <1>6 DEF Record
  <1>7. CASE Seal(t)
    BY <1>7 DEF Seal
  <1>8. CASE Tally(t)
    BY <1>8 DEF Tally
  <1>9. CASE Track(t)
    BY <1>9 DEF Track
  <1>10. CASE StartMonitor(t)
    <2>1. t \notin cancelled /\ pc[t] = "settle" /\ t # NoTrade
      BY ConstantsAssumption, <1>10 DEF StartMonitor
    <2>2. Landed' /\ Touching'
      BY <1>10 DEF StartMonitor, SellingState
    <2>3. Registered' /\ Kept'
      BY <1>10, <2>1 DEF StartMonitor
    <2> QED
      BY <2>2, <2>3
  <1> QED
    BY <1>1, <1>2, <1>3, <1>4, <1>5, <1>6, <1>7, <1>8, <1>9, <1>10
    DEF HandlerStep

\* A monitor gives up a token it has sent a sell of or read an empty account of.
LEMMA KeptMonitor ==
    ASSUME TInv, KInv, NEW t \in Buys, MonitorStep(t)
    PROVE  KInv'
  <1> USE DEF TInv, TypeOK, Spawned, KInv, Landed, Touching, Registered, Kept, Traded, ConfirmedPC,
              Move, SellingState, Trades, handlerVars, listVars, tableVars,
              monitorVars, sweepVars, sellVars, chainVars
  <1>1. CASE MonitorConnect(t)
    BY <1>1 DEF MonitorConnect
  <1>2. ASSUME NEW m \in Mints, MonitorTrigger(t, m)
        PROVE  KInv'
    BY <1>2 DEF MonitorTrigger
  <1>3. CASE MonitorStreamEnd(t) \/ MonitorCancelled(t)
    BY <1>3 DEF MonitorStreamEnd, MonitorCancelled
  <1>4. CASE ReadBalance(t)
    BY <1>4 DEF ReadBalance, Return
  <1>5. CASE WhaleSubmit(t)
    BY <1>5 DEF WhaleSubmit, Submit
  <1>6. CASE EmergencySubmit(t)
    BY <1>6 DEF EmergencySubmit, Return, Submit
  <1>7. CASE CancelMonitoring(t)
    <2>1. subject[t] \in touched /\ subject[t] \in Mints
      BY <1>7 DEF CancelMonitoring, Return
    <2>2. Landed' /\ Touching'
      BY <1>7 DEF CancelMonitoring, Return, Deregister
    <2>3. /\ Deregister(subject[t])
          /\ UNCHANGED <<pc, mint, touched, listed, accounts, blacklist, restarts>>
          /\ tracked' = tracked \ {subject[t]}
      BY <1>7 DEF CancelMonitoring
    <2>4. Registered'
      BY <2>1, <2>3 DEF Deregister
    <2>5. Kept'
      BY <2>1, <2>3, OthersStayRegistered
    <2> QED
      BY <2>2, <2>4, <2>5
  <1> QED
    BY <1>1, <1>2, <1>3, <1>4, <1>5, <1>6, <1>7 DEF MonitorStep

\* A whale handler only sends a sell; it takes nothing out of a table.
LEMMA KeptWhale ==
    ASSUME TInv, KInv, NEW t \in Whales, WhaleStep(t)
    PROVE  KInv'
  <1> USE DEF TInv, TypeOK, Spawned, KInv, Landed, Touching, Registered, Kept, Traded, Goto, Trades,
              handlerVars, listVars, tableVars, monitorVars, sweepVars, sellVars,
              chainVars
  <1>1. CASE WhaleDetected(t)
    BY ConstantsAssumption, <1>1 DEF WhaleDetected
  <1>2. CASE WhaleSend(t)
    BY ConstantsAssumption, <1>2 DEF WhaleSend, Submit
  <1>3. CASE WhaleVerify(t)
    BY ConstantsAssumption, <1>3 DEF WhaleVerify
  <1> QED
    BY <1>1, <1>2, <1>3 DEF WhaleStep

\* Clean-up works on tokens some buy of which has landed, and forgets those whose
\* account it has seen empty.
LEMMA KeptSweep ==
    ASSUME TInv, KInv, SweepStep
    PROVE  KInv'
  <1> USE DEF TInv, TypeOK, Spawned, KInv, Landed, Touching, Registered, Kept, Traded, SweepNext,
              Trades, handlerVars, listVars, tableVars, monitorVars, sweepVars,
              sellVars, chainVars
  <1>1. CASE \E mode \in {"basic", "full"} : SweepBegin(mode)
    BY <1>1 DEF SweepBegin
  <1>2. ASSUME NEW m \in Mints, SweepKeep(m)
        PROVE  KInv'
    BY <1>2 DEF SweepKeep
  <1>3. ASSUME NEW m \in Mints, SweepFound(m)
        PROVE  KInv'
    BY <1>3 DEF SweepFound
  <1>4. ASSUME NEW m \in Mints, SweepBasic(m)
        PROVE  KInv'
    BY ConstantsAssumption, <1>4 DEF SweepBasic
  <1>5. ASSUME NEW m \in Mints, SweepFull(m)
        PROVE  KInv'
    BY ConstantsAssumption, <1>5 DEF SweepFull, Deregister
  <1> QED
    BY <1>1, <1>2, <1>3, <1>4, <1>5 DEF SweepStep

\* Only a sell takes tokens out of the wallet.
LEMMA KeptChain ==
    ASSUME TInv, KInv, ChainStep
    PROVE  KInv'
  <1> USE DEF TInv, TypeOK, Spawned, KInv, Landed, Touching, Registered, Kept, Traded, Trades,
              ConfirmedPC, handlerVars, listVars, tableVars, monitorVars, sweepVars, sellVars,
              chainVars
  <1>1. ASSUME NEW t \in Buys, BuyLands(t)
        PROVE  KInv'
    BY <1>1 DEF BuyLands
  <1>2. ASSUME NEW t \in Buys, BuyDropped(t)
        PROVE  KInv'
    BY <1>2 DEF BuyDropped
  <1>3. ASSUME NEW s \in sells, SellLands(s)
        PROVE  KInv'
    BY <1>3 DEF SellLands
  <1>4. ASSUME NEW s \in sells, SellDropped(s)
        PROVE  KInv'
    BY <1>4 DEF SellDropped
  <1> QED
    BY <1>1, <1>2, <1>3, <1>4 DEF ChainStep

\* Every step keeps untouched positions.
LEMMA KeptNext == TInv /\ RInv /\ KInv /\ [Next]_vars => KInv'
  <1> SUFFICES ASSUME TInv, RInv, KInv, [Next]_vars
               PROVE  KInv'
    OBVIOUS
  <1>1. CASE UNCHANGED vars
    BY <1>1 DEF KInv, Landed, Touching, Registered, Kept, Traded, vars, handlerVars, tableVars,
                monitorVars, sweepVars, chainVars
  <1>2. ASSUME NEW t \in Trades, NEW m \in Mints, Spawn(t, m)
        PROVE  KInv'
    BY <1>2, ConstantsAssumption
    DEF TInv, TypeOK, Spawned, KInv, Landed, Touching, Registered, Kept, Traded, ConfirmedPC,
        SellingState, Spawn, Goto, Trades, tableVars, monitorVars, sweepVars, chainVars
  <1>3. ASSUME NEW m \in Mints, WalletNotice(m) \/ WalletNoticeLost(m)
        PROVE  KInv'
    BY <1>3
    DEF TInv, TypeOK, KInv, Landed, Touching, Registered, Kept, Traded, WalletNotice,
        WalletNoticeLost, handlerVars, tableVars, monitorVars, sweepVars, sellVars
  <1>4. CASE Restart
    BY <1>4
    DEF TInv, TypeOK, KInv, Landed, Touching, Registered, Kept, Traded, ConfirmedPC, FinishedPC,
        SellingState, Restart, Trades, sellVars
  <1> QED
    BY <1>1, <1>2, <1>3, <1>4, KeptHandler, KeptMonitor, KeptWhale, KeptSweep, KeptChain
    DEF Next

\* A confirmed position nobody has begun to sell is in the wallet and in every
\* table its sale depends on, until the process restarts.
THEOREM UntouchedPositionsKept == Spec => []UntouchedPositionKept
  <1>1. TInv /\ KInv => UntouchedPositionKept
    BY DEF TInv, TypeOK, Spawned, KInv, Landed, Registered, Kept, ConfirmedPC, UntouchedPositionKept
  <1> QED
    BY <1>1, KeptInit, KeptNext, SentInit, SentNext, TypeInvariant, PTL DEF Spec

-----------------------------------------------------------------------------
(* Abandoned positions.                                                     *)

\* What is not watched is not watched again: a handler of the token is at or
\* before the blacklist, or will not start a monitor any more.
LEMMA UnwatchedStays ==
    ASSUME TInv, [Next]_vars, NEW m \in Mints, Unwatched(m), restarts' = restarts
    PROVE  Unwatched(m)'
  <1> USE DEF TInv, TypeOK, Spawned, Unwatched, Live, BuyingPC, Trades
  <1>1. CASE UNCHANGED vars
    BY <1>1 DEF vars, handlerVars, tableVars, monitorVars
  <1>2. ASSUME NEW t \in Trades, NEW n \in Mints, Spawn(t, n)
        PROVE  Unwatched(m)'
    BY <1>2, ConstantsAssumption DEF Spawn, Goto, tableVars, monitorVars
  <1>3. ASSUME NEW t \in Buys, HandlerStep(t)
        PROVE  Unwatched(m)'
    BY <1>3
    DEF HandlerStep, Admit, CheckBlacklist, Build, Send, Verify, Record, Seal, Tally,
        Track, StartMonitor, Goto, tableVars, monitorVars, listVars
  <1>4. CASE OthersStep
    <2>1. ASSUME NEW t \in Buys
          PROVE  /\ Live(t)' => Live(t)
                 /\ t \in cancelled => t \in cancelled'
      <3>1. ASSUME NEW u \in Buys, MonitorStep(u)
            PROVE  (Live(t)' => Live(t)) /\ (t \in cancelled => t \in cancelled')
        BY <3>1
        DEF MonitorStep, Return, Move, MonitorConnect, MonitorTrigger, MonitorStreamEnd,
            MonitorCancelled, ReadBalance, WhaleSubmit, EmergencySubmit,
            CancelMonitoring, Deregister
      <3>2. ASSUME NEW u \in Whales, WhaleStep(u)
            PROVE  UNCHANGED <<monitor, cancelled>>
        BY <3>2 DEF WhaleStep, WhaleDetected, WhaleSend, WhaleVerify, monitorVars
      <3>3. CASE SweepStep
        BY <3>3 DEF SweepStep, SweepBegin, SweepKeep, SweepFound, SweepBasic, SweepFull,
                    Deregister, monitorVars
      <3>4. CASE ChainStep \/ \E n \in Mints : WalletNotice(n) \/ WalletNoticeLost(n)
        BY <3>4 DEF ChainStep, BuyLands, BuyDropped, SellLands, SellDropped,
                    WalletNotice, WalletNoticeLost, monitorVars
      <3> QED
        BY <1>4, <3>1, <3>2, <3>3, <3>4 DEF OthersStep
    <2> QED
      BY <1>4, <2>1, OthersFrame DEF Frame
  <1>5. CASE Restart
    BY <1>5 DEF Restart
  <1> QED
    BY <1>1, <1>2, <1>3, <1>4, <1>5 DEF Next, OthersStep

\* Tokens left behind by a sell that was dropped, or by a stream that ended, have
\* no monitor for the rest of the process's life.
THEOREM AbandonedStays == Spec => AbandonedForGood
  <1>1. TInv /\ [Next]_vars =>
          [\A m \in Mints : Unwatched(m) /\ wallet[m] > 0 /\ restarts' = restarts
                               => Unwatched(m)']_vars
    BY UnwatchedStays
  <1> QED
    BY <1>1, TypeInvariant, PTL DEF Spec, AbandonedForGood

-----------------------------------------------------------------------------
(* The jam.                                                                 *)

HoldingPC == {"whaleSend", "whaleVerify", "whaleRemove"}

\* Whoever is between get_mut and the end of a large sell holds the entry of its
\* token, which is still there.
Holds ==
    \A w \in Whales :
        pc[w] \in HoldingPC => guard[mint[w]] = w /\ mint[w] \in listed

\* At first nobody holds anything.
LEMMA HoldsInit == Init => Holds
  BY DEF Init, Holds, HoldingPC, Trades

\* A guard is taken by one handler at a time and let go by that handler only;
\* nobody else removes the entry behind it.
LEMMA HoldsNext == TInv /\ Holds /\ [Next]_vars => Holds'
  <1> SUFFICES ASSUME TInv, Holds, [Next]_vars
               PROVE  Holds'
    OBVIOUS
  <1> USE ConstantsAssumption
      DEF TInv, TypeOK, Spawned, Holds, HoldingPC, Unguarded, Trades, handlerVars,
          listVars, tableVars, monitorVars, sweepVars, sellVars, chainVars
  <1>1. CASE UNCHANGED vars
    BY <1>1 DEF vars
  <1>2. ASSUME NEW t \in Trades, NEW m \in Mints, Spawn(t, m)
        PROVE  Holds'
    BY <1>2 DEF Spawn, Goto
  <1>3. ASSUME NEW t \in Buys, HandlerStep(t)
        PROVE  Holds'
    <2>1. /\ \A w \in Whales : pc'[w] = pc[w]
          /\ UNCHANGED <<mint, guard>> /\ listed \subseteq listed'
      BY <1>3 DEF HandlerStep, Admit, CheckBlacklist, Build, Send, Verify, Record,
                  Seal, Tally, Track, StartMonitor, Goto
    <2> QED
      BY <2>1
  <1>4. ASSUME NEW t \in Buys, MonitorStep(t)
        PROVE  Holds'
    <2>1. UNCHANGED <<pc, mint, listed, guard>>
      BY <1>4 DEF MonitorStep, MonitorConnect, MonitorTrigger, MonitorStreamEnd,
                  MonitorCancelled, ReadBalance, WhaleSubmit, EmergencySubmit,
                  CancelMonitoring
    <2> QED
      BY <2>1
  <1>5. ASSUME NEW t \in Whales, WhaleStep(t)
        PROVE  Holds'
    <2>1. CASE WhaleDetected(t)
      BY <2>1 DEF WhaleDetected, Goto
    <2>2. CASE WhaleSend(t) \/ WhaleVerify(t)
      BY <2>2 DEF WhaleSend, WhaleVerify, Goto
    <2> QED
      BY <1>5, <2>1, <2>2 DEF WhaleStep
  <1>6. CASE SweepStep
    <2>1. /\ UNCHANGED <<pc, mint, guard>>
          /\ \A m \in Mints : m \in listed /\ m \notin listed' => guard[m] = NoTrade
      BY <1>6 DEF SweepStep, SweepBegin, SweepKeep, SweepFound, SweepBasic, SweepFull
    <2> QED
      BY <2>1
  <1>7. ASSUME NEW m \in Mints, WalletNotice(m) \/ WalletNoticeLost(m)
        PROVE  Holds'
    BY <1>7 DEF WalletNotice, WalletNoticeLost
  <1>8. CASE ChainStep
    <2>1. UNCHANGED <<pc, mint, listed, guard>>
      BY <1>8 DEF ChainStep, BuyLands, BuyDropped, SellLands, SellDropped
    <2> QED
      BY <2>1
  <1>9. CASE Restart
    BY <1>9 DEF Restart, FinishedPC
  <1> QED
    BY <1>1, <1>2, <1>3, <1>4, <1>5, <1>6, <1>7, <1>8, <1>9 DEF Next

\* No step leaves "whaleRemove", and none begins a round of clean-up while a guard
\* is held.
LEMMA JamStays ==
    ASSUME TInv, Holds, Holds', [Next]_vars, NEW w \in Whales,
           pc[w] = "whaleRemove", restarts' = restarts
    PROVE  /\ pc'[w] = "whaleRemove" /\ guard'[mint[w]] = w
           /\ mint[w] \in listed'
           /\ sweepMode = "idle" => sweepMode' = "idle"
  <1> USE ConstantsAssumption
      DEF TInv, TypeOK, Spawned, Holds, HoldingPC, Unguarded, Trades, handlerVars,
          listVars, tableVars, monitorVars, sweepVars, sellVars, chainVars
  <1>1. pc'[w] = "whaleRemove" /\ mint'[w] = mint[w]
    <2>1. ASSUME NEW t \in Trades, NEW m \in Mints, Spawn(t, m)
          PROVE  pc'[w] = "whaleRemove" /\ mint'[w] = mint[w]
      BY <2>1 DEF Spawn, Goto
    <2>2. ASSUME NEW t \in Buys, HandlerStep(t)
          PROVE  pc'[w] = "whaleRemove" /\ mint'[w] = mint[w]
      BY <2>2 DEF HandlerStep, Admit, CheckBlacklist, Build, Send, Verify, Record,
                  Seal, Tally, Track, StartMonitor, Goto
    <2>3. ASSUME NEW t \in Whales, WhaleStep(t)
          PROVE  pc'[w] = "whaleRemove" /\ mint'[w] = mint[w]
      BY <2>3 DEF WhaleStep, WhaleDetected, WhaleSend, WhaleVerify, Goto
    <2>4. CASE UNCHANGED vars
      BY <2>4 DEF vars
    <2>5. ASSUME NEW t \in Buys, MonitorStep(t)
          PROVE  UNCHANGED <<pc, mint>>
      BY <2>5 DEF MonitorStep, MonitorConnect, MonitorTrigger, MonitorStreamEnd,
                  MonitorCancelled, ReadBalance, WhaleSubmit, EmergencySubmit,
                  CancelMonitoring
    <2>6. CASE SweepStep
      BY <2>6 DEF SweepStep, SweepBegin, SweepKeep, SweepFound, SweepBasic, SweepFull
    <2>7. CASE ChainStep \/ \E m \in Mints : WalletNotice(m) \/ WalletNoticeLost(m)
      BY <2>7 DEF ChainStep, BuyLands, BuyDropped, SellLands, SellDropped,
                  WalletNotice, WalletNoticeLost
    <2>8. ~Restart
      BY DEF Restart
    <2> QED
      BY <2>1, <2>2, <2>3, <2>4, <2>5, <2>6, <2>7, <2>8 DEF Next
  <1>2. guard'[mint[w]] = w /\ mint[w] \in listed'
    BY <1>1
  <1>3. sweepMode = "idle" => sweepMode' = "idle"
    <2> SUFFICES ASSUME sweepMode = "idle" PROVE sweepMode' = "idle"
      OBVIOUS
    <2>1. ~NoGuards
      BY DEF NoGuards
    <2>2. CASE SweepStep
      BY <2>1, <2>2 DEF SweepStep, SweepBegin, SweepKeep, SweepFound, SweepBasic,
                        SweepFull, SweepNext
    <2>3. CASE ~SweepStep
      <3>1. UNCHANGED sweepMode
        BY <2>3
        DEF Next, vars, Spawn, HandlerStep, Admit, CheckBlacklist, Build, Send, Verify,
            Record, Seal, Tally, Track, StartMonitor, MonitorStep, MonitorConnect,
            MonitorTrigger, MonitorStreamEnd, MonitorCancelled, ReadBalance,
            WhaleSubmit, EmergencySubmit, CancelMonitoring, WhaleStep, WhaleDetected,
            WhaleSend, WhaleVerify, WalletNotice, WalletNoticeLost, ChainStep,
            BuyLands, BuyDropped, SellLands, SellDropped, Restart
      <3> QED
        BY <3>1
    <2> QED
      BY <2>2, <2>3
  <1> QED
    BY <1>1, <1>2, <1>3

\* A confirmed large sell leaves its token listed and the process without clean-up,
\* for every token, until a restart.
THEOREM JamsAreFinal == Spec => JamFinal
  <1>1. TInv /\ Holds /\ Holds' /\ [Next]_vars =>
          [\A w \in Whales :
              pc[w] = "whaleRemove" /\ restarts' = restarts
                 => /\ pc'[w] = "whaleRemove" /\ guard'[mint[w]] = w
                    /\ mint[w] \in listed'
                    /\ sweepMode = "idle" => sweepMode' = "idle"]_vars
    BY JamStays
  <1> QED
    BY <1>1, HoldsInit, HoldsNext, TypeInvariant, PTL DEF Spec, JamFinal
-----------------------------------------------------------------------------
(* CopyTrading implements MonitorLife.                                      *)

\* A handler that has returned has started its monitor, and nobody else has.
Started == \A t \in Buys : monitor[t] # "none" <=> pc[t] = "done"

\* No monitor runs at the start.
LEMMA StartedInit == Init => Started
  BY DEF Init, Started, Trades

\* What the lives of monitors depend on.
lifeVars == <<monitor, cancelled>>

\* Without a change of these there is none in a life.
LEMMA LivesStutter == UNCHANGED lifeVars => UNCHANGED Lives!vars
  BY DEF lifeVars, Lives!vars, Life

\* Taking a token out of the registry cancels the monitor it finds there, which
\* has been started, or nobody.
LEMMA LivesDeregister ==
    ASSUME TInv, Registered, Started, NEW m \in Mints, Deregister(m),
           \A t \in Buys : Life(t)' = Life(t)
    PROVE  [Lives!Next]_(Lives!vars)
  <1>1. CASE tasks[m] = NoTrade
    BY <1>1 DEF Deregister, Lives!vars
  <1>2. CASE tasks[m] # NoTrade
    <2>1. tasks[m] \in Buys /\ monitor[tasks[m]] # "none"
      BY <1>2 DEF TInv, TypeOK, Registered, Started
    <2>2. Life(tasks[m]) # "off"
      BY <2>1 DEF Life
    <2>3. cancelled' = cancelled \cup {tasks[m]}
      BY <1>2, <2>1, ConstantsAssumption DEF Deregister
    <2>4. Lives!Cancel(tasks[m])
      BY <2>1, <2>2, <2>3 DEF Lives!Cancel
    <2> QED
      BY <2>1, <2>4 DEF Lives!Next
  <1> QED
    BY <1>1, <1>2

\* One monitor moves on in its life while the others stay where they are.
LEMMA LivesBecome ==
    ASSUME NEW t \in Buys, cancelled' = cancelled,
           \A u \in Buys \ {t} : Life(u)' = Life(u),
           \/ Life(t) = "off" /\ Life(t)' = "starting"
           \/ Life(t) = "starting" /\ Life(t)' = "watching"
           \/ Life(t) \in {"starting", "watching"} /\ Life(t)' = "ended"
           \/ Life(t)' = Life(t)
    PROVE  [Lives!Next]_(Lives!vars)
  <1>1. ASSUME NEW to, Life(t)' = to
        PROVE  [u \in Buys |-> Life(u)'] = [[u \in Buys |-> Life(u)] EXCEPT ![t] = to]
    BY <1>1
  <1>2. CASE Life(t) = "off" /\ Life(t)' = "starting"
    BY <1>1, <1>2 DEF Lives!Start, Lives!Become, Lives!Next
  <1>3. CASE Life(t) = "starting" /\ Life(t)' = "watching"
    BY <1>1, <1>3 DEF Lives!Watch, Lives!Become, Lives!Next
  <1>4. CASE Life(t) \in {"starting", "watching"} /\ Life(t)' = "ended"
    BY <1>1, <1>4 DEF Lives!End, Lives!Become, Lives!Next
  <1>5. CASE Life(t)' = Life(t)
    BY <1>5 DEF Lives!vars
  <1> QED
    BY <1>2, <1>3, <1>4, <1>5

\* A monitor connects, listens and ends; what it does to sell does not show, but
\* for the cancellation that follows a sale.
LEMMA LivesMonitor ==
    ASSUME TInv, Registered, Started, NEW t \in Buys, MonitorStep(t)
    PROVE  /\ [Lives!Next]_(Lives!vars)
           /\ \A u \in Buys : monitor'[u] = "none" <=> monitor[u] = "none"
  <1> USE DEF TInv, TypeOK, Spawned, Move, Life, SellingState, MonitorState
  <1> DEFINE Kin == \A u \in Buys : monitor'[u] = "none" <=> monitor[u] = "none"
  <1>1. CASE MonitorConnect(t)
    BY <1>1, LivesBecome DEF MonitorConnect
  <1>2. CASE \E m \in Mints : MonitorTrigger(t, m)
    BY <1>2, LivesBecome DEF MonitorTrigger
  <1>3. CASE MonitorStreamEnd(t) \/ MonitorCancelled(t)
    BY <1>3, LivesBecome DEF MonitorStreamEnd, MonitorCancelled
  <1>4. CASE ReadBalance(t)
    BY <1>4, LivesBecome DEF ReadBalance, Return
  <1>5. CASE WhaleSubmit(t)
    BY <1>5, LivesBecome DEF WhaleSubmit
  <1>6. CASE EmergencySubmit(t)
    BY <1>6, LivesBecome DEF EmergencySubmit, Return
  <1>7. CASE CancelMonitoring(t)
    <2>1. /\ subject[t] \in Mints /\ Deregister(subject[t])
          /\ \A u \in Buys : Life(u)' = Life(u)
          /\ Kin
      BY <1>7 DEF CancelMonitoring, Return
    <2> QED
      BY <2>1, LivesDeregister
  <1> QED
    BY <1>1, <1>2, <1>3, <1>4, <1>5, <1>6, <1>7 DEF MonitorStep

\* Steps of others change no life; a full clean-up cancels.
LEMMA LivesOthers ==
    ASSUME TInv, Registered, Started,
           \/ \E t \in Whales : WhaleStep(t)
           \/ SweepStep
           \/ \E m \in Mints : WalletNotice(m) \/ WalletNoticeLost(m)
           \/ ChainStep
    PROVE  [Lives!Next]_(Lives!vars) /\ UNCHANGED monitor
  <1>1. ASSUME NEW m \in Mints, SweepFull(m)
        PROVE  [Lives!Next]_(Lives!vars) /\ UNCHANGED monitor
    <2>1. Deregister(m) /\ UNCHANGED monitor
      BY <1>1 DEF SweepFull
    <2>2. \A t \in Buys : Life(t)' = Life(t)
      BY <2>1 DEF Life
    <2> QED
      BY <2>1, <2>2, LivesDeregister
  <1>2. CASE ~\E m \in Mints : SweepFull(m)
    <2>1. UNCHANGED lifeVars
      BY <1>2
      DEF lifeVars, monitorVars, WhaleStep, WhaleDetected, WhaleSend, WhaleVerify,
          SweepStep, SweepBegin, SweepKeep, SweepFound, SweepBasic, WalletNotice,
          WalletNoticeLost, ChainStep, BuyLands, BuyDropped, SellLands, SellDropped
    <2> QED
      BY <2>1, LivesStutter DEF lifeVars
  <1> QED
    BY <1>1, <1>2

\* A handler starts its monitor as it returns.
LEMMA LivesHandler ==
    ASSUME TInv, Started, NEW t \in Buys, HandlerStep(t)
    PROVE  [Lives!Next]_(Lives!vars) /\ Started'
  <1> USE DEF TInv, TypeOK, Started, Goto, Trades
  <1>1. CASE StartMonitor(t)
    <2>1. /\ pc[t] = "settle" /\ pc' = [pc EXCEPT ![t] = "done"]
          /\ monitor' = [monitor EXCEPT ![t] = "connecting"]
          /\ cancelled' = cancelled
      BY <1>1 DEF StartMonitor
    <2>2. monitor[t] = "none"
      BY <2>1
    <2>3. [Lives!Next]_(Lives!vars)
      BY <2>1, <2>2, LivesBecome DEF Life
    <2> QED
      BY <2>1, <2>3
  <1>2. CASE ~StartMonitor(t)
    <2>1. UNCHANGED lifeVars
      BY <1>2 DEF lifeVars, monitorVars, HandlerStep, Admit, CheckBlacklist, Build,
                  Send, Verify, Record, Seal, Tally, Track
    <2>2. pc[t] # "done" /\ pc'[t] # "done" /\ \A u \in Buys \ {t} : pc'[u] = pc[u]
      BY <1>2 DEF HandlerStep, Admit, CheckBlacklist, Build, Send, Verify, Record,
                  Seal, Tally, Track
    <2> QED
      BY <2>1, <2>2, LivesStutter DEF lifeVars
  <1> QED
    BY <1>1, <1>2

\* Every step of the core is one of the monitors' lives or leaves them alone.
LEMMA LivesNext ==
    TInv /\ Registered /\ Started /\ [Next]_vars
       => [Lives!Next]_(Lives!vars) /\ Started'
  <1> SUFFICES ASSUME TInv, Registered, Started, [Next]_vars
               PROVE  [Lives!Next]_(Lives!vars) /\ Started'
    OBVIOUS
  <1>1. CASE UNCHANGED vars
    BY <1>1, LivesStutter DEF vars, monitorVars, handlerVars, lifeVars, Started
  <1>2. ASSUME NEW t \in Trades, NEW m \in Mints, Spawn(t, m)
        PROVE  [Lives!Next]_(Lives!vars) /\ Started'
    <2>1. UNCHANGED lifeVars
      BY <1>2 DEF Spawn, monitorVars, lifeVars
    <2>2. \A u \in Buys : pc'[u] = "done" <=> pc[u] = "done"
      BY <1>2 DEF TInv, TypeOK, Spawn, Goto, Trades
    <2> QED
      BY <2>1, <2>2, LivesStutter DEF Started, lifeVars
  <1>3. ASSUME NEW t \in Buys, HandlerStep(t)
        PROVE  [Lives!Next]_(Lives!vars) /\ Started'
    BY <1>3, LivesHandler
  <1>4. CASE Restart
    <2>1. \A t \in Buys : Life(t)' = IF Life(t) = "off" THEN "off" ELSE "ended"
      BY <1>4 DEF Restart, Life
    <2>2. Lives!Die
      BY <1>4, <2>1 DEF Restart, Lives!Die
    <2>3. Started'
      BY <1>4 DEF TInv, TypeOK, Restart, Started, FinishedPC, Trades
    <2> QED
      BY <2>2, <2>3 DEF Lives!Next
  <1>5. CASE OthersStep
    <2>1. \A t \in Buys : pc'[t] = pc[t]
      BY <1>5, OthersFrame DEF Frame
    <2>2. CASE \E t \in Buys : MonitorStep(t)
      BY <2>1, <2>2, LivesMonitor DEF Started
    <2>3. CASE ~\E t \in Buys : MonitorStep(t)
      BY <1>5, <2>1, <2>3, LivesOthers DEF OthersStep, Started
    <2> QED
      BY <2>2, <2>3
  <1> QED
    BY <1>1, <1>2, <1>3, <1>4, <1>5 DEF Next, OthersStep

\* The trading core implements the life of monitors: each is started once, may be
\* cancelled from then on, and ends once.
THEOREM MonitorsLiveOnce == Spec => MonitorsLive
  <1>1. Init => Lives!Init
    BY DEF Init, Lives!Init, Life
  <1>2. Spec => []KInv
    BY KeptInit, KeptNext, SentInit, SentNext, TypeInvariant, PTL DEF Spec
  <1>3. KInv => Registered
    BY DEF KInv
  <1>4. Spec => []Started
    BY <1>2, <1>3, StartedInit, LivesNext, TypeInvariant, PTL DEF Spec
  <1> QED
    BY <1>1, <1>2, <1>3, <1>4, LivesNext, TypeInvariant, PTL
    DEF Spec, MonitorsLive, Lives!Spec
=============================================================================
