----------------------------- MODULE SellingEngine -----------------------------
(***************************************************************************)
(* When a token is sold (src/src/engine/selling_strategy.rs): the metrics  *)
(* of one token in TOKEN_METRICS, and the monitor tasks that update them   *)
(* from the trades they see and then decide.  Several tasks may serve one  *)
(* token: a displaced monitor goes on, and a trade of this token may reach *)
(* the monitor of another.  How the sale itself goes is CopyTrading's      *)
(* business; here it is only something that takes time.                    *)
(*                                                                         *)
(* Percentages are compared without dividing.  TOKEN_METRICS is a DashMap, *)
(* whose locks block the thread and not just the task: a task that waits   *)
(* for one keeps one of the runtime's worker threads.                      *)
(***************************************************************************)
EXTENDS Integers, FiniteSets

CONSTANTS
    Workers,          \* monitor tasks that see trades of this token
    Threads,          \* worker threads of the tokio runtime
    Prices,           \* prices trades happen at
    Liquidities,      \* liquidity readings; 0 is a failed one
    WhaleThresholds,  \* whale_selling_thresholds, in percent
    RetracementPnl,   \* retracement_pnl_threshold, in percent
    RetracementPct,   \* retracement_percentage
    TakeProfit,       \* take_profit, in percent
    StopLoss,         \* stop_loss, in percent (negative)
    MinLiquidity,     \* min_absolute_liquidity
    MaxDrop           \* 100 * max_acceptable_drop

ASSUME SellingAssumption ==
    /\ IsFiniteSet(Workers) /\ Threads \in Nat \ {0}
    /\ Prices \subseteq Nat \ {0} /\ Liquidities \subseteq Nat
    /\ WhaleThresholds \subseteq Int
    /\ {RetracementPnl, RetracementPct, TakeProfit, StopLoss,
        MinLiquidity, MaxDrop} \subseteq Int

VARIABLES
    pc,       \* where each task stands
    metrics   \* TOKEN_METRICS of the token; no entry when nothing was traded

vars == <<pc, metrics>>

\* A trade, with the liquidity and the wallet's balance read for it: sells, buys,
\* and buys whose token amount rounds to zero; price 0 is one the parser could
\* not compute.  Whatever a task learnt before it got hold of the entry, it may
\* be any of these, so the trade is chosen where it takes effect.
Kinds == {"sell", "buy", "buyNothing"}
Trade == [price : Prices \cup {0}, kind : Kinds, liquidity : Liquidities,
          held : BOOLEAN]

Metrics == [entry : Nat, highest : Nat, lowest : Nat, current : Nat,
            held : BOOLEAN, liqEntry : Nat, liqNow : Nat, old : BOOLEAN]
NoMetrics == [entry |-> 0, highest |-> 0, lowest |-> 0, current |-> 0,
              held |-> FALSE, liqEntry |-> 0, liqNow |-> 0, old |-> FALSE]
Known == metrics.current > 0

\* A task in one of these has a reference into TOKEN_METRICS.
Holding == {"whaleSell", "fallback"}
Selling == {"emergency", "normal"} \cup Holding
PC == {"idle", "update", "blocked", "evaluate", "whale"} \cup Selling

TypeOK ==
    /\ pc \in [Workers -> PC]
    /\ metrics \in Metrics

\* A token found in the wallet when the process starts; what it was bought at is
\* not known, and the price of the day stands in for it.
Existing(p) == [entry |-> p, highest |-> p, lowest |-> p, current |-> p,
                held |-> TRUE, liqEntry |-> 0, liqNow |-> 0, old |-> FALSE]

Init ==
    /\ pc = [w \in Workers |-> "idle"]
    /\ metrics \in {NoMetrics} \cup {Existing(p) : p \in Prices}

Goto(w, from, to) == pc[w] = from /\ pc' = [pc EXCEPT ![w] = to]

Referenced == \E w \in Workers : pc[w] \in Holding
Blocked == {w \in Workers : pc[w] = "blocked"}
ThreadFree == Cardinality(Blocked) < Threads

-----------------------------------------------------------------------------
(* update_metrics.                                                          *)

\* A trade arrives.
Receive(w) ==
    /\ ThreadFree
    /\ Goto(w, "idle", "update")
    /\ UNCHANGED metrics

\* The entry is referenced by another task: the thread waits.
Block(w) ==
    /\ ThreadFree /\ Referenced
    /\ Goto(w, "update", "blocked")
    /\ UNCHANGED metrics

Lesser(a, b) == IF a < b THEN a ELSE b
Greater(a, b) == IF a < b THEN b ELSE a

\* (mutant of Average: the new purchase is subtracted)
Difference(a, b) == {a - b}

\* The average of two prices, weighted by amounts: whatever lies between.
Average(a, b) == Lesser(a, b)..Greater(a, b)

\* (mutant of EntryAfter: the running sum is not divided)
EntrySum(t) == {metrics.entry + t.price}

\* The entry price after a trade.  Any buy counts as an addition to the
\* position, and a position the wallet does not hold is opened by it.
EntryAfter(t) ==
    IF t.kind = "buy"
    THEN IF metrics.held /\ metrics.entry > 0
         THEN Average(metrics.entry, t.price) ELSE {t.price}
    ELSE IF t.kind = "sell" /\ metrics.entry = 0
         THEN {t.price} ELSE {metrics.entry}

\* The entry is made or changed; a trade without a price is refused.
Record(t) ==
    IF t.price = 0
    THEN UNCHANGED metrics
    ELSE \E e \in EntryAfter(t) :
            metrics' =
                [entry    |-> e,
                 highest  |-> Greater(metrics.highest, t.price),
                 lowest   |-> IF metrics.lowest = 0 THEN t.price
                              ELSE Lesser(metrics.lowest, t.price),
                 current  |-> t.price,
                 held     |-> t.held,
                 liqEntry |-> IF t.kind = "buy" \/ ~Known THEN t.liquidity
                              ELSE metrics.liqEntry,
                 liqNow   |-> t.liquidity,
                 old      |-> metrics.old]

\* (mutant of Update: the sale works on a copy and keeps no lock)
UpdateUnlocked(w) ==
    /\ Goto(w, "update", "evaluate")
    /\ \E t \in Trade : Record(t)

\* Unless somebody holds a reference.
Update(w) ==
    /\ pc[w] = "update" => ThreadFree
    /\ ~Referenced
    /\ Goto(w, "update", "evaluate") \/ Goto(w, "blocked", "evaluate")
    /\ \E t \in Trade : Record(t)

\* max_hold_time has passed since the entry was made (last_update is written
\* then and never again).
Age ==
    /\ Known /\ ~metrics.old
    /\ metrics' = [metrics EXCEPT !.old = TRUE]
    /\ UNCHANGED pc

\* Clean-up removes the entry.
Forget ==
    /\ Known /\ ~Referenced
    /\ metrics' = NoMetrics
    /\ UNCHANGED pc

-----------------------------------------------------------------------------
(* evaluate_sell_conditions.                                                *)

\* PNL >= p percent, PNL > p percent; without an entry price PNL is 0.
PnlAtLeast(p) == 100 * (metrics.current - metrics.entry) >= p * metrics.entry
PnlAbove(p) == 100 * (metrics.current - metrics.entry) > p * metrics.entry
PnlReaches(p) == IF metrics.entry > 0 THEN PnlAtLeast(p) ELSE 0 >= p
PnlExceeds(p) == IF metrics.entry > 0 THEN PnlAbove(p) ELSE 0 > p

WhaleLevel == \E p \in WhaleThresholds : PnlReaches(p)
StopHit == ~PnlExceeds(StopLoss)
Retraced ==
    /\ PnlExceeds(RetracementPnl) /\ PnlExceeds(0)
    /\ 100 * (metrics.highest - metrics.current) >= RetracementPct * metrics.highest
Illiquid ==
    /\ metrics.liqNow > 0 /\ metrics.liqEntry > 0
    /\ \/ metrics.liqNow < MinLiquidity
       \/ 100 * (metrics.liqEntry - metrics.liqNow) >= MaxDrop * metrics.liqEntry

\* (mutant of Decision: retracement and take profit come before the whales)
NormalFirst ==
    IF Retraced \/ PnlReaches(TakeProfit) THEN "normal"
    ELSE IF WhaleLevel THEN "whale" ELSE "idle"

\* (mutant of Decision: a position is kept whatever its age)
Ageless ==
    IF ~Known THEN "idle"
    ELSE IF WhaleLevel THEN "whale"
    ELSE IF StopHit \/ Illiquid THEN "emergency"
    ELSE "idle"

\* The first condition that holds decides; "idle" keeps the position.
Decision ==
    IF ~Known THEN "idle"
    ELSE IF WhaleLevel THEN "whale"
    ELSE IF metrics.old \/ StopHit THEN "emergency"
    ELSE IF Retraced \/ PnlReaches(TakeProfit) THEN "normal"
    ELSE IF Illiquid THEN "emergency"
    ELSE "idle"

Evaluate(w) ==
    /\ ThreadFree
    /\ Goto(w, "evaluate", Decision)
    /\ UNCHANGED metrics

-----------------------------------------------------------------------------
(* The sale: handle_parsed_data_for_selling.                                *)

\* The metrics are looked up again, and the reference is kept through the sale
\* and the fallback.  They may have changed, or gone, since the decision.
WhaleStart(w) ==
    /\ ThreadFree
    /\ Goto(w, "whale", IF ~Known THEN "emergency"
                        ELSE IF WhaleLevel THEN "whaleSell" ELSE "fallback")
    /\ UNCHANGED metrics

\* whale_emergency_sell failed.
WhaleFails(w) ==
    /\ ThreadFree
    /\ Goto(w, "whaleSell", "fallback")
    /\ UNCHANGED metrics


\* The sale is over, one way or the other.
SaleEnds(w) ==
    /\ ThreadFree
    /\ \E from \in Selling : Goto(w, from, "idle")
    /\ UNCHANGED metrics

\* What brings a trade's handling nearer its end.
Advance(w) == Update(w) \/ Evaluate(w) \/ WhaleStart(w) \/ SaleEnds(w)

Step(w) == Advance(w) \/ Block(w) \/ WhaleFails(w)

Next ==
    \/ \E w \in Workers : Receive(w) \/ Step(w)
    \/ Age
    \/ Forget

Spec == Init /\ [][Next]_vars

\* Threads that are free are used; a lock that comes free again and again is
\* obtained; and a sale's calls return, those for a blockhash, to the relay and
\* to the RPC node.  (BlockhashCache!EmbraceFinal and a relay client without a
\* timeout say when they do not.)
FairSpec ==
    /\ Spec
    /\ \A w \in Workers : SF_vars(Advance(w))

-----------------------------------------------------------------------------
\* Entry and current price lie between the extremes seen, whoever traded and in
\* whatever order the tasks got hold of the entry: a PNL is never computed from
\* a price the token did not have.
PricesInRange ==
    Known => /\ metrics.lowest <= metrics.current /\ metrics.current <= metrics.highest
             /\ metrics.entry = 0 \/ metrics.lowest <= metrics.entry
             /\ metrics.entry <= metrics.highest

\* A whale sale under way is one at a profit that some level asks for, though
\* it was decided earlier and other tasks go on updating the metrics.
WhaleSellInProfit ==
    (\E w \in Workers : pc[w] = "whaleSell") => Known /\ WhaleLevel

\* The retracement and take-profit rules never decide: where either would, the
\* lowest whale level has already been reached.
NoNormalSell == \A w \in Workers : pc[w] # "normal"


\* Max hold time: while trades of the token go on, a position that has come of
\* age is put up for sale or its entry removed, even if every trade seen since
\* then is one update_metrics refuses.
OldPositionSold ==
    []<>(\E w \in Workers : pc[w] = "evaluate") =>
        (metrics.old ~> \/ ~Known
                        \/ \E w \in Workers : pc[w] \in Selling)
=============================================================================
