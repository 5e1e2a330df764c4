------------------------------- MODULE Position -------------------------------
(***************************************************************************)
(* What the bot keeps of one bought token: its BoughtTokenInfo in          *)
(* BOUGHT_TOKEN_LIST (src/src/engine/copy_trading.rs).  A confirmed buy    *)
(* inserts it twice, in the branch of its protocol and in the tail of      *)
(* execute_buy; monitors bring it up to date with every trade of the       *)
(* token, those of another buy of the same token included; clean-up        *)
(* removes it.                                                             *)
(*                                                                         *)
(* The highest PnL is kept as the price it was reached at.  Percentages    *)
(* are compared across products, in place of the code's floating point.    *)
(***************************************************************************)
EXTENDS Naturals

CONSTANTS
    Buys,         \* buys of the token that are under way
    Prices,       \* prices a trade may have; 0 is one that rounded to nothing
    QuickWindow,  \* 1500 ms, in ticks
    MaxTime       \* bound on the clock

ASSUME PositionAssumption ==
    /\ Prices \subseteq Nat
    /\ QuickWindow \in Nat /\ MaxTime \in Nat

VARIABLES
    info,   \* the token's record, or NoInfo
    stage,  \* how far a buy is
    price,  \* trade_info.price of the target's trade that a buy copies
    now,
    seen,   \* (history) the record's prices since it was inserted
    dips,   \* (history) those since the highest of them was first seen
    rose,   \* (history) one of them was 20% up, quickly
    kept    \* (history) a buy has recorded the token and nobody removed it

history == <<seen, dips, rose, kept>>
vars == <<info, stage, price, now, history>>

Stops == {1, 5, 10, 30, 100}

Info == [entry : Nat, current : Nat, highest : Nat, lowest : Nat, peak : Nat,
         stop : Stops, born : Nat, quick : BOOLEAN]
NoInfo == [entry |-> 0]

TypeOK ==
    /\ info \in Info \cup {NoInfo}
    /\ stage \in [Buys -> {"verify", "tail", "done"}]
    /\ price \in [Buys -> Nat]
    /\ now \in 0..MaxTime
    /\ seen \subseteq Nat /\ dips \subseteq Nat
    /\ rose \in BOOLEAN /\ kept \in BOOLEAN

Init ==
    /\ info = NoInfo
    /\ stage = [b \in Buys |-> "verify"]
    /\ price \in [Buys -> Prices]
    /\ now = 0
    /\ seen = {} /\ dips = {} /\ rose = FALSE /\ kept = FALSE

-----------------------------------------------------------------------------
(* The record.                                                              *)

\* p is at least, or at most, percent above entry; without an entry price the
\* PnL is taken to be 0.
AtLeastUp(percent, entry, p) ==
    IF entry = 0 THEN percent = 0 ELSE 100 * p >= (100 + percent) * entry
AtMostUp(percent, entry, p) ==
    entry = 0 \/ 100 * p <= (100 + percent) * entry

\* (mutant of Stop: a coarser table, with a stop of its own)
StopHalf(entry, peak) == IF AtMostUp(100, entry, peak) THEN 1 ELSE 50

\* calculate_dynamic_trailing_stop: the percentage goes with the highest PnL.
Stop(entry, peak) ==
    CASE AtMostUp(5, entry, peak) -> 1
      [] ~AtMostUp(5, entry, peak) /\ AtMostUp(20, entry, peak) -> 5
      [] ~AtMostUp(20, entry, peak) /\ AtMostUp(50, entry, peak) -> 10
      [] ~AtMostUp(50, entry, peak) /\ AtMostUp(100, entry, peak) -> 30
      [] OTHER -> 100

\* BoughtTokenInfo::new
New(entry) ==
    [entry |-> entry, current |-> entry, highest |-> entry, lowest |-> entry,
     peak |-> entry, stop |-> 1, born |-> now, quick |-> FALSE]

\* The highest PnL is only raised by a PnL that is above it, which none is
\* without an entry price.
Peak(i, p) == IF i.entry > 0 /\ p > i.peak THEN p ELSE i.peak

\* (mutant of Lowest: it is kept across a new high)
LowestKept(i, p) == IF p < i.lowest THEN p ELSE i.lowest

\* lowest_price_after_highest
Lowest(i, p) == IF p > i.highest \/ p < i.lowest THEN p ELSE i.lowest

\* (mutant of Quick: the last tick of the window is not in it)
QuickStrict(i, p) ==
    i.quick \/ (AtLeastUp(20, i.entry, p) /\ now - i.born < QuickWindow)

\* first_20_percent_reached_time is set
Quick(i, p) ==
    i.quick \/ (AtLeastUp(20, i.entry, p) /\ now - i.born <= QuickWindow)

\* (mutant of Updated: the stop is that of the PnL before this price)
UpdatedStopFirst(i, p) ==
    [i EXCEPT !.current = p,
              !.highest = IF p > @ THEN p ELSE @,
              !.lowest = Lowest(i, p),
              !.peak = Peak(i, p),
              !.stop = Stop(i.entry, i.peak),
              !.quick = Quick(i, p)]

\* update_price
Updated(i, p) ==
    [i EXCEPT !.current = p,
              !.highest = IF p > @ THEN p ELSE @,
              !.lowest = Lowest(i, p),
              !.peak = Peak(i, p),
              !.stop = Stop(i.entry, Peak(i, p)),
              !.quick = Quick(i, p)]
-----------------------------------------------------------------------------
(* The tasks.                                                               *)

\* The record is new, whatever there was before.
Insert(entry) ==
    /\ info' = New(entry)
    /\ seen' = {entry} /\ dips' = {entry} /\ rose' = FALSE

\* (mutant of BranchInsert: it asks for a price, too)
BranchInsertPriced(b) ==
    /\ stage[b] = "verify"
    /\ stage' = [stage EXCEPT ![b] = "tail"]
    /\ IF price[b] > 0 THEN Insert(price[b]) ELSE UNCHANGED <<info, seen, dips, rose>>
    /\ kept' = TRUE
    /\ UNCHANGED <<price, now>>

\* The buy is confirmed.  The branch of its protocol does not ask for a price.
BranchInsert(b) ==
    /\ stage[b] = "verify"
    /\ stage' = [stage EXCEPT ![b] = "tail"]
    /\ Insert(price[b])
    /\ kept' = TRUE
    /\ UNCHANGED <<price, now>>

\* It is not.
BuyFails(b) ==
    /\ stage[b] = "verify"
    /\ stage' = [stage EXCEPT ![b] = "done"]
    /\ UNCHANGED <<info, price, now, history>>

\* "Only add to tracking if entry_price is valid"
TailInsert(b) ==
    /\ stage[b] = "tail"
    /\ stage' = [stage EXCEPT ![b] = "done"]
    /\ \/ price[b] > 0 /\ Insert(price[b]) /\ kept' = TRUE
       \/ price[b] = 0 /\ UNCHANGED <<info, history>>
    /\ UNCHANGED <<price, now>>

\* update_token_price_from_trade_info, for a trade a monitor was told of.
Trade(p) ==
    /\ info # NoInfo
    /\ info' = Updated(info, p)
    /\ seen' = seen \cup {p}
    /\ dips' = IF \A q \in seen : q < p THEN {p} ELSE dips \cup {p}
    /\ rose' = (rose \/ (AtLeastUp(20, info.entry, p) /\ now <= info.born + QuickWindow))
    /\ UNCHANGED <<stage, price, now, kept>>

\* Clean-up or the wallet stream.
Remove ==
    /\ info # NoInfo
    /\ info' = NoInfo
    /\ kept' = FALSE
    /\ seen' = {} /\ dips' = {} /\ rose' = FALSE
    /\ UNCHANGED <<stage, price, now>>

Tick ==
    /\ now < MaxTime
    /\ now' = now + 1
    /\ UNCHANGED <<info, stage, price, history>>

Next ==
    \/ \E b \in Buys : BranchInsert(b) \/ BuyFails(b) \/ TailInsert(b)
    \/ \E p \in Prices : Trade(p)
    \/ Remove
    \/ Tick

Spec == Init /\ [][Next]_vars

-----------------------------------------------------------------------------
\* The extremes are those of the prices since the last insertion: the highest of
\* them, and the lowest of those that came after it (or with it).
ExtremaExact ==
    info # NoInfo =>
       /\ info.highest \in seen /\ \A p \in seen : p <= info.highest
       /\ info.lowest \in dips /\ \A p \in dips : info.lowest <= p

\* The trailing stop belongs to the best price since the insertion, that of the
\* trade being handled included: it is as wide as the best PnL asks for, and
\* never narrows.
StopOfBest ==
    info # NoInfo => \E p \in seen : /\ \A q \in seen : q <= p
                                     /\ info.stop = Stop(info.entry, p)

\* A rise of 20% within 1.5 seconds of the insertion is remembered, and nothing
\* else is taken for one: not a rise before the tail inserted the record again,
\* nor any move of a token without an entry price.
QuickExact == info # NoInfo => (info.quick <=> rose)

\* A confirmed buy is tracked until somebody removes it, also at a price that
\* rounded to zero: "Refusing to track token" comes after the branch has done it.
BoughtIsTracked == kept => info # NoInfo
=============================================================================
