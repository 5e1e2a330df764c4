------------------------------ MODULE SwapQuote ------------------------------
(***************************************************************************)
(* From a trade seen on the stream to an order the chain can fill: what    *)
(* the parser reads from an event (src/src/engine/transaction_parser.rs),  *)
(* the price the selling engine makes of it, and the amount and limit the  *)
(* builders put in an instruction (src/src/dex/).  Everyone else goes on   *)
(* trading against the pool meanwhile.                                     *)
(*                                                                         *)
(* One token in one pool.  Pools and programs are external: a constant     *)
(* product without fees, which rounds against the trader.  On Raydium's    *)
(* launchpad the reserves are what the parser makes of the virtual and the *)
(* real ones, virtual_quote + real_quote and virtual_base - real_base.     *)
(***************************************************************************)
EXTENDS Integers

CONSTANTS
    Scale,       \* 1_000_000_000: what parsed prices are multiplied by
    MaxU64,      \* u64::MAX
    AmountIn,    \* swap_config.amount_in, in lamports
    Bps,         \* 10_000: one, in basis points
    Slippage,    \* swap_config.slippage, at most Bps (Config::new)
    SolReserve, TokReserve,  \* the pool when it is first seen
    Stakes,      \* what others trade at a time
    MaxReserve   \* bound on the reserves

ASSUME QuoteAssumption ==
    /\ Scale \in Nat \ {0} /\ MaxU64 \in Nat
    /\ AmountIn \in Nat /\ Bps \in Nat \ {0} /\ Slippage \in 0..Bps
    /\ SolReserve \in Nat \ {0} /\ TokReserve \in Nat \ {0}
    /\ Stakes \subseteq Nat /\ MaxReserve \in Nat

VARIABLES
    dex,      \* where the token is traded
    reverse,  \* the pool's base is SOL and its quote the token (PumpSwap)
    sol, tok, \* the reserves of the pool
    seen,     \* the TradeInfoFromToken the bot works from
    cached,   \* the token account is in WALLET_TOKEN_ACCOUNTS
    exists,   \* the token account is on the chain (nothing here closes one)
    order,    \* the transaction under way
    held      \* tokens the bot's wallet holds

poolVars == <<dex, reverse, sol, tok>>
vars == <<poolVars, seen, cached, exists, order, held>>

Dexes == {"PumpFun", "PumpSwap", "Raydium"}

\* sol and tok are the reserves the event reports, under their right names;
\* vsol and vtok are what goes into virtual_sol_reserves and
\* virtual_token_reserves (on Raydium, offsets that nothing here reads).
Info == [sol : Nat, tok : Nat, price : 0..MaxU64, vsol : Nat, vtok : Nat,
         creator : BOOLEAN]
NoInfo == [sol |-> 0, tok |-> 0, price |-> 0, vsol |-> 0, vtok |-> 0,
           creator |-> FALSE]

\* "exactBuy" names the tokens to get and the most to pay; "buy" the lamports to
\* spend and the least to get; "sell" the tokens to give and the least to get.
\* create: the token account is created first.  sol and tok are the reserves it
\* was built from.
Order == [kind : {"exactBuy", "buy", "sell"}, amount : Nat, limit : Nat,
          create : BOOLEAN, sol : Nat, tok : Nat]
NoOrder == [kind |-> "none", amount |-> 0, limit |-> 0, create |-> FALSE,
            sol |-> 0, tok |-> 0]

TypeOK ==
    /\ dex \in Dexes /\ reverse \in BOOLEAN
    /\ sol \in Nat \ {0} /\ tok \in Nat \ {0}
    /\ seen \in Info
    /\ cached \in BOOLEAN /\ exists \in BOOLEAN
    /\ order \in Order \cup {NoOrder}
    /\ held \in Nat

Init ==
    /\ dex \in Dexes
    /\ reverse \in BOOLEAN /\ (reverse => dex = "PumpSwap")
    /\ sol = SolReserve /\ tok = TokReserve
    /\ seen = NoInfo
    /\ cached = FALSE /\ exists = FALSE
    /\ order = NoOrder
    /\ held = 0

-----------------------------------------------------------------------------
(* Arithmetic.                                                              *)

Lesser(a, b) == IF a < b THEN a ELSE b

\* calculate_buy_token_amount and, with the reserves exchanged,
\* calculate_sell_sol_amount: what in buys from a pool.  u128 is wide enough.
Quote(in, into, from) ==
    IF in = 0 \/ into = 0 \/ from = 0 THEN 0 ELSE (in * from) \div (into + in)

\* (mutants of Scaled: the product wraps around; it is as wide as it needs)
ScaledWrapping(s) == (s * Scale) % (MaxU64 + 1)
ScaledWide(s) == s * Scale

\* saturating_mul(1_000_000_000)
Scaled(s) == Lesser(s * Scale, MaxU64)

\* max_amount_with_slippage
MostToPay(amount, bps) == (amount * (Bps + bps)) \div Bps

-----------------------------------------------------------------------------
(* What the parser makes of an event.                                       *)

\* PumpSwap.  Which side is SOL decides how the price is computed; the reserves
\* are passed on as quote and base whichever that is.
PumpSwapEvent(creator) ==
    [sol |-> sol, tok |-> tok, price |-> Scaled(sol) \div tok,
     vsol |-> IF reverse THEN tok ELSE sol,
     vtok |-> IF reverse THEN sol ELSE tok,
     creator |-> creator]

\* The two layouts of that event; the shorter one has no creator.
Event368 == PumpSwapEvent(TRUE)
Event270 == PumpSwapEvent(FALSE)

PumpFunEvent ==
    [sol |-> sol, tok |-> tok, price |-> Scaled(sol) \div tok,
     vsol |-> sol, vtok |-> tok, creator |-> TRUE]

\* Computed in floating point, and saturated by the conversion to u64 only.
RaydiumEvent ==
    [sol |-> sol, tok |-> tok, price |-> Lesser((sol * Scale) \div tok, MaxU64),
     vsol |-> 0, vtok |-> 0, creator |-> FALSE]

\* A trade of the token goes by and is parsed.
Observe ==
    /\ \/ dex = "PumpSwap" /\ seen' = Event368
       \/ dex = "PumpSwap" /\ seen' = Event270
       \/ dex = "PumpFun" /\ seen' = PumpFunEvent
       \/ dex = "Raydium" /\ seen' = RaydiumEvent
    /\ UNCHANGED <<poolVars, cached, exists, order, held>>

\* The price update_metrics records: for PumpFun it is computed anew from the
\* reserves, in floating point; otherwise it is the parsed one.
MetricsPrice(info) ==
    IF dex = "PumpFun" THEN (info.vsol * Scale) \div info.vtok ELSE info.price

-----------------------------------------------------------------------------
(* The builders.                                                            *)

Place(kind, amount, limit, create) ==
    order' = [kind |-> kind, amount |-> amount, limit |-> limit,
              create |-> create, sol |-> seen.sol, tok |-> seen.tok]

Ready == order = NoOrder /\ seen # NoInfo

\* (mutant of PumpFunBuy: the account is created whatever the cache says)
PumpFunBuyCreating ==
    LET out == Quote(AmountIn, seen.vsol, seen.vtok) IN
    /\ Ready /\ dex = "PumpFun"
    /\ Place("exactBuy", out, MostToPay(AmountIn, 2 * Bps), TRUE)
    /\ cached' = TRUE
    /\ UNCHANGED <<poolVars, seen, exists, held>>

\* The slippage is 200% whatever the configuration.  No tokens to get leaves the
\* creation of the account, if that has to be created, and is an error if not.
PumpFunBuy ==
    LET out == Quote(AmountIn, seen.vsol, seen.vtok) IN
    /\ Ready /\ dex = "PumpFun"
    /\ out > 0 \/ ~cached
    /\ Place("exactBuy", out, MostToPay(AmountIn, 2 * Bps), ~cached)
    /\ cached' = TRUE
    /\ UNCHANGED <<poolVars, seen, exists, held>>

\* The account is cached before the amount is found to be none.
PumpSwapBuy ==
    LET out == Quote(AmountIn, seen.vsol, seen.vtok) IN
    /\ Ready /\ dex = "PumpSwap"
    /\ seen.creator
    /\ IF out > 0 THEN Place("exactBuy", out, MostToPay(AmountIn, Slippage), ~cached)
                  ELSE UNCHANGED order
    /\ cached' = TRUE
    /\ UNCHANGED <<poolVars, seen, exists, held>>

\* A sale of everything may be emergency_sell_all's, which drops the account from
\* the cache once the relay has the transaction.
Sold(amount) ==
    \/ UNCHANGED cached
    \/ amount = held /\ amount > 0 /\ cached' = FALSE

\* (mutant of PumpFunSell: the reserves are exchanged)
PumpFunSellSwapped(amount) ==
    LET expected == Quote(amount, seen.vsol, seen.vtok) IN
    /\ Ready /\ dex = "PumpFun" /\ cached
    /\ amount > 0
    /\ Place("sell", amount, (expected * (Bps - Slippage)) \div Bps, FALSE)
    /\ Sold(amount)
    /\ UNCHANGED <<poolVars, seen, exists, held>>

PumpFunSell(amount) ==
    LET expected == Quote(amount, seen.vtok, seen.vsol) IN
    /\ Ready /\ dex = "PumpFun" /\ cached
    /\ amount > 0
    /\ Place("sell", amount, (expected * (Bps - Slippage)) \div Bps, FALSE)
    /\ Sold(amount)
    /\ UNCHANGED <<poolVars, seen, exists, held>>

\* "this ensures must sell": any price will do.
PumpSwapSell(amount) ==
    /\ Ready /\ dex = "PumpSwap" /\ cached
    /\ seen.creator /\ amount > 0
    /\ Place("sell", amount, 0, FALSE)
    /\ Sold(amount)
    /\ UNCHANGED <<poolVars, seen, exists, held>>

\* Raydium spends an exact amount either way, for one unit at least, and asks
\* the cache only whether to add the creation of the account.
RaydiumSwap(kind, amount) ==
    /\ Ready /\ dex = "Raydium"
    /\ Place(kind, amount, 1, ~cached)
    /\ IF kind = "sell" THEN Sold(amount) ELSE UNCHANGED cached
    /\ UNCHANGED <<poolVars, seen, exists, held>>

-----------------------------------------------------------------------------
(* The chain.                                                               *)

\* What amount tokens cost, rounded up.
Cost(amount) == (sol * amount + tok - amount - 1) \div (tok - amount)

\* The reserves a program would leave.
Leaves(s, t) == s <= MaxReserve /\ t <= MaxReserve /\ sol' = s /\ tok' = t

\* A swap needs the token account; PumpFun's way of creating it fails when it is
\* there already, the others' does not.
AccountReady(o) == IF dex = "PumpFun" THEN o.create = ~exists
                                      ELSE o.create \/ exists

\* The bot's instructions name the token as the base of the pool and SOL as its
\* quote, which a reverse pool's program refuses.
Fits(o) ==
    /\ ~reverse
    /\ AccountReady(o)
    /\ CASE o.kind = "exactBuy" -> o.amount < tok /\ Cost(o.amount) <= o.limit
         [] o.kind = "buy" -> Quote(o.amount, sol, tok) >= o.limit
         [] o.kind = "sell" -> Quote(o.amount, tok, sol) >= o.limit
         [] OTHER -> FALSE

\* What a confirmed buy does: execute_buy caches the account.  It may not have
\* waited for it.
Bought == cached' \in {cached, TRUE}

Land ==
    /\ Fits(order)
    /\ CASE order.kind = "exactBuy" ->
              /\ Leaves(sol + Cost(order.amount), tok - order.amount)
              /\ held' = held + order.amount
              /\ Bought
         [] order.kind = "buy" ->
              /\ Leaves(sol + order.amount, tok - Quote(order.amount, sol, tok))
              /\ held' = held + Quote(order.amount, sol, tok)
              /\ Bought
         [] order.kind = "sell" ->
              /\ order.amount <= held
              /\ Leaves(sol - Quote(order.amount, tok, sol), tok + order.amount)
              /\ held' = held - order.amount
              /\ UNCHANGED cached
    /\ order' = NoOrder
    /\ exists' = TRUE
    /\ UNCHANGED <<dex, reverse, seen>>

\* It was overtaken, refused or lost.  Nothing done for it is undone.
Fail ==
    /\ order # NoOrder
    /\ order' = NoOrder
    /\ UNCHANGED <<poolVars, seen, cached, exists, held>>

\* verify_sell_transaction_and_cleanup finds the account empty, of a token that
\* was bought.
CleanUp ==
    /\ exists /\ held = 0
    /\ cached' = FALSE
    /\ UNCHANGED <<poolVars, seen, exists, order, held>>

OthersBuy(stake) ==
    /\ Leaves(sol + stake, tok - Quote(stake, sol, tok))
    /\ UNCHANGED <<dex, reverse, seen, cached, exists, order, held>>

OthersSell(stake) ==
    /\ Leaves(sol - Quote(stake, tok, sol), tok + stake)
    /\ UNCHANGED <<dex, reverse, seen, cached, exists, order, held>>

Sell(amount) ==
    PumpFunSell(amount) \/ PumpSwapSell(amount) \/ RaydiumSwap("sell", amount)

Next ==
    \/ Observe
    \/ PumpFunBuy \/ PumpSwapBuy \/ RaydiumSwap("buy", AmountIn)
    \/ \E amount \in 0..held : Sell(amount)
    \/ Land \/ Fail \/ CleanUp
    \/ \E stake \in Stakes : OthersBuy(stake) \/ OthersSell(stake)

Spec == Init /\ [][Next]_vars

-----------------------------------------------------------------------------
\* An order built for a pump pool can be filled as long as nobody has traded
\* since the event it was built from and the account is as it assumes: what is
\* asked for costs no more than the limit, in spite of two roundings.  (The
\* reserves go from the event through the parser, the quote and the limit.)
QuoteFillable ==
    order # NoOrder /\ dex # "Raydium" /\ ~reverse
        /\ order.sol = sol /\ order.tok = tok /\ AccountReady(order) => Fits(order)

\* The cache vouches for an account that is not there and no transaction on its
\* way creates.
Stranded == cached /\ ~exists /\ ~order.create

\* "Check if accounts exist and create if needed": once a buy has failed after it
\* cached the account it was to create, the account is never created any more.
\* Every later buy relies on it and fails for want of it.
StrandedForGood == [][Stranded => Stranded']_vars

\* The price sells are decided on never moves against the pool: more SOL for no
\* more tokens is not reported as a fall, nor less SOL for no fewer tokens as a
\* rise, whatever the sizes (saturation included).
PriceFollows ==
    [][seen # NoInfo =>
          /\ seen'.sol >= seen.sol /\ seen'.tok <= seen.tok
                => MetricsPrice(seen') >= MetricsPrice(seen)
          /\ seen'.sol <= seen.sol /\ seen'.tok >= seen.tok
                => MetricsPrice(seen') <= MetricsPrice(seen)]_vars

\* "PumpSwap: use the price from trade_info (already calculated correctly)"
PriceRight == seen # NoInfo => MetricsPrice(seen) = (seen.sol * Scale) \div seen.tok
=============================================================================
