--------------------------- MODULE SwapQuoteProofs ---------------------------
(***************************************************************************)
(* Theorems about SwapQuote, for any reserves, scale and word size.        *)
(***************************************************************************)
EXTENDS SwapQuote, TLAPS

-----------------------------------------------------------------------------
(* Division, and what the builders make of it.                              *)

\* Products grow with their factors.
LEMMA ProductMonotone ==
    ASSUME NEW a \in Nat, NEW b \in Nat, NEW c \in Nat, NEW d \in Nat,
           a <= b, c <= d
    PROVE  a * c <= b * d
  <1>1. a * c <= b * c
    OBVIOUS
  <1>2. b * c <= b * d
    OBVIOUS
  <1>3. a * c \in Nat /\ b * c \in Nat /\ b * d \in Nat
    OBVIOUS
  <1> QED
    BY <1>1, <1>2, <1>3

\* What a quotient is.
LEMMA Quotient ==
    ASSUME NEW a \in Nat, NEW b \in Nat \ {0}
    PROVE  /\ a \div b \in Nat
           /\ b * (a \div b) <= a
           /\ a < b * (a \div b) + b
  OBVIOUS

\* A quotient is below every number whose product with the divisor exceeds the
\* dividend.
LEMMA QuotientBelow ==
    ASSUME NEW a \in Nat, NEW b \in Nat \ {0}, NEW c \in Nat, a < b * c
    PROVE  a \div b < c
  <1> DEFINE q == a \div b
  <1>1. q \in Nat /\ b * q <= a
    BY Quotient
  <1>2. SUFFICES ASSUME c <= q
                 PROVE  FALSE
    BY <1>1
  <1>3. b * c <= b * q
    BY <1>1, <1>2, ProductMonotone
  <1>4. b * c \in Nat /\ b * q \in Nat
    BY <1>1
  <1> QED
    BY <1>1, <1>3, <1>4

\* A quotient is at least every number whose product with the divisor fits.
LEMMA QuotientAbove ==
    ASSUME NEW a \in Nat, NEW b \in Nat \ {0}, NEW c \in Nat, b * c <= a
    PROVE  c <= a \div b
  <1> DEFINE q == a \div b
  <1>1. q \in Nat /\ a < b * q + b
    BY Quotient
  <1>2. SUFFICES ASSUME q + 1 <= c
                 PROVE  FALSE
    BY <1>1
  <1>3. b * (q + 1) <= b * c
    BY <1>1, <1>2, ProductMonotone
  <1>4. b * (q + 1) = b * q + b
    BY <1>1
  <1>5. b * c \in Nat /\ b * q \in Nat
    BY <1>1
  <1> QED
    BY <1>1, <1>3, <1>4, <1>5

\* More divided by less is no less.
LEMMA QuotientMonotone ==
    ASSUME NEW a \in Nat, NEW b \in Nat, NEW c \in Nat \ {0}, NEW d \in Nat \ {0},
           a <= b, d <= c
    PROVE  a \div c <= b \div d
  <1> DEFINE q == a \div c
  <1>1. q \in Nat /\ c * q <= a
    BY Quotient
  <1>2. d * q <= c * q
    BY <1>1, ProductMonotone
  <1>3. d * q <= b
    <2>1. d * q \in Nat /\ c * q \in Nat
      BY <1>1
    <2> QED
      BY <1>1, <1>2, <2>1
  <1> QED
    BY <1>1, <1>3, QuotientAbove

\* A quote is less than the reserve it is paid from.
LEMMA QuoteBelow ==
    ASSUME NEW in \in Nat, NEW into \in Nat, NEW from \in Nat \ {0}
    PROVE  Quote(in, into, from) \in Nat /\ Quote(in, into, from) < from
  <1>1. CASE in = 0 \/ into = 0
    BY <1>1 DEF Quote
  <1>2. CASE in # 0 /\ into # 0
    <2>1. (in * from) \div (into + in) = Quote(in, into, from)
      BY <1>2 DEF Quote
    <2>2. in * from \in Nat /\ into + in \in Nat \ {0} /\ into * from \in Nat \ {0}
      BY <1>2
    <2>3. (into + in) * from = into * from + in * from
      OBVIOUS
    <2>4. in * from < (into + in) * from
      BY <2>2, <2>3
    <2> QED
      BY <2>1, <2>2, <2>4, Quotient, QuotientBelow
  <1> QED
    BY <1>1, <1>2

\* Buying exactly what was quoted for an amount, at the price the pool asks for
\* and rounded against the buyer, costs that amount at most.
LEMMA QuoteCost ==
    ASSUME NEW a \in Nat, NEW s \in Nat \ {0}, NEW t \in Nat \ {0},
           NEW out, out = Quote(a, s, t)
    PROVE  /\ out \in Nat /\ out < t
           /\ (s * out + t - out - 1) \div (t - out) <= a
  <1>1. out \in Nat /\ out < t
    BY QuoteBelow
  <1>2. s * out + a * out <= a * t
    <2>1. CASE a = 0
      <3>1. out = 0
        BY <2>1 DEF Quote
      <3> QED
        BY <2>1, <3>1
    <2>2. CASE a # 0
      <3>1. out = (a * t) \div (s + a)
        BY <2>2 DEF Quote
      <3>2. a * t \in Nat /\ s + a \in Nat \ {0}
        OBVIOUS
      <3>3. (s + a) * out <= a * t
        BY <3>1, <3>2, Quotient
      <3>4. (s + a) * out = s * out + a * out
        BY <1>1
      <3> QED
        BY <3>3, <3>4
    <2> QED
      BY <2>1, <2>2
  <1> DEFINE left == t - out
  <1>3. left \in Nat \ {0}
    BY <1>1
  <1>4. a * t = a * out + a * left
    BY <1>1
  <1>5. s * out \in Nat /\ a * out \in Nat /\ a * left \in Nat
    BY <1>1, <1>3
  <1>6. s * out <= a * left
    BY <1>2, <1>4, <1>5
  <1>7. left * (a + 1) = a * left + left
    BY <1>3
  <1>8. s * out + t - out - 1 = s * out + left - 1
    BY <1>1, <1>5
  <1>9. s * out + left - 1 \in Nat /\ s * out + left - 1 < left * (a + 1)
    BY <1>3, <1>5, <1>6, <1>7
  <1>10. (s * out + left - 1) \div left < a + 1
    <2>1. a + 1 \in Nat
      OBVIOUS
    <2>2. ASSUME NEW x \in Nat, x < left * (a + 1)
          PROVE  x \div left < a + 1
      BY <1>3, <2>1, <2>2, QuotientBelow
    <2> QED
      BY <1>9, <2>2
  <1>11. (s * out + left - 1) \div left \in Nat
    BY <1>3, <1>9, Quotient
  <1> QED
    BY <1>1, <1>8, <1>10, <1>11

-----------------------------------------------------------------------------
(* Types.                                                                   *)

\* Saturated or not, a product has its type.
LEMMA ScaledType ==
    ASSUME NEW s \in Nat
    PROVE  Scaled(s) \in Nat /\ Scaled(s) <= MaxU64
  BY QuoteAssumption DEF Scaled, Lesser

\* A parsed trade has its type, whatever the pool.
LEMMA EventType ==
    ASSUME TypeOK
    PROVE  Event368 \in Info /\ Event270 \in Info /\ PumpFunEvent \in Info
             /\ RaydiumEvent \in Info
  <1>1. sol \in Nat /\ tok \in Nat \ {0} /\ reverse \in BOOLEAN
    BY DEF TypeOK
  <1>2. Scaled(sol) \in Nat /\ Scaled(sol) <= MaxU64
    BY <1>1, ScaledType
  <1>3. Scaled(sol) \div tok \in 0..MaxU64
    <2>1. Scaled(sol) \div tok \in Nat
      BY <1>1, <1>2, Quotient
    <2>2. Scaled(sol) \div tok <= Scaled(sol) \div 1
      BY <1>1, <1>2, QuotientMonotone
    <2>3. Scaled(sol) \div 1 = Scaled(sol)
      BY <1>2
    <2> QED
      BY <1>2, <2>1, <2>2, <2>3, QuoteAssumption
  <1>4. Lesser((sol * Scale) \div tok, MaxU64) \in 0..MaxU64
    <2>1. sol * Scale \in Nat
      BY <1>1, QuoteAssumption
    <2>2. (sol * Scale) \div tok \in Nat
      BY <1>1, <2>1, Quotient
    <2> QED
      BY <2>2, QuoteAssumption DEF Lesser
  <1> QED
    BY <1>1, <1>3, <1>4
    DEF Info, Event368, Event270, PumpSwapEvent, PumpFunEvent, RaydiumEvent

\* Limits are amounts of money.
LEMMA LimitType ==
    ASSUME NEW a \in Nat, NEW b \in Nat
    PROVE  /\ MostToPay(a, b) \in Nat
           /\ MostToPay(a, b) >= a
  <1>1. a * (Bps + b) \in Nat /\ Bps \in Nat \ {0}
    BY QuoteAssumption
  <1>2. Bps * a <= a * (Bps + b)
    <2>1. a * (Bps + b) = Bps * a + a * b
      BY QuoteAssumption
    <2>2. a * b \in Nat /\ Bps * a \in Nat
      BY QuoteAssumption
    <2> QED
      BY <2>1, <2>2
  <1> QED
    BY <1>1, <1>2, Quotient, QuotientAbove DEF MostToPay

\* A share of an amount is no more than the amount.
LEMMA ShareType ==
    ASSUME NEW a \in Nat, NEW b \in 0..Bps
    PROVE  /\ (a * (Bps - b)) \div Bps \in Nat
           /\ (a * (Bps - b)) \div Bps <= a
  <1>1. Bps \in Nat \ {0} /\ Bps - b \in Nat /\ Bps - b <= Bps
    BY QuoteAssumption
  <1>2. a * (Bps - b) \in Nat /\ a * Bps \in Nat /\ a * (Bps - b) <= a * Bps
    BY <1>1, ProductMonotone
  <1>3. a * (Bps - b) < Bps * (a + 1)
    <2>1. Bps * (a + 1) = a * Bps + Bps
      BY <1>1
    <2> QED
      BY <1>1, <1>2, <2>1
  <1>4. (a * (Bps - b)) \div Bps \in Nat
    BY <1>1, <1>2, Quotient
  <1>5. (a * (Bps - b)) \div Bps < a + 1
    <2>1. a + 1 \in Nat
      OBVIOUS
    <2>2. ASSUME NEW x \in Nat, x < Bps * (a + 1)
          PROVE  x \div Bps < a + 1
      BY <1>1, <2>1, <2>2, QuotientBelow
    <2> QED
      BY <1>2, <1>3, <2>2
  <1> QED
    BY <1>4, <1>5

\* Only PumpSwap has reverse pools.
TInv == TypeOK /\ (reverse => dex = "PumpSwap")

\* The pool is made of positive reserves and nothing has been seen of it.
LEMMA TypeInit == Init => TInv
  <1>1. NoInfo \in Info
    BY QuoteAssumption DEF Info, NoInfo
  <1>2. SolReserve \in Nat \ {0} /\ TokReserve \in Nat \ {0}
    BY QuoteAssumption
  <1>3. 0 \in Nat /\ FALSE \in BOOLEAN
    OBVIOUS
  <1> SUFFICES ASSUME Init
               PROVE  TInv
    OBVIOUS
  <1>4. seen \in Info /\ sol \in Nat \ {0} /\ tok \in Nat \ {0} /\ held \in Nat
    BY <1>1, <1>2, <1>3 DEF Init
  <1>5. order \in Order \cup {NoOrder} /\ cached \in BOOLEAN
    BY <1>3 DEF Init
  <1>6. exists \in BOOLEAN
    BY <1>3 DEF Init
  <1> QED
    BY <1>4, <1>5, <1>6 DEF Init, TInv, TypeOK

\* What a builder places has the type of an order.
LEMMA OrderType ==
    ASSUME TInv, NEW kind \in {"exactBuy", "buy", "sell"},
           NEW amount \in Nat, NEW limit \in Nat, NEW create \in BOOLEAN,
           Place(kind, amount, limit, create)
    PROVE  order' \in Order
  BY DEF TInv, TypeOK, Info, Place, Order

\* The builders keep the types.
LEMMA TypeBuild ==
    ASSUME TInv,
           \/ PumpFunBuy \/ PumpSwapBuy \/ RaydiumSwap("buy", AmountIn)
           \/ \E amount \in 0..held : Sell(amount)
    PROVE  TInv'
  <1> USE DEF TInv, TypeOK, poolVars
  <1>1. /\ AmountIn \in Nat /\ Slippage \in 0..Bps /\ Slippage \in Nat
        /\ 2 * Bps \in Nat /\ MostToPay(AmountIn, 2 * Bps) \in Nat
        /\ MostToPay(AmountIn, Slippage) \in Nat
    <2>1. AmountIn \in Nat /\ Slippage \in 0..Bps /\ Slippage \in Nat /\ 2 * Bps \in Nat
      BY QuoteAssumption
    <2> QED
      BY <2>1, LimitType
  <1>2. ASSUME NEW in \in Nat, NEW into \in Nat, NEW from \in Nat
        PROVE  Quote(in, into, from) \in Nat
    BY <1>2, QuoteBelow DEF Quote
  <1>3. seen.vsol \in Nat /\ seen.vtok \in Nat
    BY DEF Info
  <1>4. Quote(AmountIn, seen.vsol, seen.vtok) \in Nat
    BY <1>1, <1>2, <1>3
  <1>5. CASE PumpFunBuy
    <2>1. order' \in Order
      BY <1>1, <1>4, <1>5, OrderType DEF PumpFunBuy
    <2> QED
      BY <1>5, <2>1 DEF PumpFunBuy
  <1>6. CASE PumpSwapBuy
    <2>1. order' \in Order \cup {NoOrder}
      BY <1>1, <1>4, <1>6, OrderType DEF PumpSwapBuy, Ready
    <2> QED
      BY <1>6, <2>1 DEF PumpSwapBuy
  <1>7. CASE RaydiumSwap("buy", AmountIn)
    <2>1. order' \in Order
      BY <1>1, <1>7, OrderType DEF RaydiumSwap
    <2> QED
      BY <1>7, <2>1 DEF RaydiumSwap
  <1>8. ASSUME NEW amount \in 0..held, Sell(amount)
        PROVE  TInv'
    <2>1. amount \in Nat
      OBVIOUS
    <2>2. CASE PumpFunSell(amount)
      <3> DEFINE expected == Quote(amount, seen.vtok, seen.vsol)
      <3>1. (expected * (Bps - Slippage)) \div Bps \in Nat
        BY <1>1, <1>2, <1>3, <2>1, ShareType
      <3>2. order' \in Order
        BY <2>1, <2>2, <3>1, OrderType DEF PumpFunSell
      <3> QED
        BY <2>2, <3>2 DEF PumpFunSell, Sold
    <2>3. CASE PumpSwapSell(amount)
      <3>1. order' \in Order
        BY <2>1, <2>3, OrderType DEF PumpSwapSell
      <3> QED
        BY <2>3, <3>1 DEF PumpSwapSell, Sold
    <2>4. CASE RaydiumSwap("sell", amount)
      <3>1. order' \in Order
        BY <2>1, <2>4, OrderType DEF RaydiumSwap
      <3> QED
        BY <2>4, <3>1 DEF RaydiumSwap, Sold
    <2> QED
      BY <1>8, <2>2, <2>3, <2>4 DEF Sell
  <1> QED
    BY <1>5, <1>6, <1>7, <1>8

\* A trade leaves both reserves positive.
LEMMA TypeLand ==
    ASSUME TInv, Land
    PROVE  TInv'
  <1> USE DEF TInv, TypeOK, Leaves
  <1>1. order \in Order /\ Fits(order)
    BY DEF Land, Fits, NoOrder
  <1>2. order.amount \in Nat /\ sol \in Nat \ {0} /\ tok \in Nat \ {0} /\ held \in Nat
    BY <1>1 DEF Order
  <1>3. /\ order' = NoOrder /\ UNCHANGED <<dex, reverse, seen>>
        /\ cached' \in BOOLEAN /\ exists' \in BOOLEAN
    BY <1>1 DEF Land, Bought, Order
  <1>4. /\ Quote(order.amount, sol, tok) \in Nat /\ Quote(order.amount, sol, tok) < tok
        /\ Quote(order.amount, tok, sol) \in Nat /\ Quote(order.amount, tok, sol) < sol
    BY <1>2, QuoteBelow
  <1>5. CASE order.kind = "exactBuy"
    <2>1. order.amount < tok
      BY <1>1, <1>5 DEF Fits
    <2>2. sol * order.amount + tok - order.amount - 1 \in Nat
      <3>1. sol * order.amount \in Nat
        BY <1>2
      <3> QED
        BY <1>2, <2>1, <3>1
    <2>3. tok - order.amount \in Nat \ {0}
      BY <1>2, <2>1
    <2>4. Cost(order.amount) \in Nat
      BY <2>2, <2>3, Quotient DEF Cost
    <2>5. /\ sol' = sol + Cost(order.amount) /\ tok' = tok - order.amount
          /\ held' = held + order.amount
      BY <1>5 DEF Land
    <2> QED
      BY <1>2, <1>3, <2>3, <2>4, <2>5
  <1>6. CASE order.kind = "buy"
    <2>1. /\ sol' = sol + order.amount /\ tok' = tok - Quote(order.amount, sol, tok)
          /\ held' = held + Quote(order.amount, sol, tok)
      BY <1>6 DEF Land
    <2> QED
      BY <1>2, <1>3, <1>4, <2>1
  <1>7. CASE order.kind = "sell"
    <2>1. /\ order.amount <= held
          /\ sol' = sol - Quote(order.amount, tok, sol) /\ tok' = tok + order.amount
          /\ held' = held - order.amount
      BY <1>7 DEF Land
    <2> QED
      BY <1>2, <1>3, <1>4, <2>1
  <1> QED
    BY <1>1, <1>5, <1>6, <1>7 DEF Order

\* Every step keeps the types.
LEMMA TypeNext == TInv /\ [Next]_vars => TInv'
  <1> SUFFICES ASSUME TInv, [Next]_vars
               PROVE  TInv'
    OBVIOUS
  <1> USE DEF TInv, TypeOK, poolVars
  <1>1. CASE Observe
    BY <1>1, EventType DEF Observe
  <1>2. CASE \/ PumpFunBuy \/ PumpSwapBuy \/ RaydiumSwap("buy", AmountIn)
             \/ \E amount \in 0..held : Sell(amount)
    BY <1>2, TypeBuild
  <1>3. CASE Land
    BY <1>3, TypeLand
  <1>4. CASE Fail
    BY <1>4 DEF Fail
  <1>5. CASE CleanUp
    BY <1>5 DEF CleanUp
  <1>6. ASSUME NEW stake \in Stakes, OthersBuy(stake) \/ OthersSell(stake)
        PROVE  TInv'
    <2>1. stake \in Nat
      BY QuoteAssumption
    <2>2. /\ Quote(stake, sol, tok) \in Nat /\ Quote(stake, sol, tok) < tok
          /\ Quote(stake, tok, sol) \in Nat /\ Quote(stake, tok, sol) < sol
      BY <2>1, QuoteBelow
    <2> QED
      BY <1>6, <2>1, <2>2 DEF OthersBuy, OthersSell, Leaves
  <1>7. CASE UNCHANGED vars
    BY <1>7 DEF vars
  <1> QED
    BY <1>1, <1>2, <1>3, <1>4, <1>5, <1>6, <1>7 DEF Next

\* Reserves stay positive and prices within a word, whoever trades.
THEOREM TypeInvariant == Spec => []TInv
  BY TypeInit, TypeNext, PTL DEF Spec

\* TypeOK, as the run checks it.
THEOREM TypeCorrect == Spec => []TypeOK
  <1>1. TInv => TypeOK
    BY DEF TInv
  <1> QED
    BY <1>1, TypeInvariant, PTL

-----------------------------------------------------------------------------
(* Prices.                                                                  *)

\* The price the selling engine believes a pool of these reserves to have.
Believed(s, t) ==
    CASE dex = "PumpFun" -> (s * Scale) \div t
      [] dex = "PumpSwap" -> Scaled(s) \div t
      [] dex = "Raydium" -> Lesser((s * Scale) \div t, MaxU64)

\* What has been seen is what a parser made of a pool.
SeenInv ==
    seen # NoInfo =>
       /\ seen.sol \in Nat \ {0} /\ seen.tok \in Nat \ {0}
       /\ dex # "Raydium" /\ ~reverse => seen.vsol = seen.sol /\ seen.vtok = seen.tok
       /\ MetricsPrice(seen) = Believed(seen.sol, seen.tok)

\* No event has the shape of "nothing seen", and each satisfies the invariant.
LEMMA SeenObserve ==
    ASSUME TInv, Observe
    PROVE  SeenInv'
  <1> USE DEF TInv, TypeOK, Observe, poolVars, SeenInv
  <1>1. sol \in Nat \ {0} /\ tok \in Nat \ {0} /\ dex' = dex /\ reverse' = reverse
    OBVIOUS
  <1>2. CASE dex = "PumpSwap"
    <2>1. seen'.sol = sol /\ seen'.tok = tok /\ seen'.price = Scaled(sol) \div tok
      BY <1>2 DEF Event368, Event270, PumpSwapEvent
    <2>2. ~reverse => seen'.vsol = sol /\ seen'.vtok = tok
      BY <1>2 DEF Event368, Event270, PumpSwapEvent
    <2>3. MetricsPrice(seen)' = Believed(seen.sol, seen.tok)'
      BY <1>1, <1>2, <2>1 DEF MetricsPrice, Believed
    <2> QED
      BY <1>1, <2>1, <2>2, <2>3
  <1>3. CASE dex = "PumpFun"
    <2>1. seen'.sol = sol /\ seen'.tok = tok /\ seen'.vsol = sol /\ seen'.vtok = tok
      BY <1>3 DEF PumpFunEvent
    <2>2. MetricsPrice(seen)' = Believed(seen.sol, seen.tok)'
      BY <1>1, <1>3, <2>1 DEF MetricsPrice, Believed
    <2> QED
      BY <1>1, <2>1, <2>2
  <1>4. CASE dex = "Raydium"
    <2>1. /\ seen'.sol = sol /\ seen'.tok = tok
          /\ seen'.price = Lesser((sol * Scale) \div tok, MaxU64)
      BY <1>4 DEF RaydiumEvent
    <2>2. MetricsPrice(seen)' = Believed(seen.sol, seen.tok)'
      BY <1>1, <1>4, <2>1 DEF MetricsPrice, Believed
    <2> QED
      BY <1>1, <1>4, <2>1, <2>2
  <1> QED
    BY <1>2, <1>3, <1>4 DEF Dexes

\* Nobody else touches what has been seen, nor where the token is traded.
LEMMA SeenFrame ==
    ASSUME [Next]_vars
    PROVE  /\ dex' = dex /\ reverse' = reverse
           /\ Observe \/ seen' = seen
  <1> USE DEF poolVars
  <1>1. ASSUME NEW amount \in 0..held, Sell(amount)
        PROVE  dex' = dex /\ reverse' = reverse /\ seen' = seen
    BY <1>1 DEF Sell, PumpFunSell, PumpSwapSell, RaydiumSwap
  <1>2. CASE PumpFunBuy \/ PumpSwapBuy \/ RaydiumSwap("buy", AmountIn)
             \/ Fail \/ CleanUp
    BY <1>2 DEF PumpFunBuy, PumpSwapBuy, RaydiumSwap, Fail, CleanUp
  <1>3. CASE Land
    BY <1>3 DEF Land
  <1>4. ASSUME NEW stake \in Stakes, OthersBuy(stake) \/ OthersSell(stake)
        PROVE  dex' = dex /\ reverse' = reverse /\ seen' = seen
    BY <1>4 DEF OthersBuy, OthersSell
  <1>5. CASE Observe
    BY <1>5 DEF Observe
  <1>6. CASE UNCHANGED vars
    BY <1>6 DEF vars
  <1> QED
    BY <1>1, <1>2, <1>3, <1>4, <1>5, <1>6 DEF Next

\* Every step keeps what has been seen in order.
LEMMA SeenNext == TInv /\ SeenInv /\ [Next]_vars => SeenInv'
  <1> SUFFICES ASSUME TInv, SeenInv, [Next]_vars
               PROVE  SeenInv'
    OBVIOUS
  <1>1. CASE Observe
    BY <1>1, SeenObserve
  <1>2. CASE dex' = dex /\ reverse' = reverse /\ seen' = seen
    BY <1>2 DEF SeenInv, MetricsPrice, Believed
  <1> QED
    BY <1>1, <1>2, SeenFrame

\* A pool with more SOL and fewer tokens is not believed to be cheaper.
LEMMA BelievedMonotone ==
    ASSUME TInv,
           NEW s1 \in Nat, NEW s2 \in Nat, NEW t1 \in Nat \ {0}, NEW t2 \in Nat \ {0},
           s1 <= s2, t2 <= t1
    PROVE  Believed(s1, t1) <= Believed(s2, t2)
  <1>1. Scale \in Nat /\ MaxU64 \in Nat
    BY QuoteAssumption
  <1>2. s1 * Scale \in Nat /\ s2 * Scale \in Nat /\ s1 * Scale <= s2 * Scale
    BY <1>1, ProductMonotone
  <1>3. /\ (s1 * Scale) \div t1 \in Nat /\ (s2 * Scale) \div t2 \in Nat
        /\ (s1 * Scale) \div t1 <= (s2 * Scale) \div t2
    BY <1>2, Quotient, QuotientMonotone
  <1>4. Scaled(s1) \in Nat /\ Scaled(s2) \in Nat /\ Scaled(s1) <= Scaled(s2)
    BY <1>1, <1>2 DEF Scaled, Lesser
  <1>5. Scaled(s1) \div t1 <= Scaled(s2) \div t2
    BY <1>4, QuotientMonotone
  <1>6. CASE dex = "PumpFun"
    BY <1>3, <1>6 DEF Believed
  <1>7. CASE dex = "PumpSwap"
    BY <1>5, <1>7 DEF Believed
  <1>8. CASE dex = "Raydium"
    <2>1. Lesser((s1 * Scale) \div t1, MaxU64) <= Lesser((s2 * Scale) \div t2, MaxU64)
      BY <1>1, <1>3 DEF Lesser
    <2> QED
      BY <1>8, <2>1 DEF Believed
  <1> QED
    BY <1>6, <1>7, <1>8 DEF TInv, TypeOK, Dexes

\* Whatever the scale and the word size, the price sells are decided on never
\* moves against the pool.
THEOREM PricesFollow == Spec => PriceFollows
  <1> DEFINE Follow ==
        seen # NoInfo =>
          /\ seen'.sol >= seen.sol /\ seen'.tok <= seen.tok
                => MetricsPrice(seen') >= MetricsPrice(seen)
          /\ seen'.sol <= seen.sol /\ seen'.tok >= seen.tok
                => MetricsPrice(seen') <= MetricsPrice(seen)
  <1>1. Init => SeenInv
    BY DEF Init, SeenInv
  <1>2. TInv /\ SeenInv /\ SeenInv' /\ [Next]_vars => [Follow]_vars
    <2> SUFFICES ASSUME TInv, SeenInv, SeenInv', [Next]_vars, seen # NoInfo
                 PROVE  Follow
      OBVIOUS
    <2>1. dex' = dex /\ reverse' = reverse
      BY SeenFrame
    <2>2. CASE seen' = seen
      <3>1. MetricsPrice(seen') = MetricsPrice(seen)
        BY <2>2
      <3>2. MetricsPrice(seen) \in Nat
        <4>1. seen.sol \in Nat /\ seen.tok \in Nat \ {0}
          BY DEF SeenInv
        <4>2. Scaled(seen.sol) \in Nat /\ seen.sol * Scale \in Nat /\ MaxU64 \in Nat
          BY <4>1, ScaledType, QuoteAssumption
        <4>3. /\ Scaled(seen.sol) \div seen.tok \in Nat
              /\ (seen.sol * Scale) \div seen.tok \in Nat
          BY <4>1, <4>2, Quotient
        <4> QED
          BY <4>2, <4>3 DEF SeenInv, Believed, Lesser, TInv, TypeOK, Dexes
      <3> QED
        BY <3>1, <3>2
    <2>3. CASE Observe
      <3>1. /\ seen.sol \in Nat /\ seen.tok \in Nat \ {0}
            /\ MetricsPrice(seen) = Believed(seen.sol, seen.tok)
        BY DEF SeenInv
      <3>2. seen'.sol \in Nat \ {0} /\ seen'.tok \in Nat \ {0}
        BY <2>3
        DEF Observe, Event368, Event270, PumpSwapEvent, PumpFunEvent, RaydiumEvent,
            TInv, TypeOK
      <3>3. seen' # NoInfo
        BY <3>2 DEF NoInfo
      <3>4. MetricsPrice(seen') = Believed(seen'.sol, seen'.tok)
        BY <2>1, <3>3 DEF SeenInv, MetricsPrice, Believed
      <3>5. seen'.sol >= seen.sol /\ seen'.tok <= seen.tok
               => Believed(seen.sol, seen.tok) <= Believed(seen'.sol, seen'.tok)
        BY <3>1, <3>2, BelievedMonotone
      <3>6. seen'.sol <= seen.sol /\ seen'.tok >= seen.tok
               => Believed(seen'.sol, seen'.tok) <= Believed(seen.sol, seen.tok)
        BY <3>1, <3>2, BelievedMonotone
      <3> HIDE DEF Believed
      <3>7. Believed(seen.sol, seen.tok) \in Nat /\ Believed(seen'.sol, seen'.tok) \in Nat
        <4>1. ASSUME NEW s \in Nat, NEW t \in Nat \ {0}
              PROVE  Believed(s, t) \in Nat
          <5>1. Scaled(s) \in Nat /\ s * Scale \in Nat /\ MaxU64 \in Nat
            BY ScaledType, QuoteAssumption
          <5>2. Scaled(s) \div t \in Nat /\ (s * Scale) \div t \in Nat
            BY <5>1, Quotient
          <5> QED
            BY <5>1, <5>2 DEF Believed, Lesser, TInv, TypeOK, Dexes
        <4> QED
          BY <3>1, <3>2, <4>1
      <3> QED
        BY <3>1, <3>4, <3>5, <3>6, <3>7
    <2> QED
      BY <2>2, <2>3, SeenFrame
  <1> QED
    BY <1>1, <1>2, SeenNext, TypeInvariant, PTL DEF Spec, PriceFollows

\* A price is wrong in one way only: it is too low, of a pool whose SOL times the
\* scale does not fit into 64 bits, and not on PumpFun, where the reserves are
\* divided anew.  Every other price is the pool's, as PriceRight has it.
THEOREM PricesWrongOnlySaturated ==
    Spec => [](seen # NoInfo =>
                  LET right == (seen.sol * Scale) \div seen.tok
                  IN /\ MetricsPrice(seen) <= right
                     /\ dex = "PumpFun" \/ seen.sol * Scale <= MaxU64
                           => MetricsPrice(seen) = right)
  <1> DEFINE right == (seen.sol * Scale) \div seen.tok
             Wrong == seen # NoInfo =>
                         /\ MetricsPrice(seen) <= right
                         /\ dex = "PumpFun" \/ seen.sol * Scale <= MaxU64
                               => MetricsPrice(seen) = right
  <1>1. Init => SeenInv
    BY DEF Init, SeenInv
  <1>2. TInv /\ SeenInv => Wrong
    <2> SUFFICES ASSUME TInv, SeenInv, seen # NoInfo
                 PROVE  /\ MetricsPrice(seen) <= right
                        /\ dex = "PumpFun" \/ seen.sol * Scale <= MaxU64
                              => MetricsPrice(seen) = right
      OBVIOUS
    <2> DEFINE product == seen.sol * Scale
    <2>1. seen.sol \in Nat /\ seen.tok \in Nat \ {0}
      BY DEF SeenInv
    <2>2. product \in Nat /\ Scaled(seen.sol) \in Nat /\ MaxU64 \in Nat
      BY <2>1, ScaledType, QuoteAssumption
    <2>3. Scaled(seen.sol) <= product
      BY <2>2 DEF Scaled, Lesser
    <2>4. product <= MaxU64 => Scaled(seen.sol) = product
      BY <2>2 DEF Scaled, Lesser
    <2>5. MetricsPrice(seen) = Believed(seen.sol, seen.tok)
      BY DEF SeenInv
    <2> HIDE DEF product
    <2>6. product \div seen.tok \in Nat /\ Scaled(seen.sol) \div seen.tok \in Nat
      BY <2>1, <2>2, Quotient
    <2>7. product \div seen.tok <= product
      <3>1. product < seen.tok * (product + 1)
        <4>1. 1 * (product + 1) <= seen.tok * (product + 1)
          BY <2>1, <2>2, ProductMonotone
        <4>2. seen.tok * (product + 1) \in Nat
          BY <2>1, <2>2
        <4> QED
          BY <2>2, <4>1, <4>2
      <3>2. product \div seen.tok < product + 1
        BY <2>1, <2>2, <3>1, QuotientBelow
      <3> QED
        BY <2>2, <2>6, <3>2
    <2>8. Scaled(seen.sol) \div seen.tok <= product \div seen.tok
      BY <2>1, <2>2, <2>3, QuotientMonotone
    <2>9. CASE dex = "PumpFun"
      BY <2>5, <2>6, <2>9 DEF Believed, product
    <2>10. CASE dex = "PumpSwap"
      BY <2>4, <2>5, <2>8, <2>10 DEF Believed, product
    <2>11. CASE dex = "Raydium"
      <3>1. MetricsPrice(seen) = Lesser(product \div seen.tok, MaxU64)
        BY <2>5, <2>11 DEF Believed, product
      <3>2. /\ MetricsPrice(seen) <= product \div seen.tok
            /\ product <= MaxU64 => MetricsPrice(seen) = product \div seen.tok
        BY <2>2, <2>6, <2>7, <3>1 DEF Lesser
      <3> QED
        BY <2>11, <3>2 DEF product
    <2> QED
      BY <2>9, <2>10, <2>11 DEF TInv, TypeOK, Dexes
  <1> QED
    BY <1>1, <1>2, TypeInvariant, SeenNext, PTL DEF Spec

-----------------------------------------------------------------------------
(* Orders.                                                                  *)

\* What an order for a pump pool owes to the reserves it was built from.
OrderInv ==
    order # NoOrder =>
       /\ order.kind = "exactBuy" /\ ~reverse =>
             /\ order.sol \in Nat \ {0} /\ order.tok \in Nat \ {0}
             /\ order.amount = Quote(AmountIn, order.sol, order.tok)
             /\ order.limit >= AmountIn
       /\ order.kind = "sell" /\ dex # "Raydium" =>
             order.limit <= Quote(order.amount, order.tok, order.sol)
       /\ order.kind = "buy" => dex = "Raydium"

\* The builders establish it.
LEMMA OrderBuild ==
    ASSUME TInv, SeenInv, OrderInv,
           \/ PumpFunBuy \/ PumpSwapBuy \/ RaydiumSwap("buy", AmountIn)
           \/ \E amount \in 0..held : Sell(amount)
    PROVE  OrderInv'
  <1> USE DEF TInv, TypeOK, SeenInv, OrderInv, poolVars, Ready, Place
  <1>1. AmountIn \in Nat /\ Slippage \in 0..Bps /\ Slippage \in Nat /\ 2 * Bps \in Nat
    BY QuoteAssumption
  <1>2. /\ MostToPay(AmountIn, 2 * Bps) >= AmountIn
        /\ MostToPay(AmountIn, Slippage) >= AmountIn
    BY <1>1, LimitType
  <1>3. CASE PumpFunBuy
    <2>1. ~reverse /\ seen # NoInfo /\ dex = "PumpFun"
      BY <1>3 DEF PumpFunBuy
    <2>2. seen.vsol = seen.sol /\ seen.vtok = seen.tok
      BY <2>1
    <2> QED
      BY <1>2, <1>3, <2>1, <2>2 DEF PumpFunBuy
  <1>4. CASE PumpSwapBuy
    <2>1. seen # NoInfo /\ dex = "PumpSwap" /\ order = NoOrder
      BY <1>4 DEF PumpSwapBuy
    <2>2. ~reverse => seen.vsol = seen.sol /\ seen.vtok = seen.tok
      BY <2>1
    <2> QED
      BY <1>2, <1>4, <2>1, <2>2 DEF PumpSwapBuy
  <1>5. CASE RaydiumSwap("buy", AmountIn)
    BY <1>5 DEF RaydiumSwap
  <1>6. ASSUME NEW amount \in 0..held, Sell(amount)
        PROVE  OrderInv'
    <2>1. amount \in Nat
      OBVIOUS
    <2>2. CASE PumpFunSell(amount)
      <3>1. ~reverse /\ seen # NoInfo /\ dex = "PumpFun"
        BY <2>2 DEF PumpFunSell
      <3>2. /\ seen.vsol = seen.sol /\ seen.vtok = seen.tok
            /\ seen.sol \in Nat \ {0} /\ seen.tok \in Nat \ {0}
        BY <3>1
      <3> DEFINE expected == Quote(amount, seen.vtok, seen.vsol)
      <3>3. expected \in Nat
        BY <2>1, <3>2, QuoteBelow
      <3>4. (expected * (Bps - Slippage)) \div Bps <= expected
        BY <1>1, <3>3, ShareType
      <3>5. /\ order' = [kind |-> "sell", amount |-> amount,
                         limit |-> (expected * (Bps - Slippage)) \div Bps,
                         create |-> FALSE, sol |-> seen.sol, tok |-> seen.tok]
            /\ dex' = dex
        BY <2>2 DEF PumpFunSell
      <3> QED
        BY <3>2, <3>4, <3>5
    <2>3. CASE PumpSwapSell(amount)
      <3>1. seen # NoInfo /\ dex = "PumpSwap"
        BY <2>3 DEF PumpSwapSell
      <3>2. seen.sol \in Nat \ {0} /\ seen.tok \in Nat \ {0}
        BY <3>1
      <3>3. Quote(amount, seen.tok, seen.sol) \in Nat
        BY <2>1, <3>2, QuoteBelow
      <3>4. order' = [kind |-> "sell", amount |-> amount, limit |-> 0,
                      create |-> FALSE, sol |-> seen.sol, tok |-> seen.tok]
        BY <2>3 DEF PumpSwapSell
      <3> QED
        BY <3>3, <3>4
    <2>4. CASE RaydiumSwap("sell", amount)
      BY <2>4 DEF RaydiumSwap
    <2> QED
      BY <1>6, <2>2, <2>3, <2>4 DEF Sell
  <1> QED
    BY <1>3, <1>4, <1>5, <1>6

\* An order is kept as it was built until it is gone.
LEMMA OrderNext == TInv /\ SeenInv /\ OrderInv /\ [Next]_vars => OrderInv'
  <1> SUFFICES ASSUME TInv, SeenInv, OrderInv, [Next]_vars
               PROVE  OrderInv'
    OBVIOUS
  <1> USE DEF OrderInv, poolVars
  <1>1. CASE Observe
    BY <1>1 DEF Observe
  <1>2. CASE \/ PumpFunBuy \/ PumpSwapBuy \/ RaydiumSwap("buy", AmountIn)
             \/ \E amount \in 0..held : Sell(amount)
    BY <1>2, OrderBuild
  <1>3. CASE Land \/ Fail \/ CleanUp
    BY <1>3 DEF Land, Fail, CleanUp
  <1>4. ASSUME NEW stake \in Stakes, OthersBuy(stake) \/ OthersSell(stake)
        PROVE  OrderInv'
    BY <1>4 DEF OthersBuy, OthersSell
  <1>5. CASE UNCHANGED vars
    BY <1>5 DEF vars
  <1> QED
    BY <1>1, <1>2, <1>3, <1>4, <1>5 DEF Next

\* An order whose pool has not moved can be filled.
LEMMA UnmovedFits == TInv /\ OrderInv => QuoteFillable
  <1> SUFFICES ASSUME TInv, OrderInv, order # NoOrder, dex # "Raydium", ~reverse,
                      order.sol = sol, order.tok = tok, AccountReady(order)
               PROVE  Fits(order)
    BY DEF QuoteFillable
  <1>1. /\ order \in Order /\ sol \in Nat \ {0} /\ tok \in Nat \ {0}
        /\ AmountIn \in Nat
    BY QuoteAssumption DEF TInv, TypeOK
  <1>2. CASE order.kind = "exactBuy"
    <2>1. /\ order.amount = Quote(AmountIn, sol, tok)
          /\ order.limit >= AmountIn /\ order.limit \in Nat
      BY <1>1, <1>2 DEF OrderInv, Order
    <2>2. /\ order.amount \in Nat /\ order.amount < tok
          /\ (sol * order.amount + tok - order.amount - 1) \div (tok - order.amount)
                <= AmountIn
      BY <1>1, <2>1, QuoteCost
    <2>3. Cost(order.amount) <= AmountIn /\ Cost(order.amount) \in Int
      <3>1. tok - order.amount \in Nat \ {0}
        BY <1>1, <2>2
      <3>2. sol * order.amount \in Nat
        BY <1>1, <2>2
      <3>3. sol * order.amount + tok - order.amount - 1 \in Nat
        BY <1>1, <2>2, <3>2
      <3>4. (sol * order.amount + tok - order.amount - 1) \div (tok - order.amount) \in Nat
        BY <3>1, <3>3, Quotient
      <3> QED
        BY <2>2, <3>4 DEF Cost
    <2> QED
      BY <1>1, <1>2, <2>1, <2>2, <2>3 DEF Fits
  <1>3. CASE order.kind = "sell"
    BY <1>3 DEF OrderInv, Fits
  <1> QED
    BY <1>1, <1>2, <1>3 DEF OrderInv, Order

\* Whatever the reserves and the amounts, what the builders ask of a pump pool
\* is never more than the pool gives at the event's reserves.
THEOREM QuotesAreFillable == Spec => []QuoteFillable
  <1>1. Init => SeenInv /\ OrderInv
    BY DEF Init, SeenInv, OrderInv
  <1> QED
    BY <1>1, SeenNext, OrderNext, UnmovedFits, TypeInvariant, PTL DEF Spec
-----------------------------------------------------------------------------
(* Accounts.                                                                *)

\* Tokens are held in an account.
AccountInv == held > 0 => exists

\* A stranded token stays stranded through the builders: all of them look at the
\* cache and none sells what the wallet does not hold.
LEMMA StrandedBuild ==
    ASSUME TInv, AccountInv, Stranded,
           \/ PumpFunBuy \/ PumpSwapBuy \/ RaydiumSwap("buy", AmountIn)
           \/ \E amount \in 0..held : Sell(amount)
    PROVE  Stranded'
  <1> USE DEF Stranded, Place
  <1>1. cached /\ ~exists /\ ~order.create
    OBVIOUS
  <1>2. held = 0
    BY <1>1 DEF AccountInv, TInv, TypeOK
  <1>3. CASE PumpFunBuy
    BY <1>1, <1>3 DEF PumpFunBuy
  <1>4. CASE PumpSwapBuy
    <2>1. cached' /\ exists' = exists
      BY <1>4 DEF PumpSwapBuy
    <2>2. order'.create = ~cached \/ order' = order
      BY <1>4 DEF PumpSwapBuy
    <2> QED
      BY <1>1, <2>1, <2>2
  <1>5. CASE RaydiumSwap("buy", AmountIn)
    BY <1>1, <1>5 DEF RaydiumSwap
  <1>6. ASSUME NEW amount \in 0..held, Sell(amount)
        PROVE  Stranded'
    <2>1. ASSUME Sold(amount)
          PROVE  cached' = cached
      BY <1>2, <2>1 DEF Sold
    <2>2. CASE PumpFunSell(amount)
      BY <1>1, <2>1, <2>2 DEF PumpFunSell
    <2>3. CASE PumpSwapSell(amount)
      BY <1>1, <2>1, <2>3 DEF PumpSwapSell
    <2>4. CASE RaydiumSwap("sell", amount)
      BY <1>1, <2>1, <2>4 DEF RaydiumSwap
    <2> QED
      BY <1>6, <2>2, <2>3, <2>4 DEF Sell
  <1> QED
    BY <1>3, <1>4, <1>5, <1>6

\* It stays stranded through everything else, too: nothing lands for want of the
\* account and the clean-up leaves it alone.
LEMMA StrandedNext == TInv /\ AccountInv /\ Stranded /\ [Next]_vars => Stranded'
  <1> SUFFICES ASSUME TInv, AccountInv, Stranded, [Next]_vars
               PROVE  Stranded'
    OBVIOUS
  <1>1. cached /\ ~exists /\ ~order.create
    BY DEF Stranded
  <1> USE DEF Stranded
  <1>2. CASE \/ PumpFunBuy \/ PumpSwapBuy \/ RaydiumSwap("buy", AmountIn)
             \/ \E amount \in 0..held : Sell(amount)
    BY <1>2, StrandedBuild
  <1>3. CASE Land
    <2>1. AccountReady(order)
      BY <1>3 DEF Land, Fits
    <2> QED
      BY <1>1, <2>1 DEF AccountReady
  <1>4. CASE Fail
    BY <1>1, <1>4 DEF Fail, NoOrder
  <1>5. CASE CleanUp
    BY <1>1, <1>5 DEF CleanUp
  <1>6. ASSUME NEW stake \in Stakes, OthersBuy(stake) \/ OthersSell(stake)
        PROVE  Stranded'
    <2>1. UNCHANGED <<cached, exists, order>>
      BY <1>6 DEF OthersBuy, OthersSell
    <2> QED
      BY <1>1, <2>1
  <1>7. CASE Observe \/ UNCHANGED vars
    <2>1. UNCHANGED <<cached, exists, order>>
      BY <1>7 DEF Observe, vars
    <2> QED
      BY <1>1, <2>1
  <1> QED
    BY <1>2, <1>3, <1>4, <1>5, <1>6, <1>7 DEF Next

\* Only what lands is held, and it lands in the account.
LEMMA AccountNext == TInv /\ AccountInv /\ [Next]_vars => AccountInv'
  <1> SUFFICES ASSUME TInv, AccountInv, [Next]_vars
               PROVE  AccountInv'
    OBVIOUS
  <1> USE DEF AccountInv, poolVars
  <1>1. CASE Land
    BY <1>1 DEF Land
  <1>2. ASSUME NEW amount \in 0..held, Sell(amount)
        PROVE  AccountInv'
    BY <1>2 DEF Sell, PumpFunSell, PumpSwapSell, RaydiumSwap
  <1>3. CASE PumpFunBuy \/ PumpSwapBuy \/ RaydiumSwap("buy", AmountIn)
    BY <1>3 DEF PumpFunBuy, PumpSwapBuy, RaydiumSwap
  <1>4. CASE Observe \/ Fail \/ CleanUp \/ UNCHANGED vars
    BY <1>4 DEF Observe, Fail, CleanUp, vars
  <1>5. ASSUME NEW stake \in Stakes, OthersBuy(stake) \/ OthersSell(stake)
        PROVE  AccountInv'
    BY <1>5 DEF OthersBuy, OthersSell
  <1> QED
    BY <1>1, <1>2, <1>3, <1>4, <1>5 DEF Next

\* Once a buy that was to create the account has failed, nothing the bot does for
\* that token ever lands.
THEOREM StrandedTokens == Spec => StrandedForGood
  <1>1. Init => AccountInv
    BY DEF Init, AccountInv
  <1>2. TInv /\ AccountInv /\ [Next]_vars => [Stranded => Stranded']_vars
    BY StrandedNext
  <1> QED
    BY <1>1, <1>2, AccountNext, TypeInvariant, PTL DEF Spec, StrandedForGood
=============================================================================
