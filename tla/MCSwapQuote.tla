----------------------------- MODULE MCSwapQuote -----------------------------
(* Instances of SwapQuote for TLC.                                          *)
EXTENDS SwapQuote

\* The bot holds what two buys get it at most.
SmallPosition == held <= 4
=============================================================================
