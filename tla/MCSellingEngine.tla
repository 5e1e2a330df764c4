--------------------------- MODULE MCSellingEngine ---------------------------
(* An instance of SellingEngine for TLC.                                    *)
EXTENDS SellingEngine

\* A percentage of the default configuration; a .cfg file has no negative numbers.
DefaultStopLoss == -30
=============================================================================
