--------------------------- MODULE MCStreamSession ---------------------------
(* An instance of StreamSession for TLC.                                    *)
EXTENDS StreamSession, TLC
=============================================================================
