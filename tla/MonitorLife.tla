----------------------------- MODULE MonitorLife ------------------------------
(***************************************************************************)
(* The life of the monitors of tokens, as far as the trading core and the  *)
(* streams under it have to agree on it: CopyTrading leaves the stream of  *)
(* a monitor out, StreamSession leaves out what a monitor does with it,    *)
(* and each of them implements this.                                       *)
(***************************************************************************)

CONSTANT Monitors

VARIABLES
    life,       \* how far each monitor has come
    cancelled   \* monitors whose CancellationToken has been cancelled

vars == <<life, cancelled>>

Init ==
    /\ life = [m \in Monitors |-> "off"]
    /\ cancelled = {}

Become(m, from, to) ==
    /\ life[m] \in from
    /\ life' = [life EXCEPT ![m] = to]
    /\ UNCHANGED cancelled

\* setup_selling_strategy spawns the monitor of a buy, once.
Start(m) == Become(m, {"off"}, "starting")

\* Its stream is open, and it enters its loop, once.
Watch(m) == Become(m, {"starting"}, "watching")

\* An error or the end of the stream ends it at any time; cancellation is one
\* reason among others.
End(m) == Become(m, {"starting", "watching"}, "ended")

\* Its token is cancelled.  That alone does not end it.
Cancel(m) ==
    /\ life[m] # "off"
    /\ cancelled' = cancelled \cup {m}
    /\ UNCHANGED life

\* The process dies, and every monitor with it.
Die ==
    /\ life' = [m \in Monitors |-> IF life[m] = "off" THEN "off" ELSE "ended"]
    /\ UNCHANGED cancelled

Next == Die \/ \E m \in Monitors : Start(m) \/ Watch(m) \/ End(m) \/ Cancel(m)

Spec == Init /\ [][Next]_vars
=============================================================================
