------------------------------- MODULE HashCell -------------------------------
(***************************************************************************)
(* What blockhash_processor.rs promises its callers: one cell that holds a *)
(* hash together with the time it was put there, replaced and read in one  *)
(* step each.  A hash stands for the number of the put that brought it, so *)
(* 0 is None.                                                              *)
(***************************************************************************)
EXTENDS Integers

CONSTANTS
    Callers,       \* who reads the cell
    Fallbacks,     \* the callers that also put a hash of their own
    Threshold      \* the greatest age of a hash that is given out

VARIABLES
    now,           \* the clock
    hash,          \* the hash in the cell
    time,          \* when it was put there, -1 for never
    got            \* what each caller last got, 0 for None

vars == <<now, hash, time, got>>

Init ==
    /\ now = 0
    /\ hash = 0 /\ time = -1
    /\ got = [c \in Callers |-> 0]

\* The next hash and the time of its arrival, always together.
Replace == hash' = hash + 1 /\ time' = now

\* The background task puts a hash.
Put == Replace /\ UNCHANGED <<now, got>>

\* A caller that was given none puts one and leaves with it.
PutOwn(c) ==
    /\ Replace
    /\ got' = [got EXCEPT ![c] = hash + 1]
    /\ UNCHANGED now

\* A caller gets the very hash whose age it is judged by, or None when that is
\* too old.
Read(c) ==
    /\ got' = [got EXCEPT ![c] = IF now - time > Threshold THEN 0 ELSE hash]
    /\ UNCHANGED <<now, hash, time>>

Tick == now' = now + 1 /\ UNCHANGED <<hash, time, got>>

Next ==
    \/ Put \/ Tick
    \/ \E c \in Callers : Read(c)
    \/ \E c \in Fallbacks : PutOwn(c)

Spec == Init /\ [][Next]_vars
=============================================================================
