------------------------------- MODULE BuyOnce -------------------------------
(***************************************************************************)
(* What the bot promises about buying a token twice, apart from how it     *)
(* trades.  Whoever asks to buy is cleared against the set of tokens       *)
(* bought so far; a token enters that set when one of its buys has been    *)
(* confirmed.  Clearing and confirming are separate steps, so two buys     *)
(* cleared before either is confirmed may both go through; a buy still to  *)
(* be cleared when the token is in the set never does.  The set lives as   *)
(* long as the process.                                                    *)
(***************************************************************************)
CONSTANTS Buys, Mints, NoMint

VARIABLES
    stage,   \* how far each buy has come
    token,   \* the token it is for
    bought   \* tokens known to have been bought

vars == <<stage, token, bought>>

Stages == {"new", "open", "cleared", "committed", "closed"}

Init ==
    /\ stage = [t \in Buys |-> "new"]
    /\ token = [t \in Buys |-> NoMint]
    /\ bought = {}

Become(t, from, to) == stage[t] = from /\ stage' = [stage EXCEPT ![t] = to]

\* Somebody wants to buy m.
Open(t, m) ==
    /\ Become(t, "new", "open")
    /\ token' = [token EXCEPT ![t] = m]
    /\ UNCHANGED bought

\* The token has not been bought before.
Clear(t) ==
    /\ Become(t, "open", "cleared")
    /\ token[t] \notin bought
    /\ UNCHANGED <<token, bought>>

\* From here on the buy may reach the chain.
Commit(t) ==
    /\ Become(t, "cleared", "committed")
    /\ UNCHANGED <<token, bought>>

\* Refused, or given up before anything was sent.
Close(t) ==
    /\ Become(t, "open", "closed") \/ Become(t, "cleared", "closed")
    /\ UNCHANGED <<token, bought>>

\* The buy is known to have succeeded.
Confirm(t) ==
    /\ stage[t] = "committed"
    /\ bought' = bought \cup {token[t]}
    /\ UNCHANGED <<stage, token>>

\* The process ends, and with it the set and everything not yet sent.
Forget ==
    /\ bought' = {}
    /\ stage' = [t \in Buys |->
                   IF stage[t] \in {"open", "cleared"} THEN "closed" ELSE stage[t]]
    /\ UNCHANGED token

Next ==
    \/ \E t \in Buys, m \in Mints : Open(t, m)
    \/ \E t \in Buys : Clear(t) \/ Commit(t) \/ Close(t) \/ Confirm(t)
    \/ Forget

Spec == Init /\ [][Next]_vars

-----------------------------------------------------------------------------
TypeOK ==
    /\ stage \in [Buys -> Stages]
    /\ token \in [Buys -> Mints \cup {NoMint}]
    /\ bought \subseteq Mints

\* A buy that has still to be cleared when its token is known to have been
\* bought is never committed, not even after the set is lost ("never rebuy",
\* for buys that do not overlap the one that succeeded).
NoLateBuy ==
    \A t \in Buys :
        [](stage[t] = "open" /\ token[t] \in bought => [](stage[t] # "committed"))
=============================================================================
