------------------------------ MODULE TimedCache ------------------------------
(***************************************************************************)
(* What cache.rs promises: an account that is stored answers every look-up *)
(* until its time to live is over, and none from then on.  Nobody clears   *)
(* this cache out; time does.  A value is the time the account was read at.*)
(***************************************************************************)
EXTENDS Integers

CONSTANTS Keys, Tasks, TTL, Timeout

VARIABLES
    now,       \* the clock
    held,      \* what is held for each key
    age        \* how old each account a task last got was; None for not got

vars == <<now, held, age>>

None == -1
Nothing == [read |-> None, expires |-> None]

Init ==
    /\ now = 0
    /\ held = [k \in Keys |-> Nothing]
    /\ age = [t \in Tasks |-> [k \in Keys |-> None]]

\* A task gets what is held of the keys it names.
Get(t) ==
    /\ \E ks \in SUBSET Keys :
          age' = [age EXCEPT ![t] =
                    [k \in Keys |-> IF k \in ks /\ held[k] # Nothing
                                    THEN now - held[k].read ELSE None]]
    /\ UNCHANGED <<now, held>>

\* It stores, and gets, the accounts of one call to the node, which read them
\* when it pleased.
Put(t) ==
    /\ \E found \in SUBSET Keys, read \in (now - Timeout)..now :
          /\ held' = [k \in Keys |-> IF k \in found
                                     THEN [read |-> read, expires |-> now + TTL]
                                     ELSE held[k]]
          /\ age' = [age EXCEPT ![t] =
                       [k \in Keys |-> IF k \in found THEN now - read ELSE @[k]]]
    /\ UNCHANGED now

\* It is left with nothing.
Miss(t) ==
    /\ age' = [age EXCEPT ![t] = [k \in Keys |-> None]]
    /\ UNCHANGED <<now, held>>

\* What has outlived its time is gone.
Tick ==
    /\ now' = now + 1
    /\ held' = [k \in Keys |-> IF held[k] # Nothing /\ held[k].expires < now'
                               THEN Nothing ELSE held[k]]
    /\ UNCHANGED age

Next == Tick \/ \E t \in Tasks : Get(t) \/ Put(t) \/ Miss(t)

Spec == Init /\ [][Next]_vars
=============================================================================
