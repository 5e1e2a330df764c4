---------------------------- MODULE BuyOnceProofs ----------------------------
(***************************************************************************)
(* Theorems about BuyOnce, for any buys and any tokens.                    *)
(***************************************************************************)
EXTENDS BuyOnce, TLAPS

\* A buy that has left "new" has a token, so that what is confirmed is one.
TInv ==
    /\ TypeOK
    /\ \A t \in Buys : stage[t] # "new" => token[t] \in Mints

\* Stages, tokens and the set of tokens bought keep their types.
THEOREM TypeCorrect == Spec => []TInv
  <1>1. Init => TInv
    BY DEF Init, TInv, TypeOK, Stages
  <1>2. TInv /\ [Next]_vars => TInv'
    <2> SUFFICES ASSUME TInv, [Next]_vars
                 PROVE  TInv'
      OBVIOUS
    <2> USE DEF TInv, TypeOK, Stages, Become
    <2>1. ASSUME NEW t \in Buys, NEW m \in Mints, Open(t, m)
          PROVE  TInv'
      BY <2>1 DEF Open
    <2>2. ASSUME NEW t \in Buys, Clear(t) \/ Commit(t) \/ Close(t)
          PROVE  TInv'
      BY <2>2 DEF Clear, Commit, Close
    <2>3. ASSUME NEW t \in Buys, Confirm(t)
          PROVE  TInv'
      BY <2>3 DEF Confirm
    <2>4. CASE Forget
      BY <2>4 DEF Forget
    <2>5. CASE UNCHANGED vars
      BY <2>5 DEF vars
    <2> QED
      BY <2>1, <2>2, <2>3, <2>4, <2>5 DEF Next
  <1> QED
    BY <1>1, <1>2, PTL DEF Spec

\* Buys that are too late: refused by a check they have still to pass, or closed.
Late == {t \in Buys : \/ stage[t] = "open" /\ token[t] \in bought
                      \/ stage[t] = "closed"}

\* No step makes a late buy good: not even losing the set, which closes what is open.
LEMMA LateStays == TInv /\ [Next]_vars => Late \subseteq Late'
  <1> SUFFICES ASSUME TInv, [Next]_vars, NEW t \in Late
               PROVE  t \in Late'
    OBVIOUS
  <1> USE DEF TInv, TypeOK, Late, Become
  <1>1. ASSUME NEW u \in Buys, NEW m \in Mints, Open(u, m)
        PROVE  t \in Late'
    BY <1>1 DEF Open
  <1>2. ASSUME NEW u \in Buys, Clear(u) \/ Commit(u) \/ Close(u)
        PROVE  t \in Late'
    BY <1>2 DEF Clear, Commit, Close
  <1>3. ASSUME NEW u \in Buys, Confirm(u)
        PROVE  t \in Late'
    BY <1>3 DEF Confirm
  <1>4. CASE Forget
    BY <1>4 DEF Forget
  <1>5. CASE UNCHANGED vars
    BY <1>5 DEF vars
  <1> QED
    BY <1>1, <1>2, <1>3, <1>4, <1>5 DEF Next

\* A buy still to be cleared when its token is known to have been bought is
\* never committed, whatever happens to the set of tokens bought afterwards.
THEOREM NeverLate == Spec => NoLateBuy
  <1> SUFFICES ASSUME NEW t \in Buys
               PROVE  Spec => [](stage[t] = "open" /\ token[t] \in bought
                                    => [](stage[t] # "committed"))
    BY DEF NoLateBuy
  <1>1. stage[t] = "open" /\ token[t] \in bought => t \in Late
    BY DEF Late
  <1>2. TInv /\ t \in Late /\ [Next]_vars => (t \in Late)'
    BY LateStays
  <1>3. t \in Late => stage[t] # "committed"
    BY DEF Late
  <1> QED
    BY <1>1, <1>2, <1>3, TypeCorrect, PTL DEF Spec
=============================================================================
