------------------------- MODULE BlockhashCacheProofs -------------------------
(***************************************************************************)
(* Theorems about BlockhashCache, for any number of tasks and any bounds:  *)
(* the two locks implement the cell of HashCell.  Nothing here needs the   *)
(* readers and the writers to make progress: the pair is coherent even     *)
(* when they have locked each other out.                                   *)
(***************************************************************************)
EXTENDS BlockhashCache, TLAPS

\* One writer at a time is between storing and stamping.
OneStores ==
    \A v, w \in Writers : pc[v] = "stored" /\ pc[w] = "stored" => v = w

\* That writer is one hash ahead of the stamp; otherwise the stamp belongs to
\* the latest hash.
StampFollows ==
    /\ PairCoherent
    /\ HashLocked => latest = stamped + 1
    /\ stamp = -1 <=> stamped = 0
    /\ stamp <= now

\* A caller under the stamp's lock waits for the stamped hash; a reader that has
\* one has the one it waited for.
Vouching ==
    /\ \A c \in Callers : pc[c] = "checked" => vouched[c] = stamped
    /\ AnswerVouched

HInv == TypeOK /\ OneStores /\ StampFollows /\ Vouching

\* Nothing is stored, stamped or answered at first.
LEMMA HashInit == Init => HInv
  BY BlockhashAssumption
  DEF Init, HInv, TypeOK, OneStores, StampFollows, Vouching, AnswerVouched,
      PairCoherent, HashLocked, Tasks, Callers, Writers, PC, Writing, Reading

\* Writers hold the hash from storing it until it is stamped; readers change
\* neither the pair nor who holds it.
LEMMA HashNext == HInv /\ [Next]_vars => HInv'
  <1> SUFFICES ASSUME HInv, [Next]_vars
               PROVE  HInv'
    OBVIOUS
  <1> USE BlockhashAssumption
      DEF HInv, TypeOK, OneStores, StampFollows, Vouching, AnswerVouched,
          PairCoherent, HashLocked, StampLocked, Tasks, Callers, Writers, PC,
          Writing, Reading, Goto
  <1>1. ASSUME NEW u \in Updaters, Fetch(u)
        PROVE  HInv'
    BY <1>1 DEF Fetch
  <1>2. ASSUME NEW w \in Writers, Store(w)
        PROVE  HInv'
    BY <1>2 DEF Store
  <1>3. ASSUME NEW w \in Writers, Stamp(w)
        PROVE  HInv'
    BY <1>3 DEF Stamp
  <1>4. ASSUME NEW c \in Callers, Check(c)
        PROVE  HInv'
    BY <1>4 DEF Check, Refused
  <1>5. ASSUME NEW c \in Callers, Answer(c)
        PROVE  HInv'
    BY <1>5 DEF Answer, Refused
  <1>6. ASSUME NEW c \in Fallbacks, AskNode(c)
        PROVE  HInv'
    BY <1>6 DEF AskNode
  <1>7. CASE Tick
    BY <1>7 DEF Tick
  <1>8. CASE UNCHANGED vars
    BY <1>8 DEF vars
  <1> QED
    BY <1>1, <1>2, <1>3, <1>4, <1>5, <1>6, <1>7, <1>8 DEF Next

\* The tasks, the locks and the clock keep their types.
THEOREM TypeCorrect == Spec => []TypeOK
  <1>1. HInv => TypeOK
    BY DEF HInv
  <1> QED
    BY <1>1, HashInit, HashNext, PTL DEF Spec

\* Whatever the writers and readers do, the hash a reader may see is the one
\* the timestamp was written for.
THEOREM PairIsCoherent == Spec => []PairCoherent
  <1>1. HInv => PairCoherent
    BY DEF HInv, StampFollows
  <1> QED
    BY <1>1, HashInit, HashNext, PTL DEF Spec

\* A reader of get_latest_blockhash that ends up with a hash has the one whose
\* age it checked.
THEOREM AnswersAreVouched == Spec => []AnswerVouched
  <1>1. HInv => AnswerVouched
    BY DEF HInv, Vouching
  <1> QED
    BY <1>1, HashInit, HashNext, PTL DEF Spec

-----------------------------------------------------------------------------
(* The cell behind the two locks.                                           *)

\* At first the cell is empty.
LEMMA CellInit == Init => Cell!Init
  BY BlockhashAssumption DEF Init, Cell!Init, Tasks

\* A writer changes the cell when it stamps, a caller reads it when it checks
\* the age; every other step leaves cell and callers as they are.
LEMMA CellNext == HInv /\ HInv' /\ [Next]_vars => [Cell!Next]_(Cell!vars)
  <1> SUFFICES ASSUME HInv, HInv', [Next]_vars
               PROVE  [Cell!Next]_(Cell!vars)
    OBVIOUS
  <1> USE BlockhashAssumption
      DEF HInv, TypeOK, StampFollows, PairCoherent, HashLocked, Tasks, Callers,
          Writers, PC, Writing, Reading, Goto
  <1> DEFINE Got == [c \in Callers |->
                        IF pc[c] = "checked" THEN vouched[c] ELSE answer[c]]
  <1>1. ASSUME NEW u \in Updaters, Fetch(u)
        PROVE  UNCHANGED Cell!vars
    BY <1>1 DEF Fetch, Cell!vars
  <1>2. ASSUME NEW w \in Writers, Store(w)
        PROVE  UNCHANGED Cell!vars
    BY <1>2 DEF Store, Cell!vars
  <1>3. ASSUME NEW w \in Writers, Stamp(w)
        PROVE  Cell!Next
    <2>1. Cell!Replace
      BY <1>3 DEF Stamp, Cell!Replace
    <2>2. CASE w \in Fallbacks
      <3>1. Got' = [Got EXCEPT ![w] = stamped + 1]
        BY <1>3, <2>2 DEF Stamp
      <3> QED
        BY <1>3, <2>1, <2>2, <3>1 DEF Stamp, Cell!PutOwn, Cell!Next
    <2>3. CASE w \notin Fallbacks
      <3>1. Got' = Got
        BY <1>3, <2>3 DEF Stamp
      <3> QED
        BY <1>3, <2>1, <3>1 DEF Stamp, Cell!Put, Cell!Next
    <2> QED
      BY <2>2, <2>3
  <1>4. ASSUME NEW c \in Callers, Check(c)
        PROVE  Cell!Next
    <2>1. Got' = [Got EXCEPT ![c] = IF now - stamp > Threshold THEN 0 ELSE stamped]
      BY <1>4 DEF Check, Refused
    <2> QED
      BY <1>4, <2>1 DEF Check, Cell!Read, Cell!Next
  <1>5. ASSUME NEW c \in Callers, Answer(c)
        PROVE  UNCHANGED Cell!vars
    <2>1. vouched[c] = latest
      BY <1>5 DEF Answer, Vouching
    <2>2. Got' = Got
      BY <1>5, <2>1 DEF Answer, Refused
    <2> QED
      BY <1>5, <2>2 DEF Answer, Cell!vars
  <1>6. ASSUME NEW c \in Fallbacks, AskNode(c)
        PROVE  UNCHANGED Cell!vars
    BY <1>6 DEF AskNode, Cell!vars
  <1>7. CASE Tick
    BY <1>7 DEF Tick, Cell!Tick, Cell!Next
  <1>8. CASE UNCHANGED vars
    BY <1>8 DEF vars, Cell!vars
  <1> QED
    BY <1>1, <1>2, <1>3, <1>4, <1>5, <1>6, <1>7, <1>8 DEF Next

\* The two locks implement one atomic cell of a hash and its time: however many
\* readers and writers interleave, each answer is that of one atomic read.
THEOREM LocksMakeACell == Spec => ReadsAtomically
  <1> QED
    BY CellInit, CellNext, HashInit, HashNext, PTL
    DEF Spec, ReadsAtomically, Cell!Spec

-----------------------------------------------------------------------------
(* The embrace.                                                             *)

\* A writer and a caller that hold one lock each and wait for the other's wait
\* for ever, and everybody with them, however many tasks there are.
THEOREM EmbracesAreFinal == Spec => EmbraceFinal
  <1> DEFINE Stuck == /\ Embrace'
                      /\ UNCHANGED <<latest, stamp>>
                      /\ \A c \in Callers : answer'[c] \in {answer[c], 0}
  <1>1. ASSUME HInv, [Next]_vars, Embrace
        PROVE  Stuck
    <2> USE <1>1, BlockhashAssumption
        DEF HInv, TypeOK, Embrace, HashLocked, StampLocked, Tasks, Callers,
            Writers, PC, Writing, Reading, Goto
    <2>1. ASSUME NEW u \in Updaters, Fetch(u)
          PROVE  Stuck
      BY <2>1 DEF Fetch
    <2>2. ASSUME NEW w \in Writers, Store(w) \/ Stamp(w)
          PROVE  Stuck
      BY <2>2 DEF Store, Stamp
    <2>3. ASSUME NEW c \in Callers, Check(c) \/ Answer(c)
          PROVE  Stuck
      BY <2>3 DEF Check, Answer, Refused
    <2>4. ASSUME NEW c \in Fallbacks, AskNode(c)
          PROVE  Stuck
      BY <2>4 DEF AskNode
    <2>5. CASE Tick
      BY <2>5 DEF Tick
    <2>6. CASE UNCHANGED vars
      BY <2>6 DEF vars
    <2> QED
      BY <2>1, <2>2, <2>3, <2>4, <2>5, <2>6 DEF Next
  <1>2. HInv /\ [Next]_vars => [Embrace => Stuck]_vars
    BY <1>1
  <1> QED
    BY <1>2, HashInit, HashNext, PTL DEF Spec, EmbraceFinal
=============================================================================
