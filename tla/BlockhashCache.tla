---------------------------- MODULE BlockhashCache ----------------------------
(***************************************************************************)
(* The blockhash every transaction is built on                             *)
(* (src/src/services/blockhash_processor.rs): a task that fetches one      *)
(* every 300 ms and the callers that read it.  The hash and its timestamp  *)
(* are two tokio RwLocks.  A writer takes LATEST_BLOCKHASH, stores, then   *)
(* takes BLOCKHASH_LAST_UPDATED and stamps, holding both until it is done; *)
(* a reader takes BLOCKHASH_LAST_UPDATED, checks the age, then takes       *)
(* LATEST_BLOCKHASH.  Who holds a lock shows in pc: a writer at "stored"   *)
(* write-holds the hash, a reader at "checked" read-holds the stamp.       *)
(*                                                                         *)
(* A lock is taken when nobody holds it against the caller; that tokio     *)
(* makes new readers queue behind a waiting writer is left out, so a       *)
(* reader may overtake one here.                                           *)
(***************************************************************************)
EXTENDS Integers, FiniteSets

CONSTANTS
    Updaters,      \* the background task
    Readers,       \* callers of get_latest_blockhash
    Fallbacks,     \* callers of get_fresh_blockhash
    Threshold,     \* BLOCKHASH_STALENESS_THRESHOLD, in ticks
    MaxTime,       \* bound on the clock
    MaxStores      \* bound on the hashes stored

Callers == Readers \cup Fallbacks
Writers == Updaters \cup Fallbacks
Tasks == Updaters \cup Callers

ASSUME BlockhashAssumption ==
    /\ Updaters \cap Callers = {} /\ Readers \cap Fallbacks = {}
    /\ Threshold \in Nat /\ MaxTime \in Nat /\ MaxStores \in Nat

VARIABLES
    pc,        \* where each task stands
    now,       \* the clock
    latest,    \* LATEST_BLOCKHASH: which store it holds, 0 for None
    stamp,     \* BLOCKHASH_LAST_UPDATED: the time, -1 for None
    stamped,   \* (history) the store that timestamp was written for
    vouched,   \* (history) the store a caller's age check vouched for
    answer     \* what a caller last got, 0 for None

vars == <<pc, now, latest, stamp, stamped, vouched, answer>>

Writing == {"idle", "fetched", "stored"}
Reading == {"idle", "checked"}
PC == Writing \cup Reading \cup {"fallback"}

TypeOK ==
    /\ pc \in [Tasks -> PC]
    /\ \A u \in Updaters : pc[u] \in Writing
    /\ \A r \in Readers : pc[r] \in Reading
    /\ now \in Nat
    /\ latest \in Nat /\ stamped \in Nat
    /\ stamp \in Nat \cup {-1}
    /\ vouched \in [Callers -> Nat]
    /\ answer \in [Callers -> Nat]

Init ==
    /\ pc = [t \in Tasks |-> "idle"]
    /\ now = 0
    /\ latest = 0 /\ stamp = -1 /\ stamped = 0
    /\ vouched = [c \in Callers |-> 0]
    /\ answer = [c \in Callers |-> 0]

Goto(t, from, to) == pc[t] = from /\ pc' = [pc EXCEPT ![t] = to]

\* The locks of others that keep a task out.
HashLocked == \E w \in Writers : pc[w] = "stored"
StampLocked == \E c \in Callers : pc[c] = "checked"

-----------------------------------------------------------------------------
(* Writing: the loop of start, and update_blockhash.                        *)

\* The RPC node answers the background task.
Fetch(u) ==
    /\ Goto(u, "idle", "fetched")
    /\ UNCHANGED <<now, latest, stamp, stamped, vouched, answer>>

\* The hash is stored; the write lock is kept.
Store(w) ==
    /\ latest < MaxStores
    /\ Goto(w, "fetched", "stored")
    /\ ~HashLocked
    /\ latest' = latest + 1
    /\ UNCHANGED <<now, stamp, stamped, vouched, answer>>

\* (mutant of Stamp: a writer does not wait for a reader to let go of the stamp)
StampIfFree(w) ==
    /\ Goto(w, "stored", "idle")
    /\ IF StampLocked THEN UNCHANGED <<stamp, stamped>>
                      ELSE stamp' = now /\ stamped' = latest
    /\ answer' = IF w \in Fallbacks THEN [answer EXCEPT ![w] = latest] ELSE answer
    /\ UNCHANGED <<now, latest, vouched>>

\* The time is written and both locks are released.
Stamp(w) ==
    /\ Goto(w, "stored", "idle")
    /\ ~StampLocked
    /\ stamp' = now
    /\ stamped' = latest
    /\ answer' = IF w \in Fallbacks THEN [answer EXCEPT ![w] = latest] ELSE answer
    /\ UNCHANGED <<now, latest, vouched>>

-----------------------------------------------------------------------------
(* Reading: get_latest_blockhash, and get_fresh_blockhash on top of it.     *)

\* (mutant of Refused: everyone asks the node)
RefusedAsks(c) ==
    /\ Goto(c, pc[c], "fallback")
    /\ answer' = [answer EXCEPT ![c] = 0]

\* What a caller does with None: a reader gives up, a fallback asks the node.
Refused(c) ==
    /\ Goto(c, pc[c], IF c \in Fallbacks THEN "fallback" ELSE "idle")
    /\ answer' = [answer EXCEPT ![c] = 0]

\* The age of the stamp, under its read lock.  Without a stamp nothing is
\* checked.
Check(c) ==
    /\ pc[c] = "idle"
    /\ IF stamp # -1 /\ now - stamp > Threshold
       THEN Refused(c) /\ UNCHANGED vouched
       ELSE /\ Goto(c, "idle", "checked")
            /\ vouched' = [vouched EXCEPT ![c] = stamped]
            /\ UNCHANGED answer
    /\ UNCHANGED <<now, latest, stamp, stamped>>

\* (mutant of Answer: a caller that has a hash keeps it)
AnswerAgain(c) ==
    /\ pc[c] = "checked"
    /\ ~HashLocked
    /\ Goto(c, "checked", "idle")
    /\ answer' = [answer EXCEPT ![c] = IF @ = 0 THEN latest ELSE @]
    /\ UNCHANGED <<now, latest, stamp, stamped, vouched>>

\* The hash, under both read locks.
Answer(c) ==
    /\ pc[c] = "checked"
    /\ ~HashLocked
    /\ IF latest = 0
       THEN Refused(c)
       ELSE Goto(c, "checked", "idle") /\ answer' = [answer EXCEPT ![c] = latest]
    /\ UNCHANGED <<now, latest, stamp, stamped, vouched>>

\* get_fresh_blockhash asks the node itself and stores what it gets, or fails.
AskNode(c) ==
    /\ \E to \in {"fetched", "idle"} : Goto(c, "fallback", to)
    /\ UNCHANGED <<now, latest, stamp, stamped, vouched, answer>>

Tick ==
    /\ now < MaxTime
    /\ now' = now + 1
    /\ UNCHANGED <<pc, latest, stamp, stamped, vouched, answer>>

Next ==
    \/ \E u \in Updaters : Fetch(u)
    \/ \E w \in Writers : Store(w) \/ Stamp(w)
    \/ \E c \in Callers : Check(c) \/ Answer(c)
    \/ \E c \in Fallbacks : AskNode(c)
    \/ Tick

Spec == Init /\ [][Next]_vars

-----------------------------------------------------------------------------
\* Once some hash has been stamped, the stamp belongs to the hash a reader of
\* both would see: the pair is never torn, however many writers there are.
PairCoherent == ~HashLocked => stamped = latest

\* A reader gets the very hash whose age it checked, though the two are behind
\* different locks: nobody stamps another one while it waits for the hash.
AnswerVouched ==
    \A r \in Readers : pc[r] = "idle" /\ answer[r] # 0 => answer[r] = vouched[r]

\* What callers see of the two locks is one cell.  It changes when a writer
\* stamps; a caller reads it when its age check passes, and what it will get is
\* settled there.
Cell == INSTANCE HashCell
    WITH hash <- stamped,
         time <- stamp,
         got  <- [c \in Callers |->
                    IF pc[c] = "checked" THEN vouched[c] ELSE answer[c]]

\* Storing, stamping, checking the age and taking the hash are four steps under
\* two locks that tasks interleave, and yet every caller gets what one atomic
\* read of a hash and its time would have given it, at one moment of its call:
\* "Get the latest cached blockhash with freshness check".
ReadsAtomically == Cell!Spec

\* A writer holds the hash while a caller holds the stamp: each waits for the
\* lock the other has.
Embrace == HashLocked /\ StampLocked

\* "Get the latest cached blockhash with freshness check" is not to be had again
\* once a writer and a caller have embraced: they never let go, no new hash is
\* ever stored or stamped, and no caller gets anything but None any more.
EmbraceFinal ==
    [][Embrace => /\ Embrace'
                  /\ UNCHANGED <<latest, stamp>>
                  /\ \A c \in Callers : answer'[c] \in {answer[c], 0}]_vars
=============================================================================
