------------------------------- MODULE TtlCache -------------------------------
(***************************************************************************)
(* The caches of on-chain accounts (src/src/common/cache.rs) with the      *)
(* functions that read through them (src/src/core/token.rs) and the task   *)
(* that clears them out.  TOKEN_ACCOUNT_CACHE and TOKEN_MINT_CACHE are the *)
(* same code with different times to live; this is either of them.         *)
(*                                                                         *)
(* The lock of a cache is held for one look-up or one write and never over *)
(* a call to the node, so a step is one such piece of code.  What is       *)
(* stored is the account as the node saw it: a value is the time it was    *)
(* read at.                                                                *)
(***************************************************************************)
EXTENDS Integers, FiniteSets

CONSTANTS
    Keys,      \* account addresses
    Tasks,     \* whoever looks accounts up
    TTL,       \* default_ttl, in ticks
    Timeout,   \* how long the client waits for the node
    MaxTime    \* bound on the clock

ASSUME CacheAssumption ==
    /\ TTL \in Nat /\ Timeout \in Nat /\ MaxTime \in Nat

VARIABLES
    now,       \* the clock
    entries,   \* what is cached for each key
    pc,        \* where each task stands
    missing,   \* the keys a task has to ask the node for
    asked,     \* when it asked
    reply,     \* when the node read the accounts, once it has
    age        \* how old each account a task last got was; None for not got

vars == <<now, entries, pc, missing, asked, reply, age>>

None == -1
Entry == [read : Nat, expires : Nat]
NoEntry == [read |-> None, expires |-> None]

TypeOK ==
    /\ now \in Nat
    /\ entries \in [Keys -> Entry \cup {NoEntry}]
    /\ pc \in [Tasks -> {"idle", "asked", "replied"}]
    /\ missing \in [Tasks -> SUBSET Keys]
    /\ asked \in [Tasks -> Nat] /\ reply \in [Tasks -> Nat]
    /\ age \in [Tasks -> [Keys -> Nat \cup {None}]]

Init ==
    /\ now = 0
    /\ entries = [k \in Keys |-> NoEntry]
    /\ pc = [t \in Tasks |-> "idle"]
    /\ missing = [t \in Tasks |-> {}]
    /\ asked = [t \in Tasks |-> 0] /\ reply = [t \in Tasks |-> 0]
    /\ age = [t \in Tasks |-> [k \in Keys |-> None]]

Cached(k) == entries[k] # NoEntry
Expired(k) == now > entries[k].expires
Fresh(k) == Cached(k) /\ ~Expired(k)

\* The task has its answer, or an error.
Return(t) ==
    /\ pc' = [pc EXCEPT ![t] = "idle"]
    /\ missing' = [missing EXCEPT ![t] = {}]
    /\ asked' = [asked EXCEPT ![t] = 0]
    /\ reply' = [reply EXCEPT ![t] = 0]

-----------------------------------------------------------------------------
(* Looking up.                                                              *)

\* (mutant of Lookup: a hit keeps the entry alive)
LookupKeeps(t, ks) ==
    /\ pc[t] = "idle" /\ ks # {}
    /\ entries' = [k \in Keys |-> IF k \in ks /\ Fresh(k)
                                  THEN [entries[k] EXCEPT !.expires = now + TTL]
                                  ELSE entries[k]]
    /\ age' = [age EXCEPT ![t] =
                 [k \in Keys |-> IF k \in ks /\ Fresh(k)
                                 THEN now - entries[k].read ELSE None]]
    /\ IF \A k \in ks : Fresh(k)
       THEN UNCHANGED <<pc, missing, asked, reply>>
       ELSE /\ pc' = [pc EXCEPT ![t] = "asked"]
            /\ missing' = [missing EXCEPT ![t] = {k \in ks : ~Fresh(k)}]
            /\ asked' = [asked EXCEPT ![t] = now]
            /\ UNCHANGED reply
    /\ UNCHANGED now

\* A fresh entry answers; the node is asked for the rest, in one call.  (One
\* key for get_account_info and get_mint_info, several for the batch calls.)
Lookup(t, ks) ==
    /\ pc[t] = "idle" /\ ks # {}
    /\ age' = [age EXCEPT ![t] =
                 [k \in Keys |-> IF k \in ks /\ Fresh(k)
                                 THEN now - entries[k].read ELSE None]]
    /\ IF \A k \in ks : Fresh(k)
       THEN UNCHANGED <<pc, missing, asked, reply>>
       ELSE /\ pc' = [pc EXCEPT ![t] = "asked"]
            /\ missing' = [missing EXCEPT ![t] = {k \in ks : ~Fresh(k)}]
            /\ asked' = [asked EXCEPT ![t] = now]
            /\ UNCHANGED reply
    /\ UNCHANGED <<now, entries>>

\* The node takes the accounts as they are now; the answer is on its way.
NodeReads(t) ==
    /\ pc[t] = "asked"
    /\ pc' = [pc EXCEPT ![t] = "replied"]
    /\ reply' = [reply EXCEPT ![t] = now]
    /\ UNCHANGED <<now, entries, missing, asked, age>>

\* (mutant of Fill: accounts that do not exist are cached as well)
FillNegative(t) ==
    /\ pc[t] = "replied"
    /\ \E found \in SUBSET missing[t] :
          /\ entries' = [k \in Keys |->
                           IF k \in missing[t]
                           THEN [read |-> IF k \in found THEN reply[t] ELSE None,
                                 expires |-> now + TTL]
                           ELSE entries[k]]
          /\ age' = [age EXCEPT ![t] =
                       [k \in Keys |-> IF k \in found THEN now - reply[t] ELSE @[k]]]
    /\ Return(t)
    /\ UNCHANGED now

\* What exists, belongs to the token program and can be unpacked is cached, and
\* lives from now on, not from when the node read it.
Fill(t) ==
    /\ pc[t] = "replied"
    /\ \E found \in SUBSET missing[t] :
          /\ entries' = [k \in Keys |->
                           IF k \in found
                           THEN [read |-> reply[t], expires |-> now + TTL]
                           ELSE entries[k]]
          /\ age' = [age EXCEPT ![t] =
                       [k \in Keys |-> IF k \in found THEN now - reply[t] ELSE @[k]]]
    /\ Return(t)
    /\ UNCHANGED now

\* The call fails or takes too long: nothing is answered, not even what the
\* cache had.
Fail(t) ==
    /\ pc[t] \in {"asked", "replied"}
    /\ age' = [age EXCEPT ![t] = [k \in Keys |-> None]]
    /\ Return(t)
    /\ UNCHANGED <<now, entries>>

-----------------------------------------------------------------------------
(* Time, and the task that clears the cache out.                            *)

\* (mutant of ClearExpired: the boundary is taken differently than in get)
ClearEarly ==
    /\ entries' = [k \in Keys |-> IF now >= entries[k].expires THEN NoEntry
                                  ELSE entries[k]]
    /\ UNCHANGED <<now, pc, missing, asked, reply, age>>

\* clear_expired, once a minute.
ClearExpired ==
    /\ entries' = [k \in Keys |-> IF Expired(k) THEN NoEntry ELSE entries[k]]
    /\ UNCHANGED <<now, pc, missing, asked, reply, age>>

\* (mutant of Tick: the client waits for the node as long as it takes)
TickUntimed ==
    /\ now < MaxTime
    /\ now' = now + 1
    /\ UNCHANGED <<entries, pc, missing, asked, reply, age>>

\* The client gives up at its timeout: no answer is older.
Tick ==
    /\ now < MaxTime
    /\ \A t \in Tasks : pc[t] # "idle" => now < asked[t] + Timeout
    /\ now' = now + 1
    /\ UNCHANGED <<entries, pc, missing, asked, reply, age>>

Next ==
    \/ \E t \in Tasks, ks \in SUBSET Keys : Lookup(t, ks)
    \/ \E t \in Tasks : NodeReads(t) \/ Fill(t) \/ Fail(t)
    \/ ClearExpired
    \/ Tick

Spec == Init /\ [][Next]_vars

-----------------------------------------------------------------------------
\* No account that is handed out is older than the time to live and the longest
\* call to the node together: the two add up, since an entry's life starts when
\* it is stored and not when it was read.
AgeBounded == \A t \in Tasks, k \in Keys : age[t][k] <= TTL + Timeout

\* An entry that would still have answered may be replaced but is never lost.
NeverLost == [][\A k \in Keys : Fresh(k) => entries'[k] # NoEntry]_vars

\* What a look-up finds is a cache in which time alone ends an entry.
Timed == INSTANCE TimedCache
    WITH held <- [k \in Keys |-> IF Fresh(k) THEN entries[k] ELSE NoEntry]

\* The task that clears the cache cannot be told from the clock: whenever it
\* runs, and however many tasks look up and store meanwhile, each entry answers
\* until its time is over, boundary included, and not a moment longer.
ExpiresOnTime == Timed!Spec

\* Two tasks may miss the same key and store their answers in either order, so
\* a cached account can go back in time; never by more than a call to the node.
RegressBounded ==
    [][\A k \in Keys : Cached(k) /\ entries'[k] # NoEntry
                          => entries'[k].read + Timeout >= entries[k].read]_vars
=============================================================================
