---------------------------- MODULE TtlCacheProofs ----------------------------
(***************************************************************************)
(* Theorems about TtlCache, for any keys, tasks and times.                 *)
(***************************************************************************)
EXTENDS TtlCache, TLAPS

\* What is cached was read in the past and dies in time; what is on its way was
\* read after it was asked for, and asked for no longer ago than the timeout.
CInv ==
    /\ TypeOK
    /\ AgeBounded
    /\ \A k \in Keys : Cached(k) =>
          /\ entries[k].read <= now
          /\ entries[k].expires <= entries[k].read + TTL + Timeout
    /\ \A t \in Tasks :
          /\ pc[t] # "idle" => asked[t] <= now /\ now <= asked[t] + Timeout
          /\ pc[t] = "replied" => asked[t] <= reply[t] /\ reply[t] <= now

\* Nothing is cached at first.
LEMMA CacheInit == Init => CInv
  BY CacheAssumption
  DEF Init, CInv, TypeOK, AgeBounded, Cached, None, NoEntry

\* A fresh entry is young enough to be handed out.
LEMMA FreshIsYoung ==
    ASSUME CInv, NEW k \in Keys, Fresh(k)
    PROVE  now - entries[k].read \in Nat /\ now - entries[k].read <= TTL + Timeout
  <1>1. entries[k] \in Entry
    BY DEF CInv, TypeOK, Fresh, Cached
  <1>2. /\ entries[k].read \in Nat /\ entries[k].expires \in Nat /\ now \in Nat
        /\ entries[k].read <= now /\ now <= entries[k].expires
        /\ entries[k].expires <= entries[k].read + TTL + Timeout
    BY <1>1 DEF CInv, TypeOK, Fresh, Cached, Expired, Entry
  <1> QED
    BY <1>2, CacheAssumption

\* A look-up hands out fresh entries, and asks for the rest now.
LEMMA CacheLookup ==
    ASSUME CInv, NEW t \in Tasks, NEW ks \in SUBSET Keys, Lookup(t, ks)
    PROVE  CInv'
  <1> USE CacheAssumption
  <1> DEFINE got == [k \in Keys |-> IF k \in ks /\ Fresh(k)
                                    THEN now - entries[k].read ELSE None]
  <1>1. /\ got \in [Keys -> Nat \cup {None}]
        /\ \A k \in Keys : got[k] <= TTL + Timeout
    BY FreshIsYoung DEF None
  <1>2. age' = [age EXCEPT ![t] = got] /\ UNCHANGED <<now, entries, reply>>
    BY DEF Lookup
  <1>3. age' \in [Tasks -> [Keys -> Nat \cup {None}]] /\ AgeBounded'
    <2> HIDE DEF got
    <2> QED
      BY <1>1, <1>2 DEF CInv, TypeOK, AgeBounded
  <1>4. CASE \A k \in ks : Fresh(k)
    BY <1>2, <1>3, <1>4 DEF Lookup, CInv, TypeOK, Cached
  <1>5. CASE ~\A k \in ks : Fresh(k)
    <2>1. /\ pc' = [pc EXCEPT ![t] = "asked"]
          /\ missing' = [missing EXCEPT ![t] = {k \in ks : ~Fresh(k)}]
          /\ asked' = [asked EXCEPT ![t] = now]
      BY <1>5 DEF Lookup
    <2> QED
      BY <1>2, <1>3, <2>1 DEF CInv, TypeOK, Cached
  <1> QED
    BY <1>4, <1>5

\* An answer is as old as the call at most, and so is what is stored of it.
LEMMA CacheFill ==
    ASSUME CInv, NEW t \in Tasks, Fill(t)
    PROVE  CInv'
  <1> USE CacheAssumption
  <1>1. PICK found \in SUBSET missing[t] :
          /\ entries' = [k \in Keys |->
                           IF k \in found
                           THEN [read |-> reply[t], expires |-> now + TTL]
                           ELSE entries[k]]
          /\ age' = [age EXCEPT ![t] =
                       [k \in Keys |-> IF k \in found THEN now - reply[t] ELSE @[k]]]
    BY DEF Fill
  <1>2. /\ now \in Nat /\ reply[t] \in Nat /\ asked[t] \in Nat
        /\ reply[t] <= now /\ now <= reply[t] + Timeout
    BY DEF Fill, CInv, TypeOK
  <1>3. entries' \in [Keys -> Entry \cup {NoEntry}]
    BY <1>1, <1>2 DEF CInv, TypeOK, Entry
  <1>4. /\ age' \in [Tasks -> [Keys -> Nat \cup {None}]]
        /\ AgeBounded'
    BY <1>1, <1>2 DEF CInv, TypeOK, AgeBounded, None
  <1>5. \A k \in Keys : Cached(k)' =>
          /\ entries'[k].read <= now
          /\ entries'[k].expires <= entries'[k].read + TTL + Timeout
    BY <1>1, <1>2 DEF CInv, TypeOK, Cached, Entry, NoEntry
  <1> QED
    BY <1>3, <1>4, <1>5 DEF Fill, Return, CInv, TypeOK

\* Every step keeps what is cached and what was answered within its age.
LEMMA CacheNext == CInv /\ [Next]_vars => CInv'
  <1> SUFFICES ASSUME CInv, [Next]_vars
               PROVE  CInv'
    OBVIOUS
  <1> USE CacheAssumption DEF CInv, TypeOK, Cached, AgeBounded
  <1>1. ASSUME NEW t \in Tasks, NEW ks \in SUBSET Keys, Lookup(t, ks)
        PROVE  CInv'
    BY <1>1, CacheLookup
  <1>2. ASSUME NEW t \in Tasks, NodeReads(t)
        PROVE  CInv'
    <2>1. /\ reply' = [reply EXCEPT ![t] = now]
          /\ pc' = [pc EXCEPT ![t] = "replied"]
          /\ UNCHANGED <<now, entries, missing, asked, age>>
      BY <1>2 DEF NodeReads
    <2>2. TypeOK' /\ AgeBounded'
      BY <2>1
    <2>3. \A k \in Keys : Cached(k)' =>
             /\ entries'[k].read <= now'
             /\ entries'[k].expires <= entries'[k].read + TTL + Timeout
      BY <2>1
    <2>4. \A u \in Tasks :
             /\ pc'[u] # "idle" => asked'[u] <= now' /\ now' <= asked'[u] + Timeout
             /\ pc'[u] = "replied" => asked'[u] <= reply'[u] /\ reply'[u] <= now'
      <3>1. pc[t] = "asked" /\ asked[t] <= now /\ now <= asked[t] + Timeout
        BY <1>2 DEF NodeReads
      <3>2. now \in Nat /\ asked[t] \in Nat
        OBVIOUS
      <3> QED
        BY <2>1, <3>1, <3>2
    <2> QED
      BY <2>2, <2>3, <2>4
  <1>3. ASSUME NEW t \in Tasks, Fill(t)
        PROVE  CInv'
    BY <1>3, CacheFill
  <1>4. ASSUME NEW t \in Tasks, Fail(t)
        PROVE  CInv'
    BY <1>4 DEF Fail, Return, None
  <1>5. CASE ClearExpired
    BY <1>5 DEF ClearExpired
  <1>6. CASE Tick
    <2>1. /\ now' = now + 1
          /\ UNCHANGED <<entries, pc, missing, asked, reply, age>>
      BY <1>6 DEF Tick
    <2>2. TypeOK' /\ AgeBounded'
      BY <2>1
    <2>3. ASSUME NEW k \in Keys, Cached(k)'
          PROVE  /\ entries'[k].read <= now'
                 /\ entries'[k].expires <= entries'[k].read + TTL + Timeout
      <3>1. entries[k] \in Entry /\ entries' = entries
        BY <2>1, <2>3
      <3>2. entries[k].read \in Nat
        BY <3>1 DEF Entry
      <3> QED
        BY <2>1, <2>3, <3>1, <3>2
    <2>4. \A u \in Tasks :
             /\ pc'[u] # "idle" => asked'[u] <= now' /\ now' <= asked'[u] + Timeout
             /\ pc'[u] = "replied" => asked'[u] <= reply'[u] /\ reply'[u] <= now'
      BY <1>6, <2>1 DEF Tick
    <2> QED
      BY <2>2, <2>3, <2>4
  <1>7. CASE UNCHANGED vars
    BY <1>7 DEF vars
  <1> QED
    BY <1>1, <1>2, <1>3, <1>4, <1>5, <1>6, <1>7 DEF Next

\* What is cached and what was handed out is of bounded age, at any time.
LEMMA CacheInvariant == Spec => []CInv
  BY CacheInit, CacheNext, PTL DEF Spec

\* Cached and pending accounts keep their types.
THEOREM TypeCorrect == Spec => []TypeOK
  <1>1. CInv => TypeOK
    BY DEF CInv
  <1> QED
    BY <1>1, CacheInvariant, PTL

\* No account handed out is older than TTL and Timeout together.
THEOREM AgeIsBounded == Spec => []AgeBounded
  <1>1. CInv => AgeBounded
    BY DEF CInv
  <1> QED
    BY <1>1, CacheInvariant, PTL

\* A fresh entry is never lost to the task that clears the cache.
THEOREM FreshNeverLost == Spec => NeverLost
  <1>1. ASSUME CInv, [Next]_vars, NEW k \in Keys, Fresh(k)
        PROVE  entries'[k] # NoEntry
    <2> USE <1>1 DEF CInv, TypeOK, Fresh, Cached
    <2>1. CASE \E t \in Tasks : Fill(t)
      <3>1. now + TTL # None
        BY CacheAssumption DEF None
      <3> QED
        BY <2>1, <3>1 DEF Fill, NoEntry
    <2>2. CASE ClearExpired
      BY <2>2 DEF ClearExpired
    <2>3. CASE UNCHANGED entries
      BY <2>3
    <2> QED
      BY <2>1, <2>2, <2>3 DEF Next, Lookup, NodeReads, Fail, Tick, vars
  <1>2. CInv /\ [Next]_vars => [\A k \in Keys : Fresh(k) => entries'[k] # NoEntry]_vars
    BY <1>1
  <1> QED
    BY <1>2, CacheInvariant, PTL DEF Spec, NeverLost

\* A cached account goes back in time by no more than a call to the node.
THEOREM RegressIsBounded == Spec => RegressBounded
  <1>1. ASSUME CInv, [Next]_vars, NEW k \in Keys, Cached(k), entries'[k] # NoEntry
        PROVE  entries'[k].read + Timeout >= entries[k].read
    <2> USE <1>1, CacheAssumption DEF CInv, TypeOK, Cached
    <2>1. entries[k] \in Entry /\ entries[k].read \in Nat /\ entries[k].read <= now
      BY DEF Entry
    <2>2. ASSUME NEW t \in Tasks, Fill(t)
          PROVE  entries'[k].read + Timeout >= entries[k].read
      <3>1. now <= reply[t] + Timeout
        BY <2>2 DEF Fill
      <3>2. entries'[k].read = reply[t] \/ entries'[k] = entries[k]
        BY <2>2 DEF Fill
      <3> QED
        BY <2>1, <3>1, <3>2
    <2>3. CASE ClearExpired
      BY <2>1, <2>3 DEF ClearExpired
    <2>4. CASE UNCHANGED entries
      BY <2>1, <2>4
    <2> QED
      BY <2>2, <2>3, <2>4 DEF Next, Lookup, NodeReads, Fail, Tick, vars
  <1>2. CInv /\ [Next]_vars
          => [\A k \in Keys : Cached(k) /\ entries'[k] # NoEntry
                 => entries'[k].read + Timeout >= entries[k].read]_vars
    BY <1>1
  <1> QED
    BY <1>2, CacheInvariant, PTL DEF Spec, RegressBounded
-----------------------------------------------------------------------------
(* The cache in which time alone ends an entry.                             *)

\* What the abstract cache holds.
Held == [k \in Keys |-> IF Fresh(k) THEN entries[k] ELSE NoEntry]

\* Nothing is held at first.
LEMMA TimedInit == Init => Timed!Init
  BY DEF Init, Timed!Init, Fresh, Cached, NoEntry, None, Timed!Nothing, Timed!None

\* An entry that is cached is not the absent one; its times are numbers.
LEMMA HeldTypes ==
    ASSUME CInv, NEW k \in Keys, entries[k] # NoEntry
    PROVE  entries[k] \in Entry /\ entries[k].read \in Nat /\ entries[k].expires \in Nat
  BY DEF CInv, TypeOK, Entry

\* A look-up gets what is held of its keys.
LEMMA TimedLookup ==
    ASSUME CInv, NEW t \in Tasks, NEW ks \in SUBSET Keys, Lookup(t, ks)
    PROVE  Timed!Get(t)
  <1>1. age' = [age EXCEPT ![t] =
                  [k \in Keys |-> IF k \in ks /\ Held[k] # NoEntry
                                  THEN now - Held[k].read ELSE None]]
    <2>1. \A k \in Keys : /\ Fresh(k) <=> Held[k] # NoEntry
                          /\ Fresh(k) => Held[k] = entries[k]
      BY DEF Held, Fresh, Cached
    <2> QED
      BY <2>1 DEF Lookup
  <1>2. UNCHANGED <<now, Held>>
    BY DEF Lookup, Held, Fresh, Cached, Expired
  <1> QED
    BY <1>1, <1>2 DEF Timed!Get, Held, NoEntry, None, Timed!Nothing, Timed!None

\* Storing an answer puts it with the time the node read it, at most a call ago;
\* what it does not bring stays as it was, absent or not.
LEMMA TimedFill ==
    ASSUME CInv, NEW t \in Tasks, Fill(t)
    PROVE  Timed!Put(t)
  <1> USE CacheAssumption
  <1>1. PICK found \in SUBSET missing[t] :
          /\ entries' = [k \in Keys |->
                           IF k \in found
                           THEN [read |-> reply[t], expires |-> now + TTL]
                           ELSE entries[k]]
          /\ age' = [age EXCEPT ![t] =
                       [k \in Keys |-> IF k \in found THEN now - reply[t] ELSE @[k]]]
    BY DEF Fill
  <1>2. /\ found \in SUBSET Keys
        /\ now \in Nat /\ reply[t] \in Nat /\ asked[t] \in Nat
        /\ reply[t] <= now /\ now <= reply[t] + Timeout
    BY DEF Fill, CInv, TypeOK
  <1>3. reply[t] \in (now - Timeout)..now
    BY <1>2
  <1>4. now' = now
    BY DEF Fill
  <1>5. Held' = [k \in Keys |-> IF k \in found
                                THEN [read |-> reply[t], expires |-> now + TTL]
                                ELSE Held[k]]
    <2>1. ASSUME NEW k \in Keys
          PROVE  (IF Fresh(k) THEN entries[k] ELSE NoEntry)' =
                    IF k \in found THEN [read |-> reply[t], expires |-> now + TTL]
                    ELSE Held[k]
      <3>1. CASE k \in found
        <4>1. entries'[k] = [read |-> reply[t], expires |-> now + TTL]
          BY <1>1, <3>1
        <4>2. entries'[k].expires = now + TTL /\ entries'[k].read = reply[t]
          BY <4>1
        <4>3. entries'[k] # NoEntry
          BY <1>2, <4>2 DEF NoEntry, None
        <4>4. ~(now > now + TTL)
          BY <1>2
        <4> QED
          BY <1>4, <3>1, <4>1, <4>2, <4>3, <4>4 DEF Fresh, Cached, Expired
      <3>2. CASE k \notin found
        <4>1. entries'[k] = entries[k]
          BY <1>1, <3>2
        <4> QED
          BY <1>4, <3>2, <4>1 DEF Held, Fresh, Cached, Expired
      <3> QED
        BY <3>1, <3>2
    <2> QED
      BY <2>1 DEF Held
  <1> QED
    BY <1>1, <1>2, <1>3, <1>4, <1>5 DEF Timed!Put, Held

\* Each step of the cache is one of the abstract cache or none; clearing out is
\* none.
LEMMA TimedNext == CInv /\ [Next]_vars => [Timed!Next]_(Timed!vars)
  <1> SUFFICES ASSUME CInv, [Next]_vars
               PROVE  [Timed!Next]_(Timed!vars)
    OBVIOUS
  <1>1. ASSUME NEW t \in Tasks, NEW ks \in SUBSET Keys, Lookup(t, ks)
        PROVE  Timed!Next
    BY <1>1, TimedLookup DEF Timed!Next
  <1>2. ASSUME NEW t \in Tasks, NodeReads(t)
        PROVE  UNCHANGED Timed!vars
    BY <1>2 DEF NodeReads, Timed!vars, Fresh, Cached, Expired
  <1>3. ASSUME NEW t \in Tasks, Fill(t)
        PROVE  Timed!Next
    BY <1>3, TimedFill DEF Timed!Next
  <1>4. ASSUME NEW t \in Tasks, Fail(t)
        PROVE  Timed!Next
    <2>1. Timed!Miss(t)
      BY <1>4 DEF Fail, Timed!Miss, Fresh, Cached, Expired, None, Timed!None
    <2> QED
      BY <2>1 DEF Timed!Next
  <1>5. CASE ClearExpired
    <2>1. Held' = Held /\ now' = now /\ age' = age
      BY <1>5 DEF ClearExpired, Held, Fresh, Cached, Expired
    <2> QED
      BY <2>1 DEF Timed!vars, Held
  <1>6. CASE Tick
    <2>1. now' = now + 1 /\ entries' = entries /\ age' = age /\ now \in Nat
      BY <1>6 DEF Tick, CInv, TypeOK
    <2>2. Held' = [k \in Keys |-> IF Held[k] # NoEntry /\ Held[k].expires < now'
                                  THEN NoEntry ELSE Held[k]]
      <3>1. ASSUME NEW k \in Keys
            PROVE  (IF Fresh(k) THEN entries[k] ELSE NoEntry)' =
                      IF Held[k] # NoEntry /\ Held[k].expires < now'
                      THEN NoEntry ELSE Held[k]
        <4>1. CASE entries[k] = NoEntry
          BY <2>1, <4>1 DEF Held, Fresh, Cached
        <4>2. CASE entries[k] # NoEntry
          <5>1. entries[k].expires \in Nat
            BY <4>2, HeldTypes
          <5> QED
            BY <2>1, <4>2, <5>1 DEF Held, Fresh, Cached, Expired
        <4> QED
          BY <4>1, <4>2
      <3> QED
        BY <3>1 DEF Held
    <2>3. Timed!Tick
      BY <2>1, <2>2 DEF Timed!Tick, Held, NoEntry, None, Timed!Nothing, Timed!None
    <2> QED
      BY <2>3 DEF Timed!Next
  <1>7. CASE UNCHANGED vars
    BY <1>7 DEF vars, Timed!vars, Fresh, Cached, Expired
  <1> QED
    BY <1>1, <1>2, <1>3, <1>4, <1>5, <1>6, <1>7 DEF Next

\* The cache, its expired entries and the task that clears them out implement a
\* cache in which time alone ends an entry, for any times to live and to wait.
THEOREM EntriesExpireOnTime == Spec => ExpiresOnTime
  <1> QED
    BY TimedInit, TimedNext, CacheInvariant, PTL DEF Spec, ExpiresOnTime, Timed!Spec
=============================================================================
