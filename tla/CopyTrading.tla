----------------------------- MODULE CopyTrading -----------------------------
(***************************************************************************)
(* The trading core of the bot (src/src/engine/copy_trading.rs): handler   *)
(* tasks that copy the buys of a target wallet, the monitor task each      *)
(* bought token gets, the sells those tasks send, the clean-up task, and   *)
(* the process-wide tables all of them share.                              *)
(*                                                                         *)
(* A step is the code one task runs between two points where another task  *)
(* may run and tell the difference: an await, or the gap between two       *)
(* writes to different tables that some property relates.  The chain is    *)
(* external: a transaction that was sent lands or is dropped at any later  *)
(* time, whatever the sender has concluded meanwhile.                      *)
(***************************************************************************)
EXTENDS Integers, FiniteSets

CONSTANTS
    Mints,         \* tokens
    RaydiumMints,  \* those traded on the Raydium launchpad
    Buys,          \* buy transactions of the target wallet, one task each
    Whales,        \* sell transactions of >= 10 SOL, one task each
    NoTrade,       \* "nobody"
    NoMint,
    CounterLimit,  \* config.counter_limit, COUNTER_LIMIT in the environment
    MaxOverlap,    \* buy handlers running at once (the code sets no bound)
    MaxRestarts    \* bound on process restarts

Trades == Buys \cup Whales

ASSUME ConstantsAssumption ==
    /\ RaydiumMints \subseteq Mints
    /\ IsFiniteSet(Mints) /\ IsFiniteSet(Trades)
    /\ Buys \cap Whales = {}
    /\ NoTrade \notin Trades
    /\ NoMint \notin Mints
    /\ CounterLimit \in Nat
    /\ MaxOverlap \in Nat \ {0}
    /\ MaxRestarts \in Nat

VARIABLES
    \* handler tasks
    pc,         \* where the task of a target transaction stands
    mint,       \* the token that transaction traded
    \* tables
    listed,     \* keys of BOUGHT_TOKEN_LIST
    tracked,    \* keys of TOKEN_TRACKING, the "active tokens"
    blacklist,  \* keys of BOUGHT_TOKENS_BLACKLIST
    accounts,   \* mints whose token account is in WALLET_TOKEN_ACCOUNTS
    guard,      \* task holding BOUGHT_TOKEN_LIST.get_mut(mint), if any
    \* monitoring
    tasks,      \* MONITORING_TASKS: mint -> the monitor whose token it holds
    cancelled,  \* monitors whose CancellationToken has been cancelled
    monitor,    \* where the monitor task started for a buy stands
    subject,    \* the token of the trade that monitor is reacting to
    amount,     \* the balance of it that monitor last read, until it is used
    \* clean-up task
    sweepMode,  \* "idle", "basic" (every 30 s) or "full" (every 2 min)
    sweepTodo,  \* tokens still to check
    sweepZero,  \* token whose balance was just read as zero, or NoMint
    \* the chain
    wallet,     \* lots of each token the bot's wallet holds
    buyTx,      \* fate of the buy transaction a handler sent
    sells,      \* sells in flight: who sent them, of which token, how many lots
    whaleSold,  \* whale handlers whose own sell has landed
    touched,    \* (history) tokens a sell was ever sent of, or whose sale a
                \* monitor of another token ever began
    notices,    \* tokens whose emptying the wallet stream has yet to report
    restarts

handlerVars == <<pc, mint>>
listVars    == <<listed, guard>>
tableVars   == <<listed, guard, tracked, blacklist, accounts>>
monitorVars == <<tasks, cancelled, monitor, subject, amount>>
sweepVars   == <<sweepMode, sweepTodo, sweepZero>>
sellVars    == <<sells, whaleSold, touched>>
chainVars   == <<wallet, buyTx, sells, whaleSold, touched, notices>>
vars == <<handlerVars, tableVars, monitorVars, sweepVars, chainVars, restarts>>

-----------------------------------------------------------------------------
BuyingPC == {"blacklist", "build", "send", "verify",
             "record", "seal", "tally", "track"}
RunningPC == BuyingPC \cup {"admit", "settle"}
WhalePC == {"whale", "whaleSend", "whaleVerify", "whaleRemove"}
FinishedPC == {"done", "skipped", "failed", "killed"}
HandlerPC == {"idle"} \cup RunningPC \cup WhalePC \cup FinishedPC

SellingState == {"whaleBalance", "whaleSubmit", "balance", "submit", "cancel"}
MonitorState == {"none", "connecting", "listening", "ended"} \cup SellingState

TxState == {"none", "inflight", "landed", "dropped"}

\* Buy handlers that have been spawned and have not returned.
Running == {t \in Buys : pc[t] \in RunningPC}

\* Buy handlers past the limit check whose token is not counted yet.
Admitted == {t \in Buys : pc[t] \in BuyingPC}

\* No task holds a write guard on the entry of m: the shard can be locked.
Unguarded(m) == guard[m] = NoTrade
NoGuards == \A m \in Mints : Unguarded(m)

TypeOK ==
    /\ pc \in [Trades -> HandlerPC]
    /\ mint \in [Trades -> Mints \cup {NoMint}]
    /\ listed \subseteq Mints /\ tracked \subseteq Mints
    /\ blacklist \subseteq Mints /\ accounts \subseteq Mints
    /\ guard \in [Mints -> Whales \cup {NoTrade}]
    /\ tasks \in [Mints -> Buys \cup {NoTrade}]
    /\ cancelled \subseteq Buys
    /\ monitor \in [Buys -> MonitorState]
    /\ subject \in [Buys -> Mints \cup {NoMint}]
    /\ amount \in [Buys -> Nat]
    /\ sweepMode \in {"idle", "basic", "full"}
    /\ sweepTodo \subseteq Mints
    /\ sweepZero \in Mints \cup {NoMint}
    /\ wallet \in [Mints -> Nat]
    /\ buyTx \in [Buys -> TxState]
    /\ sells \subseteq [by : Trades, of : Mints, qty : Nat]
    /\ whaleSold \subseteq Whales
    /\ touched \subseteq Mints
    /\ notices \subseteq Mints
    /\ restarts \in 0..MaxRestarts

Init ==
    /\ pc = [t \in Trades |-> "idle"]
    /\ mint = [t \in Trades |-> NoMint]
    /\ listed = {} /\ tracked = {} /\ blacklist = {} /\ accounts = {}
    /\ guard = [m \in Mints |-> NoTrade]
    /\ tasks = [m \in Mints |-> NoTrade]
    /\ cancelled = {}
    /\ monitor = [t \in Buys |-> "none"]
    /\ subject = [t \in Buys |-> NoMint]
    /\ amount = [t \in Buys |-> 0]
    /\ sweepMode = "idle" /\ sweepTodo = {} /\ sweepZero = NoMint
    /\ wallet = [m \in Mints |-> 0]
    /\ buyTx = [t \in Buys |-> "none"]
    /\ sells = {}
    /\ whaleSold = {}
    /\ touched = {}
    /\ notices = {}
    /\ restarts = 0

Goto(t, from, to) == pc[t] = from /\ pc' = [pc EXCEPT ![t] = to]

-----------------------------------------------------------------------------
(* Buying: process_message, handle_parsed_data_for_buying, execute_buy.     *)

\* A target transaction arrives on the stream and gets a task of its own.
Spawn(t, m) ==
    /\ t \in Whales \/ Cardinality(Running) < MaxOverlap
    /\ Goto(t, "idle", IF t \in Whales THEN "whale" ELSE "admit")
    /\ mint' = [mint EXCEPT ![t] = m]
    /\ UNCHANGED <<tableVars, monitorVars, sweepVars, chainVars, restarts>>

\* (mutant of Admit: the limit is off by one)
AdmitOneMore(t) ==
    /\ \/ Goto(t, "admit", "skipped")
       \/ Cardinality(tracked) <= CounterLimit /\ Goto(t, "admit", "blacklist")
    /\ UNCHANGED <<mint, tableVars, monitorVars, sweepVars, chainVars, restarts>>

\* A token the target held when the process started (TARGET_WALLET_TOKENS) is
\* not copied, and no token is when the active ones are at the limit.
Admit(t) ==
    /\ \/ Goto(t, "admit", "skipped")
       \/ Cardinality(tracked) < CounterLimit /\ Goto(t, "admit", "blacklist")
    /\ UNCHANGED <<mint, tableVars, monitorVars, sweepVars, chainVars, restarts>>

\* (mutant of CheckBlacklist: Admit is thought to have asked)
CheckSkipped(t) ==
    /\ Goto(t, "blacklist", "build")
    /\ UNCHANGED <<mint, tableVars, monitorVars, sweepVars, chainVars, restarts>>

\* execute_buy refuses a token that was bought before.
CheckBlacklist(t) ==
    /\ Goto(t, "blacklist", IF mint[t] \in blacklist THEN "failed" ELSE "build")
    /\ UNCHANGED <<mint, tableVars, monitorVars, sweepVars, chainVars, restarts>>

\* The pump builders put the token account in WALLET_TOKEN_ACCOUNTS before the
\* transaction that creates it is sent, and may still fail afterwards; the
\* Raydium builder leaves the cache alone.
Build(t) ==
    /\ \E ok \in {"send", "failed"} : Goto(t, "build", ok)
    /\ \/ UNCHANGED accounts
       \/ mint[t] \notin RaydiumMints /\ accounts' = accounts \cup {mint[t]}
    /\ UNCHANGED <<mint, listVars, tracked, blacklist, monitorVars, sweepVars,
                   chainVars, restarts>>

\* A blockhash, then the relay.  Without a blockhash nothing is sent; an error
\* of the relay may hide a transaction that it did forward.
Send(t) ==
    /\ \/ /\ Goto(t, "send", "failed")
          /\ UNCHANGED buyTx
       \/ /\ \E ok \in {"verify", "failed"} : Goto(t, "send", ok)
          /\ buyTx' = [buyTx EXCEPT ![t] = "inflight"]
    /\ UNCHANGED <<mint, tableVars, monitorVars, sweepVars, wallet, sellVars,
                   notices, restarts>>

\* (mutant of Verify: it polls until the transaction is found)
VerifyForEver(t) ==
    /\ buyTx[t] = "landed" /\ Goto(t, "verify", "record")
    /\ UNCHANGED <<mint, tableVars, monitorVars, sweepVars, chainVars, restarts>>

\* verify_transaction: five polls.  "landed" may be confirmed; running out of
\* polls is an error whatever the fate of the transaction.
Verify(t) ==
    /\ \/ buyTx[t] = "landed" /\ Goto(t, "verify", "record")
       \/ Goto(t, "verify", "failed")
    /\ UNCHANGED <<mint, tableVars, monitorVars, sweepVars, chainVars, restarts>>

\* First write of a confirmed buy.
Record(t) ==
    /\ Goto(t, "record", "seal")
    /\ Unguarded(mint[t])
    /\ accounts' = accounts \cup {mint[t]}
    /\ listed' = listed \cup {mint[t]}
    /\ UNCHANGED <<mint, guard, tracked, blacklist, monitorVars, sweepVars,
                   chainVars, restarts>>

\* (mutant of Seal: the insertion is left to the common tail)
SealNothing(t) ==
    /\ \E next \in {"tally", "track"} : Goto(t, "seal", next)
    /\ UNCHANGED <<mint, tableVars, monitorVars, sweepVars, chainVars, restarts>>

\* Second write: the token may never be bought again.  A price that rounded to
\* zero takes the handler around the insertions of the common tail.
Seal(t) ==
    /\ \E next \in {"tally", "track"} : Goto(t, "seal", next)
    /\ blacklist' = blacklist \cup {mint[t]}
    /\ UNCHANGED <<mint, listVars, tracked, accounts, monitorVars, sweepVars,
                   chainVars, restarts>>

\* The common tail lists and blacklists the token again.
Tally(t) ==
    /\ Goto(t, "tally", "track")
    /\ Unguarded(mint[t])
    /\ listed' = listed \cup {mint[t]}
    /\ blacklist' = blacklist \cup {mint[t]}
    /\ UNCHANGED <<mint, guard, tracked, accounts, monitorVars, sweepVars,
                   chainVars, restarts>>

\* The token becomes an active one; the handler then sleeps two seconds.
Track(t) ==
    /\ Goto(t, "track", "settle")
    /\ tracked' = tracked \cup {mint[t]}
    /\ UNCHANGED <<mint, listVars, blacklist, accounts, monitorVars, sweepVars,
                   chainVars, restarts>>

\* setup_selling_strategy: the new token replaces the one in the registry,
\* which is dropped and not cancelled.
StartMonitor(t) ==
    /\ Goto(t, "settle", "done")
    /\ tasks' = [tasks EXCEPT ![mint[t]] = t]
    /\ monitor' = [monitor EXCEPT ![t] = "connecting"]
    /\ UNCHANGED <<mint, tableVars, cancelled, subject, amount, sweepVars,
                   chainVars, restarts>>

HandlerStep(t) ==
    \/ Admit(t) \/ CheckBlacklist(t) \/ Build(t) \/ Send(t) \/ Verify(t)
    \/ Record(t) \/ Seal(t) \/ Tally(t) \/ Track(t) \/ StartMonitor(t)

-----------------------------------------------------------------------------
(* Selling by a monitor: monitor_token_for_selling, process_selling,        *)
(* handle_parsed_data_for_selling, and the two emergency sells of           *)
(* selling_strategy.rs.                                                     *)

Move(t, from, to) == monitor[t] = from /\ monitor' = [monitor EXCEPT ![t] = to]

\* The message has been dealt with.
Return(t, from) ==
    /\ Move(t, from, "listening")
    /\ subject' = [subject EXCEPT ![t] = NoMint]
    /\ amount' = [amount EXCEPT ![t] = 0]

\* Only Raydium instructions can be built without a cached token account.
CanBuildSell(m) == m \in accounts \cup RaydiumMints

\* The relay takes the sell; whether it says so is another matter.
Submit(t, m, qty) ==
    /\ sells' = sells \cup {[by |-> t, of |-> m, qty |-> qty]}
    /\ touched' = touched \cup {m}
    /\ UNCHANGED whaleSold

\* Connect and subscribe.  On failure the task ends; its registry entry stays.
MonitorConnect(t) ==
    /\ \E to \in {"listening", "ended"} : Move(t, "connecting", to)
    /\ UNCHANGED <<handlerVars, tableVars, tasks, cancelled, subject, amount,
                   sweepVars, chainVars, restarts>>

\* A transaction that names the monitor's token arrives, and
\* evaluate_sell_conditions asks for a sell of the token it trades, which need
\* not be the same one.  (Its price is first written to the token's list entry.)
\* tokio::select! is not biased: a cancelled monitor may still take a message.
MonitorTrigger(t, m) ==
    /\ Unguarded(m)
    /\ \E to \in {"whaleBalance", "balance"} : Move(t, "listening", to)
    /\ subject' = [subject EXCEPT ![t] = m]
    /\ touched' = touched \cup ({m} \ {mint[t]})
    /\ UNCHANGED <<handlerVars, tableVars, tasks, cancelled, amount, sweepVars,
                   wallet, buyTx, sells, whaleSold, notices, restarts>>

\* The stream fails or ends.  There is no reconnection and no deregistration.
MonitorStreamEnd(t) ==
    /\ Move(t, "listening", "ended")
    /\ UNCHANGED <<handlerVars, tableVars, tasks, cancelled, subject, amount,
                   sweepVars, chainVars, restarts>>

\* (mutant of MonitorCancelled: the loop asks the registry for its token)
MonitorDeregistered(t) ==
    /\ t \in cancelled /\ tasks[mint[t]] = t
    /\ Move(t, "listening", "ended")
    /\ UNCHANGED <<handlerVars, tableVars, tasks, cancelled, subject, amount,
                   sweepVars, chainVars, restarts>>

\* The select loop sees the cancellation.
MonitorCancelled(t) ==
    /\ t \in cancelled
    /\ Move(t, "listening", "ended")
    /\ UNCHANGED <<handlerVars, tableVars, tasks, cancelled, subject, amount,
                   sweepVars, chainVars, restarts>>

\* whale_emergency_sell and emergency_sell_all begin by reading the balance.
\* An empty account counts as success; no account and a failed read are errors.
ReadBalance(t) ==
    /\ \/ /\ Move(t, "whaleBalance", "whaleSubmit") \/ Move(t, "balance", "submit")
          /\ wallet[subject[t]] > 0
          /\ amount' = [amount EXCEPT ![t] = wallet[subject[t]]]
          /\ UNCHANGED subject
       \/ /\ Move(t, "whaleBalance", "cancel") \/ Move(t, "balance", "cancel")
          /\ wallet[subject[t]] = 0
          /\ UNCHANGED <<subject, amount>>
       \/ Move(t, "whaleBalance", "balance") /\ UNCHANGED <<subject, amount>>
       \/ Return(t, "balance")
    /\ UNCHANGED <<handlerVars, tableVars, tasks, cancelled, sweepVars,
                   chainVars, restarts>>

\* whale_emergency_sell builds with the PumpFun or PumpSwap builder only; any
\* error falls back on emergency_sell_all.
WhaleSubmit(t) ==
    /\ \/ /\ Move(t, "whaleSubmit", "balance")
          /\ UNCHANGED sellVars
       \/ /\ subject[t] \in accounts \ RaydiumMints
          /\ \E to \in {"cancel", "balance"} : Move(t, "whaleSubmit", to)
          /\ Submit(t, subject[t], amount[t])
    /\ amount' = [amount EXCEPT ![t] = 0]
    /\ UNCHANGED <<handlerVars, tableVars, tasks, cancelled, subject, sweepVars,
                   wallet, buyTx, notices, restarts>>

\* emergency_sell_all: once the relay has accepted the sell, and before anyone
\* knows its fate, the token account leaves WALLET_TOKEN_ACCOUNTS.
EmergencySubmit(t) ==
    /\ \/ /\ Return(t, "submit")
          /\ UNCHANGED <<sellVars, accounts>>
       \/ /\ CanBuildSell(subject[t])
          /\ Return(t, "submit")
          /\ Submit(t, subject[t], amount[t])
          /\ UNCHANGED accounts
       \/ /\ CanBuildSell(subject[t])
          /\ Move(t, "submit", "cancel")
          /\ Submit(t, subject[t], amount[t])
          /\ accounts' = accounts \ {subject[t]}
          /\ amount' = [amount EXCEPT ![t] = 0]
          /\ UNCHANGED subject
    /\ UNCHANGED <<handlerVars, listVars, tracked, blacklist, tasks, cancelled,
                   sweepVars, wallet, buyTx, notices, restarts>>

\* (mutants of Deregister: an absent token is cancelled too; the token is
\* removed and dropped)
CancelAnyway(m) ==
    /\ tasks' = [tasks EXCEPT ![m] = NoTrade]
    /\ cancelled' = cancelled \cup {tasks[m]}
DropToken(m) ==
    /\ tasks' = [tasks EXCEPT ![m] = NoTrade]
    /\ UNCHANGED cancelled

\* The registered token of m, if any, is removed and cancelled.
Deregister(m) ==
    /\ tasks' = [tasks EXCEPT ![m] = NoTrade]
    /\ cancelled' = cancelled \cup ({tasks[m]} \ {NoTrade})

\* cancel_token_monitoring, after a sell reported success.
CancelMonitoring(t) ==
    /\ Return(t, "cancel")
    /\ Deregister(subject[t])
    /\ tracked' = tracked \ {subject[t]}
    /\ UNCHANGED <<handlerVars, listVars, blacklist, accounts, sweepVars,
                   chainVars, restarts>>

MonitorStep(t) ==
    \/ MonitorConnect(t) \/ MonitorStreamEnd(t)
    \/ \E m \in Mints : MonitorTrigger(t, m)
    \/ MonitorCancelled(t) \/ ReadBalance(t) \/ WhaleSubmit(t)
    \/ EmergencySubmit(t) \/ CancelMonitoring(t)

-----------------------------------------------------------------------------
(* A target's sell of >= 10 SOL: the handler holds the token's list entry   *)
(* through the sell (execute_whale_emergency_sell).                         *)

\* BOUGHT_TOKEN_LIST.get_mut: nothing to do for a token we do not list.
WhaleDetected(t) ==
    /\ \/ /\ Goto(t, "whale", "whaleSend")
          /\ mint[t] \in listed /\ Unguarded(mint[t])
          /\ guard' = [guard EXCEPT ![mint[t]] = t]
       \/ /\ Goto(t, "whale", "done")
          /\ mint[t] \notin listed /\ Unguarded(mint[t])
          /\ UNCHANGED guard
    /\ UNCHANGED <<mint, listed, tracked, blacklist, accounts, monitorVars,
                   sweepVars, chainVars, restarts>>

\* The amount sold is what the target bought, not what we hold: it may be a
\* part of our position (down to a fraction of a lot) or more than all of it.
\* An error drops the guard.
WhaleSend(t) ==
    /\ \/ /\ CanBuildSell(mint[t])
          /\ Goto(t, "whaleSend", "whaleVerify")
          /\ \E qty \in 0..(wallet[mint[t]] + 1) : Submit(t, mint[t], qty)
          /\ UNCHANGED guard
       \/ /\ CanBuildSell(mint[t])
          /\ Goto(t, "whaleSend", "failed")
          /\ \E qty \in 0..(wallet[mint[t]] + 1) : Submit(t, mint[t], qty)
          /\ guard' = [guard EXCEPT ![mint[t]] = NoTrade]
       \/ /\ Goto(t, "whaleSend", "failed")
          /\ guard' = [guard EXCEPT ![mint[t]] = NoTrade]
          /\ UNCHANGED sellVars
    /\ UNCHANGED <<mint, listed, tracked, blacklist, accounts, monitorVars,
                   sweepVars, wallet, buyTx, notices, restarts>>

\* (mutant of WhaleVerify: the guard goes before the entry is removed)
WhaleVerifyRelease(t) ==
    /\ \/ t \in whaleSold /\ Goto(t, "whaleVerify", "whaleRemove")
       \/ Goto(t, "whaleVerify", "failed")
    /\ guard' = [guard EXCEPT ![mint[t]] = NoTrade]
    /\ UNCHANGED <<mint, listed, tracked, blacklist, accounts, monitorVars,
                   sweepVars, chainVars, restarts>>

\* Once the sell is confirmed the task calls BOUGHT_TOKEN_LIST.remove, which
\* waits for the lock its own caller holds: no step leaves "whaleRemove".
WhaleVerify(t) ==
    /\ \/ /\ t \in whaleSold
          /\ Goto(t, "whaleVerify", "whaleRemove")
          /\ UNCHANGED guard
       \/ /\ Goto(t, "whaleVerify", "failed")
          /\ guard' = [guard EXCEPT ![mint[t]] = NoTrade]
    /\ UNCHANGED <<mint, listed, tracked, blacklist, accounts, monitorVars,
                   sweepVars, chainVars, restarts>>

WhaleStep(t) == WhaleDetected(t) \/ WhaleSend(t) \/ WhaleVerify(t)

-----------------------------------------------------------------------------
(* Clean-up: start_enhanced_selling_monitor, the only caller of             *)
(* cleanup_token_tracking and periodic_comprehensive_cleanup.               *)

\* (mutant of SweepBegin: every sweep checks the listed tokens only)
SweepListed(mode) ==
    /\ sweepMode = "idle"
    /\ NoGuards
    /\ sweepTodo' = listed
    /\ sweepMode' = IF sweepTodo' = {} THEN "idle" ELSE mode
    /\ UNCHANGED <<handlerVars, tableVars, monitorVars, sweepZero, chainVars,
                   restarts>>

\* The keys to check are copied out of the tables, which needs a read lock on
\* every shard of BOUGHT_TOKEN_LIST.
SweepBegin(mode) ==
    /\ sweepMode = "idle"
    /\ NoGuards
    /\ sweepTodo' = IF mode = "full" THEN listed \cup tracked ELSE listed
    /\ sweepMode' = IF sweepTodo' = {} THEN "idle" ELSE mode
    /\ UNCHANGED <<handlerVars, tableVars, monitorVars, sweepZero, chainVars,
                   restarts>>

\* Finish with m.
SweepNext(m) ==
    /\ sweepTodo' = sweepTodo \ {m}
    /\ sweepMode' = IF sweepTodo' = {} THEN "idle" ELSE sweepMode

\* The balance is positive, or the read failed: the token stays.
SweepKeep(m) ==
    /\ m \in sweepTodo /\ sweepZero = NoMint
    /\ SweepNext(m)
    /\ UNCHANGED <<handlerVars, tableVars, monitorVars, sweepZero, chainVars,
                   restarts>>

\* (mutant of SweepFound: a read that failed counts as an empty account)
SweepFoundOnError(m) ==
    /\ m \in sweepTodo /\ sweepZero = NoMint
    /\ sweepZero' = m
    /\ UNCHANGED <<handlerVars, tableVars, monitorVars, sweepMode, sweepTodo,
                   chainVars, restarts>>

\* The account is empty or gone.
SweepFound(m) ==
    /\ m \in sweepTodo /\ sweepZero = NoMint
    /\ wallet[m] = 0
    /\ sweepZero' = m
    /\ UNCHANGED <<handlerVars, tableVars, monitorVars, sweepMode, sweepTodo,
                   chainVars, restarts>>

\* cleanup_token_tracking forgets the token in two tables.
SweepBasic(m) ==
    /\ sweepZero = m /\ sweepMode = "basic"
    /\ Unguarded(m)
    /\ listed' = listed \ {m}
    /\ tracked' = tracked \ {m}
    /\ sweepZero' = NoMint
    /\ SweepNext(m)
    /\ UNCHANGED <<handlerVars, guard, blacklist, accounts, monitorVars,
                   chainVars, restarts>>

\* verify_sell_transaction_and_cleanup forgets it everywhere and cancels its
\* monitor.
SweepFull(m) ==
    /\ sweepZero = m /\ sweepMode = "full"
    /\ Unguarded(m)
    /\ listed' = listed \ {m}
    /\ tracked' = tracked \ {m}
    /\ accounts' = accounts \ {m}
    /\ Deregister(m)
    /\ sweepZero' = NoMint
    /\ SweepNext(m)
    /\ UNCHANGED <<handlerVars, guard, blacklist, monitor, subject, amount,
                   chainVars, restarts>>

\* start_wallet_monitoring_internal sees the bot's own sell empty an account.
WalletNotice(m) ==
    /\ m \in notices
    /\ Unguarded(m)
    /\ notices' = notices \ {m}
    /\ listed' = listed \ {m}
    /\ UNCHANGED <<handlerVars, guard, tracked, blacklist, accounts,
                   monitorVars, sweepVars, wallet, buyTx, sellVars, restarts>>

\* The second stream is optional and may be down.
WalletNoticeLost(m) ==
    /\ m \in notices
    /\ notices' = notices \ {m}
    /\ UNCHANGED <<handlerVars, tableVars, monitorVars, sweepVars, wallet,
                   buyTx, sellVars, restarts>>

-----------------------------------------------------------------------------
(* The chain, and the process.                                              *)

BuyLands(t) ==
    /\ buyTx[t] = "inflight"
    /\ buyTx' = [buyTx EXCEPT ![t] = "landed"]
    /\ wallet' = [wallet EXCEPT ![mint[t]] = @ + 1]
    /\ UNCHANGED <<handlerVars, tableVars, monitorVars, sweepVars, sellVars,
                   notices, restarts>>

BuyDropped(t) ==
    /\ buyTx[t] = "inflight"
    /\ buyTx' = [buyTx EXCEPT ![t] = "dropped"]
    /\ UNCHANGED <<handlerVars, tableVars, monitorVars, sweepVars, wallet,
                   sellVars, notices, restarts>>

SellLands(s) ==
    /\ s.qty <= wallet[s.of]
    /\ sells' = sells \ {s}
    /\ whaleSold' = whaleSold \cup ({s.by} \cap Whales)
    /\ wallet' = [wallet EXCEPT ![s.of] = @ - s.qty]
    /\ notices' = IF wallet'[s.of] = 0 THEN notices \cup {s.of} ELSE notices
    /\ UNCHANGED <<handlerVars, tableVars, monitorVars, sweepVars, buyTx,
                   touched, restarts>>

SellDropped(s) ==
    /\ sells' = sells \ {s}
    /\ UNCHANGED <<handlerVars, tableVars, monitorVars, sweepVars, wallet,
                   buyTx, whaleSold, touched, notices, restarts>>

\* initialize_token_account_list: every account the wallet owns, empty ones
\* included, or none when the query fails.
Reloaded ==
    {s \in SUBSET Mints : s = {} \/ \A m \in Mints : wallet[m] > 0 => m \in s}

\* The process dies and starts again: tasks and tables are gone, nothing is
\* persisted.
Restart ==
    /\ restarts < MaxRestarts
    /\ restarts' = restarts + 1
    /\ pc' = [t \in Trades |->
                IF pc[t] \in {"idle"} \cup FinishedPC THEN pc[t] ELSE "killed"]
    /\ listed' = {} /\ tracked' = {} /\ blacklist' = {}
    /\ accounts' \in Reloaded
    /\ guard' = [m \in Mints |-> NoTrade]
    /\ tasks' = [m \in Mints |-> NoTrade]
    /\ monitor' = [t \in Buys |-> IF monitor[t] = "none" THEN "none" ELSE "ended"]
    /\ subject' = [t \in Buys |-> NoMint]
    /\ amount' = [t \in Buys |-> 0]
    /\ sweepMode' = "idle" /\ sweepTodo' = {} /\ sweepZero' = NoMint
    /\ notices' = {}
    /\ UNCHANGED <<mint, cancelled, wallet, buyTx, sellVars>>

-----------------------------------------------------------------------------
SweepStep ==
    \/ \E mode \in {"basic", "full"} : SweepBegin(mode)
    \/ \E m \in Mints :
          SweepKeep(m) \/ SweepFound(m) \/ SweepBasic(m) \/ SweepFull(m)

ChainStep ==
    \/ \E t \in Buys : BuyLands(t) \/ BuyDropped(t)
    \/ \E s \in sells : SellLands(s) \/ SellDropped(s)

Next ==
    \/ \E t \in Trades, m \in Mints : Spawn(t, m)
    \/ \E t \in Buys : HandlerStep(t)
    \/ \E t \in Buys : MonitorStep(t)
    \/ \E t \in Whales : WhaleStep(t)
    \/ SweepStep
    \/ \E m \in Mints : WalletNotice(m) \/ WalletNoticeLost(m)
    \/ ChainStep
    \/ Restart

Spec == Init /\ [][Next]_vars
(***************************************************************************)
(* Fairness.  tokio polls every task that can run, as long as a thread is  *)
(* left; verify_transaction and the builders are bounded loops of calls    *)
(* with a timeout; attempts to connect come to an end; a select loop picks *)
(* a ready branch at random, so a cancellation that stays ready is taken   *)
(* in the end; the clean-up interval never stops ticking, every fourth     *)
(* tick being a full sweep; the RPC node is taken to answer a balance      *)
(* query now and then; and a lock that comes free again and again is       *)
(* obtained.                                                               *)
(*                                                                         *)
(* Nothing is assumed of what needs a blockhash or the relay: both locks   *)
(* of the blockhash may be held for ever (BlockhashCache!EmbraceFinal),    *)
(* and the relay's client has no timeout.  So Send may never return, nor a *)
(* sale, neither a monitor's nor a whale handler's, whichever reference    *)
(* into a table it holds.  Nothing is assumed of the chain either, of open *)
(* streams, or of the arrival of trades.                                   *)
(***************************************************************************)

\* A sale of m is under way, possibly with a reference to the metrics of m that
\* verify_sell_transaction_and_cleanup has to wait for.
BeingSold(m) == \E t \in Buys : monitor[t] \in SellingState /\ subject[t] = m

Fairness ==
    /\ \A t \in Buys :
          /\ WF_vars(pc[t] # "send" /\ HandlerStep(t))
          /\ WF_vars(MonitorConnect(t)) /\ SF_vars(MonitorCancelled(t))
    /\ SF_vars(SweepBegin("full"))
    /\ \A m \in Mints :
          /\ WF_vars(SweepKeep(m)) /\ SF_vars(SweepFound(m))
          /\ WF_vars(SweepBasic(m)) /\ SF_vars(~BeingSold(m) /\ SweepFull(m))

FairSpec == Spec /\ Fairness

\* The best case: threads never run out, and blockhash, relay and RPC node answer
\* every call.
Responsive ==
    /\ \A t \in Buys :
          /\ WF_vars(HandlerStep(t)) /\ WF_vars(ReadBalance(t))
          /\ WF_vars(WhaleSubmit(t)) /\ WF_vars(EmergencySubmit(t))
          /\ WF_vars(CancelMonitoring(t))
    /\ \A t \in Whales : WF_vars(WhaleStep(t))

ResponsiveSpec == FairSpec /\ Responsive

-----------------------------------------------------------------------------
(* Safety.                                                                  *)

\* Every table that makes a token an open position trails the blacklist: a
\* token is blacklisted before it counts as active and before a monitor is
\* registered for it, and a listed one is blacklisted or its handler is about
\* to do it.  (execute_buy writes three tables without a lock around them,
\* while clean-up and sells take tokens out of them.)
PositionsBlacklisted ==
    /\ tracked \subseteq blacklist
    /\ \A m \in Mints : tasks[m] # NoTrade => m \in blacklist
    /\ listed \subseteq blacklist \cup {mint[t] : t \in {u \in Buys : pc[u] = "seal"}}

\* The limit check and the insertion it protects are an execute_buy apart, so
\* concurrent handlers pass COUNTER_LIMIT; they do so by less than the number
\* of handlers that overlap, whatever else happens in between.
OvershootBounded == Cardinality(tracked) < CounterLimit + MaxOverlap

\* A confirmed position nobody has sent a sell of, nor a monitor of another token
\* begun to sell, is not lost: no second buy, clean-up round, wallet notice, failed
\* monitor or sell attempt that stopped half-way takes it out of the tables its
\* sale depends on, or cancels the monitor registered for it.
UntouchedPositionKept ==
    \A t \in Buys :
        restarts = 0 /\ pc[t] \in {"settle", "done"} /\ mint[t] \notin touched
            => /\ wallet[mint[t]] > 0
               /\ mint[t] \in listed \cap tracked \cap blacklist \cap accounts
               /\ pc[t] = "done" => tasks[mint[t]] \in Buys \ cancelled

Live(t) == monitor[t] \notin {"none", "ended"}

\* A monitor that runs, has not been cancelled and cannot be (its token is not
\* in the registry) was displaced by a second buy of the same token:
\* setup_selling_strategy is the only way to lose a cancellation token.
OrphanWasDisplaced ==
    \A t \in Buys :
        Live(t) /\ t \notin cancelled /\ tasks[mint[t]] # t
            => \E u \in Buys \ {t} : mint[u] = mint[t] /\ monitor[u] # "none"

\* Nobody watches a token that was bought: its monitors have ended or are
\* cancelled, and no handler is past the blacklist and about to start one.
Unwatched(m) ==
    /\ m \in blacklist
    /\ \A t \in Buys :
          mint[t] = m =>
             /\ pc[t] \notin (BuyingPC \ {"blacklist"}) \cup {"settle"}
             /\ Live(t) => t \in cancelled

\* "Cancel monitoring for this token since it's been sold": the sell has only
\* been accepted by the relay, and a monitor ends with its stream, too.  Once
\* that has happened to tokens the wallet still holds they are not watched any
\* more: the blacklist that keeps them from being bought again is also what keeps
\* every path to a new monitor closed.
AbandonedForGood ==
    [][\A m \in Mints : Unwatched(m) /\ wallet[m] > 0 /\ restarts' = restarts
                           => Unwatched(m)']_vars

\* "Remove from tracking since all tokens were sold" jams the process instead: the
\* handler of a large sell that was confirmed waits for its own guard and keeps
\* it, so that its token stays listed whoever finds it gone, and clean-up, which
\* must lock every entry, never begins a round again, for this or any other token.
JamFinal ==
    [][\A w \in Whales :
          pc[w] = "whaleRemove" /\ restarts' = restarts
             => /\ pc'[w] = "whaleRemove" /\ guard'[mint[w]] = w
                /\ mint[w] \in listed'
                /\ sweepMode = "idle" => sweepMode' = "idle"]_vars

\* Never rebuy, as far as the code keeps it: BuyOnce, where the set of tokens
\* bought is the blacklist and a buy is committed once a transaction exists.
Stage(t) ==
    CASE buyTx[t] # "none" -> "committed"
      [] buyTx[t] = "none" /\ pc[t] = "idle" -> "new"
      [] buyTx[t] = "none" /\ pc[t] \in {"admit", "blacklist"} -> "open"
      [] buyTx[t] = "none" /\ pc[t] \in {"build", "send"} -> "cleared"
      [] OTHER -> "closed"

Promise == INSTANCE BuyOnce WITH
              stage <- [t \in Buys |-> Stage(t)],
              token <- [t \in Buys |-> mint[t]],
              bought <- blacklist

\* The handlers keep the promise of BuyOnce whatever monitors, clean-up, the
\* chain and restarts do meanwhile: nothing but a restart takes a token off the
\* blacklist, and no path to the relay goes around the check.
KeepsPromise == Promise!Spec

\* A monitor's life, without what it sells.
Life(t) ==
    CASE monitor[t] = "none" -> "off"
      [] monitor[t] = "connecting" -> "starting"
      [] monitor[t] = "ended" -> "ended"
      [] OTHER -> "watching"

Lives == INSTANCE MonitorLife WITH Monitors <- Buys,
                                   life <- [t \in Buys |-> Life(t)]

\* However often a token is bought, sold by others' monitors, cleaned up and
\* cancelled, its monitor is started once, before it can be cancelled, opens one
\* stream, and stays ended: the life StreamSession gives a monitor, too.
MonitorsLive == Lives!Spec

\* Somebody keeps a lock for ever: a whale handler the entry of its token, waiting
\* for itself or for a call that does not return, or a monitor the metrics of the
\* token it sells, for want of an answer.  Who needs them waits as long and takes
\* a thread along, so that there may be none left for anybody else.
Stuck ==
    \/ \E m \in Mints : [](~Unguarded(m))
    \/ \E t \in Buys : [](monitor[t] \in SellingState)

\* The handler of a target's buy returns, whatever the chain does with the buy,
\* unless it waits for ever for a blockhash and the relay, or the process is stuck.
HandlersFinish ==
    \A t \in Buys :
        pc[t] = "admit" ~> pc[t] \in FinishedPC \/ [](pc[t] = "send") \/ Stuck

\* The slot of an active token that is no longer held is given back, whether it
\* was sold by its monitor, another's or a whale handler, and whichever tables
\* still know it, unless the token is bought again or the process is stuck.  (A
\* confirmed whale sale does get it stuck: WhaleSaleUntracks, JamFinal.)
SlotFreed ==
    \A m \in Mints :
        m \in tracked /\ wallet[m] = 0 ~> m \notin tracked \/ wallet[m] > 0 \/ Stuck

\* A cancelled monitor ends, even in a stream that never pauses, unless a sale it
\* is in or another lock it needs keeps it for ever.
CancelledMonitorEnds ==
    \A t \in Buys : t \in cancelled ~> monitor[t] = "ended" \/ Stuck

-----------------------------------------------------------------------------
(* What comments and documents of the repository say, and the code does not *)
(* do (the violation runs).                                                 *)

\* "Permanent blacklist for tokens that have been bought before (never rebuy)"
NeverRebuy ==
    \A t, u \in Buys :
        t # u /\ mint[t] = mint[u] => ~(buyTx[t] = "landed" /\ buyTx[u] = "landed")

\* "Remove from tracking since all tokens were sold"
WhaleSaleUntracks ==
    \A t \in Whales : pc[t] = "whaleRemove" ~> mint[t] \notin tracked
=============================================================================
