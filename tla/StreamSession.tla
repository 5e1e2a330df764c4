----------------------------- MODULE StreamSession -----------------------------
(***************************************************************************)
(* The life of the process and of its gRPC streams: main boots and trades  *)
(* (src/src/main.rs), start_copy_trading follows the target, each token    *)
(* monitor follows its token, and a wallet task follows the bot's own      *)
(* wallet over a second endpoint (src/src/engine/copy_trading.rs).  What   *)
(* the messages of a stream do is CopyTrading's business.                  *)
(*                                                                         *)
(* The target and the monitors have a heartbeat task that pings through    *)
(* the sender of their stream and shares its ownership.  How the library   *)
(* and the server end a stream is external: a link is "half" when its      *)
(* reader is gone or the server has said its last word but a ping can      *)
(* still be sent, and "broken" when nothing can; a half link may break     *)
(* later or never.                                                         *)
(***************************************************************************)
EXTENDS Naturals

CONSTANTS
    Target,      \* the session of start_copy_trading
    Wallet,      \* the session of start_wallet_monitoring_internal
    Monitors,    \* sessions of monitor_token_for_selling
    MaxRetries   \* MAX_RETRIES

Beaters == {Target} \cup Monitors
Sessions == Beaters \cup {Wallet}

ASSUME SessionAssumption ==
    /\ Target # Wallet /\ {Target, Wallet} \cap Monitors = {}
    /\ MaxRetries \in Nat \ {0}

VARIABLES
    main,       \* how far main has come
    pc,         \* where each session stands
    errors,     \* retry_count of each session
    link,       \* the stream behind each session
    beat,       \* its heartbeat task
    cancelled   \* monitors whose cancellation token was cancelled

vars == <<main, pc, errors, link, beat, cancelled>>

Boot == {"blockhash", "accounts", "existing", "targets"}
Live == {"connect", "subscribe", "pause", "request", "open", "backoff"}

TypeOK ==
    /\ main \in Boot \cup {"trading", "exited"}
    /\ pc \in [Sessions -> Live \cup {"off", "ended"}]
    /\ errors \in [Sessions -> 0..MaxRetries]
    /\ \A s \in Sessions : errors[s] = MaxRetries => pc[s] = "ended"
    /\ link \in [Sessions -> {"none", "up", "half", "broken"}]
    /\ beat \in [Sessions -> {"none", "beating", "stopped"}]
    /\ cancelled \subseteq Monitors

Init ==
    /\ main = "blockhash"
    /\ pc = [s \in Sessions |-> "off"]
    /\ errors = [s \in Sessions |-> 0]
    /\ link = [s \in Sessions |-> "none"]
    /\ beat = [s \in Sessions |-> "none"]
    /\ cancelled = {}

Goto(s, from, to) == pc[s] = from /\ pc' = [pc EXCEPT ![s] = to]

-----------------------------------------------------------------------------
(* main.                                                                    *)

\* main goes on to its next stage, or returns.
Stage(from, to) == main = from /\ main' \in {to, "exited"}

\* The blockhash processor starts, or main returns; so it does after a --wrap,
\* --unwrap or --close.
StartBlockhash ==
    /\ Stage("blockhash", "accounts")
    /\ UNCHANGED <<pc, errors, link, beat, cancelled>>

\* The wallet's accounts are listed, and metrics made for the tokens found
\* there; an error of either is only reported.
LoadWallet ==
    /\ \/ main = "accounts" /\ main' = "existing"
       \/ main = "existing" /\ main' = "targets"
    /\ UNCHANGED <<pc, errors, link, beat, cancelled>>

\* main returns when no target is named or its tokens cannot be listed;
\* otherwise start_copy_trading spawns the wallet task, if a second endpoint is
\* configured, and connects.
StartTrading ==
    /\ Stage("targets", "trading")
    /\ IF main' = "exited" THEN UNCHANGED pc
       ELSE \E spawned \in {{Target}, {Target, Wallet}} :
               pc' = [s \in Sessions |-> IF s \in spawned THEN "connect" ELSE "off"]
    /\ UNCHANGED <<errors, link, beat, cancelled>>

\* (mutant of Exit: start_copy_trading is called again)
Reconnect ==
    /\ main = "trading"
    /\ Goto(Target, "ended", "connect")
    /\ errors' = [errors EXCEPT ![Target] = 0]
    /\ link' = [link EXCEPT ![Target] = "none"]
    /\ UNCHANGED <<main, beat, cancelled>>

\* start_copy_trading has returned, with a result or an error, and so does main:
\* the runtime drops every task that is left.
Exit ==
    /\ main = "trading" /\ pc[Target] = "ended"
    /\ main' = "exited"
    /\ pc' = [s \in Sessions |-> IF pc[s] = "off" THEN "off" ELSE "ended"]
    /\ link' = [s \in Sessions |-> "none"]
    /\ beat' = [s \in Sessions |-> IF beat[s] = "none" THEN "none" ELSE "stopped"]
    /\ UNCHANGED <<errors, cancelled>>

-----------------------------------------------------------------------------
(* A session.                                                               *)

\* (mutant of Failed: the wallet task ends like the others)
FailedForGood(s) == "ended"

\* After an error the wallet task waits and starts over; the others return.
Failed(s) == IF s = Wallet THEN "backoff" ELSE "ended"

Connect(s) ==
    /\ Goto(s, "connect", "subscribe")
    /\ UNCHANGED <<main, errors, link, beat, cancelled>>

ConnectFails(s) ==
    /\ Goto(s, "connect", Failed(s))
    /\ UNCHANGED <<main, errors, link, beat, cancelled>>

Subscribe(s) ==
    /\ Goto(s, "subscribe", "request")
    /\ link' = [link EXCEPT ![s] = "up"]
    /\ UNCHANGED <<main, errors, beat, cancelled>>

\* (mutant of RetryOrFail: one try more)
RetryOnceMore(s) ==
    /\ errors' = [errors EXCEPT ![s] = @ + 1]
    /\ Goto(s, "subscribe", IF errors'[s] > MaxRetries THEN "ended" ELSE "pause")

\* (mutant of RetryOrFail: every try starts the count anew)
RetryUncounted(s) ==
    /\ errors' = [errors EXCEPT ![s] = 1]
    /\ Goto(s, "subscribe", IF errors'[s] >= MaxRetries THEN "ended" ELSE "pause")

\* A failed try is counted; the last one allowed ends the session.
RetryOrFail(s) ==
    /\ errors' = [errors EXCEPT ![s] = @ + 1]
    /\ Goto(s, "subscribe", IF errors'[s] >= MaxRetries THEN "ended" ELSE "pause")

SubscribeFails(s) ==
    /\ IF s = Wallet THEN Goto(s, "subscribe", Failed(s)) /\ UNCHANGED errors
                     ELSE RetryOrFail(s)
    /\ UNCHANGED <<main, link, beat, cancelled>>

\* The 5 seconds between tries, the 10 seconds of the wallet task.
Resume(s) ==
    /\ Goto(s, "pause", "subscribe") \/ Goto(s, "backoff", "connect")
    /\ UNCHANGED <<main, errors, link, beat, cancelled>>

\* (mutant of Request: a monitor has no heartbeat)
RequestQuiet(s) ==
    /\ link[s] = "up"
    /\ Goto(s, "request", "open")
    /\ beat' = IF s = Target THEN [beat EXCEPT ![s] = "beating"] ELSE beat
    /\ UNCHANGED <<main, errors, link, cancelled>>

\* The request is sent, and the heartbeat spawned.
Request(s) ==
    /\ link[s] = "up"
    /\ Goto(s, "request", "open")
    /\ beat' = IF s = Wallet THEN beat ELSE [beat EXCEPT ![s] = "beating"]
    /\ UNCHANGED <<main, errors, link, cancelled>>

\* Sender and reader are dropped together.
RequestFails(s) ==
    /\ link[s] = "broken"
    /\ Goto(s, "request", Failed(s))
    /\ link' = [link EXCEPT ![s] = "none"]
    /\ UNCHANGED <<main, errors, beat, cancelled>>

\* A session lets go of its stream.  Only the heartbeat, if there is one, still
\* holds the sender.
Release(s) ==
    link' = [link EXCEPT ![s] = IF s = Wallet THEN "none"
                                ELSE IF @ = "up" THEN "half" ELSE @]

\* The stream ends or reports an error.  A wallet stream that just ends is
\* opened again at once.
StreamEnds(s) ==
    /\ \/ Goto(s, "open", Failed(s))
       \/ s = Wallet /\ Goto(s, "open", "connect")
    /\ Release(s)
    /\ UNCHANGED <<main, errors, beat, cancelled>>

\* (mutant of MonitorCancelled: the heartbeat respects cancellation)
MonitorStopsBeat(m) ==
    /\ m \in cancelled
    /\ Goto(m, "open", "ended")
    /\ Release(m)
    /\ beat' = [beat EXCEPT ![m] = "stopped"]
    /\ UNCHANGED <<main, errors, cancelled>>

\* (mutant of MonitorCancelled: only what the stream brings wakes the loop)
MonitorDeaf(m) ==
    /\ m \in cancelled /\ link[m] = "broken"
    /\ Goto(m, "open", "ended")
    /\ Release(m)
    /\ UNCHANGED <<main, errors, beat, cancelled>>

\* The loop of a monitor notices its cancellation; nothing before the loop does.
MonitorCancelled(m) ==
    /\ m \in cancelled
    /\ Goto(m, "open", "ended")
    /\ Release(m)
    /\ UNCHANGED <<main, errors, beat, cancelled>>

\* A ping cannot be sent.
BeatFails(s) ==
    /\ beat[s] = "beating" /\ link[s] = "broken"
    /\ beat' = [beat EXCEPT ![s] = "stopped"]
    /\ UNCHANGED <<main, pc, errors, link, cancelled>>

-----------------------------------------------------------------------------
(* What happens to sessions from outside.                                   *)

\* A handler of the target's trades, which may outlive the stream it came from,
\* has bought a token.
Spawn(m) ==
    /\ main = "trading" /\ pc[Target] \in {"open", "ended"}
    /\ Goto(m, "off", "connect")
    /\ UNCHANGED <<main, errors, link, beat, cancelled>>

\* The token is sold or found gone.
Cancel(m) ==
    /\ main = "trading" /\ pc[m] # "off" /\ m \notin cancelled
    /\ cancelled' = cancelled \cup {m}
    /\ UNCHANGED <<main, pc, errors, link, beat>>

LinkBreaks(s) ==
    /\ link[s] \in {"up", "half"}
    /\ link' = [link EXCEPT ![s] = "broken"]
    /\ UNCHANGED <<main, pc, errors, beat, cancelled>>

\* What a session does by itself.
Run(s) ==
    \/ Connect(s) \/ ConnectFails(s)
    \/ Subscribe(s) \/ SubscribeFails(s)
    \/ Resume(s)
    \/ Request(s) \/ RequestFails(s)

Next ==
    \/ StartBlockhash \/ LoadWallet \/ StartTrading \/ Exit
    \/ \E s \in Sessions : Run(s) \/ StreamEnds(s) \/ LinkBreaks(s)
    \/ \E s \in Beaters : BeatFails(s)
    \/ \E m \in Monitors : Spawn(m) \/ Cancel(m) \/ MonitorCancelled(m)

Spec == Init /\ [][Next]_vars

\* The runtime runs what can run; attempts to connect and pauses come to an end; a
\* broken stream is noticed by its reader; the second endpoint lets itself be
\* reached if it is tried again and again.  What a session does with a message is
\* not modelled here, so this takes every sale for one whose calls, the one for a
\* blockhash included, return: CopyTrading says what becomes of the others.
FairSpec ==
    /\ Spec
    /\ WF_vars(Exit)
    /\ \A s \in Sessions : WF_vars(Run(s))
    /\ \A s \in Beaters : WF_vars(BeatFails(s))
    /\ \A m \in Monitors : WF_vars(MonitorCancelled(m))
    /\ SF_vars(Connect(Wallet)) /\ SF_vars(Subscribe(Wallet)) /\ SF_vars(Request(Wallet))

-----------------------------------------------------------------------------
\* While the process runs, an open stream is kept alive by its heartbeat: it ends
\* neither before its session nor for another's sake.
OpenStreamBeats ==
    \A s \in Beaters : pc[s] = "open" /\ link[s] = "up" => beat[s] = "beating"

\* A heartbeat stops when a ping fails or the process ends, and for no other
\* reason: not because its session is over, nor because it was cancelled.  The
\* stream of a sold token is pinged as long as the library lets it.
BeatStopsOnlyBroken ==
    [][\A s \in Beaters : beat[s] = "beating" /\ beat'[s] # "beating"
          => link[s] = "broken" \/ main' = "exited"]_vars

\* How many steps a session of the target or a monitor has left at most: it
\* starts, connects, takes MaxRetries tries to subscribe with pauses between
\* them, sends its request, and reads its stream to the end.
StepsLeft(s) ==
    LET tries == MaxRetries - errors[s]
    IN CASE pc[s] = "off"       -> 2 * tries + 4
         [] pc[s] = "connect"   -> 2 * tries + 3
         [] pc[s] = "pause"     -> 2 * tries + 3
         [] pc[s] = "subscribe" -> 2 * tries + 2
         [] pc[s] = "request"   -> 2
         [] pc[s] = "open"      -> 1
         [] OTHER               -> 0

\* The target and the monitors go one way only: whatever the servers do, each
\* step of such a session takes it nearer to its end.  No loop of failures and
\* retries keeps it alive, none starts over, and none comes back from its end.
WindsDown ==
    [][\A s \in Beaters : pc'[s] # pc[s] => StepsLeft(s)' < StepsLeft(s)]_vars

\* A monitor's life, without the steps that open its stream.
Life(m) ==
    CASE pc[m] = "off" -> "off"
      [] pc[m] = "open" -> "watching"
      [] pc[m] = "ended" -> "ended"
      [] OTHER -> "starting"

Lives == INSTANCE MonitorLife WITH life <- [m \in Monitors |-> Life(m)]

\* The sessions of the monitors live the life CopyTrading takes for granted:
\* retries and pauses do not show, cancelling one is not yet ending it, and none
\* is started, opened or ended twice.
SessionsLive == Lives!Spec

\* One end of the target's stream, for whatever reason, ends every other session
\* and heartbeat of the process, and nothing is ever opened again.
TargetEndEndsAll ==
    pc[Target] = "ended" ~> [](\A s \in Sessions : pc[s] \notin Live /\ beat[s] # "beating")

\* The wallet task listens again and again, whatever errors it meets, for as long
\* as the process runs.
WalletListensAgain ==
    pc[Wallet] \in Live ~> pc[Wallet] = "open" \/ main = "exited"

\* A cancelled monitor ends, wherever in its session the cancellation finds it (for
\* one that finds it in a sale see CopyTrading!CancelledMonitorEnds).
CancelledSessionEnds == \A m \in Monitors : m \in cancelled ~> pc[m] = "ended"
=============================================================================
