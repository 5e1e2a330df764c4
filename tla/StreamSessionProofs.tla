------------------------- MODULE StreamSessionProofs -------------------------
(***************************************************************************)
(* Theorems about StreamSession, for any monitors and number of retries.   *)
(***************************************************************************)
EXTENDS StreamSession, TLAPS

\* Before trading every session is off.  A session that has no stream yet has no
\* link, and none before its request is sent has a heartbeat; a heartbeat that
\* has ended was told so by a broken link, and a broken link does not heal.
\* The wallet task never ends by itself.  After the process has gone nothing is
\* left of either.
SInv ==
    /\ TypeOK
    /\ main \in Boot =>
          \A s \in Sessions : pc[s] = "off" /\ beat[s] = "none" /\ link[s] = "none"
    /\ \A s \in Beaters :
          /\ pc[s] # "backoff"
          /\ pc[s] \in {"off", "connect", "subscribe", "pause"} =>
                link[s] = "none" /\ beat[s] = "none"
          /\ pc[s] = "request" => beat[s] = "none"
          /\ pc[s] = "open" => link[s] # "none" /\ beat[s] # "none"
          /\ beat[s] = "stopped" => link[s] = "broken" \/ main = "exited"
    /\ pc[Wallet] = "ended" => main = "exited"
    /\ main = "exited" =>
          \A s \in Sessions :
             pc[s] \in {"off", "ended"} /\ beat[s] # "beating" /\ link[s] = "none"

\* Nothing is open before main has booted.
LEMMA SessionInit == Init => SInv
  BY SessionAssumption DEF Init, SInv, TypeOK, Boot, Live, Sessions, Beaters

\* What main does touches no session before trading and all of them at the end.
LEMMA SessionMain ==
    ASSUME SInv, StartBlockhash \/ LoadWallet \/ StartTrading \/ Exit
    PROVE  SInv'
  <1> USE SessionAssumption DEF SInv, TypeOK, Boot, Live, Sessions, Beaters, Stage
  <1>1. CASE StartBlockhash
    BY <1>1 DEF StartBlockhash
  <1>2. CASE LoadWallet
    BY <1>2 DEF LoadWallet
  <1>3. CASE StartTrading
    BY <1>3 DEF StartTrading
  <1>4. CASE Exit
    BY <1>4 DEF Exit
  <1> QED
    BY <1>1, <1>2, <1>3, <1>4

\* A session runs only while the process does.
LEMMA SessionRun ==
    ASSUME SInv, NEW s \in Sessions, Run(s)
    PROVE  SInv'
  <1> USE SessionAssumption DEF SInv, TypeOK, Boot, Live, Sessions, Beaters, Goto
  <1>1. CASE Connect(s) \/ ConnectFails(s) \/ Resume(s)
    BY <1>1 DEF Connect, ConnectFails, Resume, Failed
  <1>2. CASE Subscribe(s)
    BY <1>2 DEF Subscribe
  <1>3. CASE SubscribeFails(s)
    BY <1>3 DEF SubscribeFails, RetryOrFail, Failed
  <1>4. CASE Request(s)
    BY <1>4 DEF Request
  <1>5. CASE RequestFails(s)
    BY <1>5 DEF RequestFails, Failed
  <1> QED
    BY <1>1, <1>2, <1>3, <1>4, <1>5 DEF Run

\* Every step keeps the sessions, their streams and their heartbeats in accord.
LEMMA SessionNext == SInv /\ [Next]_vars => SInv'
  <1> SUFFICES ASSUME SInv, [Next]_vars
               PROVE  SInv'
    OBVIOUS
  <1>1. CASE StartBlockhash \/ LoadWallet \/ StartTrading \/ Exit
    BY <1>1, SessionMain
  <1>2. ASSUME NEW s \in Sessions, Run(s)
        PROVE  SInv'
    BY <1>2, SessionRun
  <1> USE SessionAssumption DEF SInv, TypeOK, Boot, Live, Sessions, Beaters, Goto
  <1>3. ASSUME NEW s \in Sessions, StreamEnds(s)
        PROVE  SInv'
    BY <1>3 DEF StreamEnds, Release, Failed
  <1>4. ASSUME NEW s \in Sessions, LinkBreaks(s)
        PROVE  SInv'
    BY <1>4 DEF LinkBreaks
  <1>5. ASSUME NEW s \in Beaters, BeatFails(s)
        PROVE  SInv'
    BY <1>5 DEF BeatFails
  <1>6. ASSUME NEW m \in Monitors, Spawn(m) \/ Cancel(m) \/ MonitorCancelled(m)
        PROVE  SInv'
    BY <1>6 DEF Spawn, Cancel, MonitorCancelled, Release
  <1>7. CASE UNCHANGED vars
    BY <1>7 DEF vars
  <1> QED
    BY <1>1, <1>2, <1>3, <1>4, <1>5, <1>6, <1>7 DEF Next

\* At any time.
LEMMA SessionInvariant == Spec => []SInv
  BY SessionInit, SessionNext, PTL DEF Spec

\* Sessions, links and heartbeats keep their types; in particular nobody tries
\* again after the last retry.
THEOREM TypeCorrect == Spec => []TypeOK
  <1>1. SInv => TypeOK
    BY DEF SInv
  <1> QED
    BY <1>1, SessionInvariant, PTL

\* An open stream that works is kept alive.
THEOREM OpenStreamsBeat == Spec => []OpenStreamBeats
  <1>1. SInv => OpenStreamBeats
    BY DEF SInv, TypeOK, OpenStreamBeats, Sessions, Beaters
  <1> QED
    BY <1>1, SessionInvariant, PTL

\* No step but a failed ping and the end of the process stops a heartbeat, so the
\* end of its session does not.
THEOREM BeatsStopOnlyBroken == Spec => BeatStopsOnlyBroken
  <1>1. ASSUME SInv, [Next]_vars, NEW s \in Beaters,
               beat[s] = "beating", beat'[s] # "beating"
        PROVE  link[s] = "broken" \/ main' = "exited"
    <2> USE <1>1, SessionAssumption DEF SInv, TypeOK, Sessions, Beaters
    <2>1. CASE StartBlockhash \/ LoadWallet \/ StartTrading \/ Exit
      BY <2>1 DEF StartBlockhash, LoadWallet, StartTrading, Exit
    <2>2. ASSUME NEW r \in Sessions, Run(r)
          PROVE  link[s] = "broken"
      BY <2>2 DEF Run, Connect, ConnectFails, Subscribe, SubscribeFails, Resume,
                  Request, RequestFails
    <2>3. ASSUME NEW r \in Sessions, StreamEnds(r) \/ LinkBreaks(r)
          PROVE  link[s] = "broken"
      BY <2>3 DEF StreamEnds, LinkBreaks
    <2>4. ASSUME NEW r \in Beaters, BeatFails(r)
          PROVE  link[s] = "broken"
      BY <2>4 DEF BeatFails
    <2>5. ASSUME NEW m \in Monitors, Spawn(m) \/ Cancel(m) \/ MonitorCancelled(m)
          PROVE  link[s] = "broken"
      BY <2>5 DEF Spawn, Cancel, MonitorCancelled
    <2>6. CASE UNCHANGED vars
      BY <2>6 DEF vars
    <2> QED
      BY <2>1, <2>2, <2>3, <2>4, <2>5, <2>6 DEF Next
  <1>2. SInv /\ [Next]_vars
          => [\A s \in Beaters : beat[s] = "beating" /\ beat'[s] # "beating"
                 => link[s] = "broken" \/ main' = "exited"]_vars
    BY <1>1
  <1> QED
    BY <1>2, SessionInvariant, PTL DEF Spec, BeatStopsOnlyBroken

-----------------------------------------------------------------------------
(* How sessions end.                                                        *)

\* A step that moves a session of the target or a monitor brings it nearer to
\* its end.
LEMMA StepsGoDown ==
    ASSUME SInv, [Next]_vars, NEW s \in Beaters, pc'[s] # pc[s]
    PROVE  StepsLeft(s)' < StepsLeft(s)
  <1> USE SessionAssumption
      DEF SInv, TypeOK, Live, Sessions, Beaters, Goto, StepsLeft
  <1>1. CASE StartBlockhash \/ LoadWallet
    BY <1>1 DEF StartBlockhash, LoadWallet
  <1>2. CASE StartTrading
    BY <1>2 DEF StartTrading, Stage, Boot
  <1>3. CASE Exit
    BY <1>3 DEF Exit
  <1>4. ASSUME NEW r \in Sessions, Run(r)
        PROVE  StepsLeft(s)' < StepsLeft(s)
    <2>1. CASE Connect(r) \/ ConnectFails(r)
      BY <2>1 DEF Connect, ConnectFails, Failed
    <2>2. CASE Subscribe(r)
      <3>1. r = s /\ pc[s] = "subscribe" /\ pc'[s] = "request" /\ errors' = errors
        BY <2>2 DEF Subscribe
      <3>2. errors[s] \in Nat /\ errors[s] < MaxRetries
        BY <3>1
      <3> QED
        BY <3>1, <3>2
    <2>3. CASE SubscribeFails(r)
      BY <2>3 DEF SubscribeFails, RetryOrFail, Failed
    <2>4. CASE Resume(r)
      BY <2>4 DEF Resume
    <2>5. CASE Request(r) \/ RequestFails(r)
      BY <2>5 DEF Request, RequestFails, Failed
    <2> QED
      BY <1>4, <2>1, <2>2, <2>3, <2>4, <2>5 DEF Run
  <1>5. ASSUME NEW r \in Sessions, StreamEnds(r) \/ LinkBreaks(r)
        PROVE  StepsLeft(s)' < StepsLeft(s)
    BY <1>5 DEF StreamEnds, LinkBreaks, Failed
  <1>6. ASSUME NEW r \in Beaters, BeatFails(r)
        PROVE  StepsLeft(s)' < StepsLeft(s)
    BY <1>6 DEF BeatFails
  <1>7. ASSUME NEW m \in Monitors, Spawn(m) \/ Cancel(m) \/ MonitorCancelled(m)
        PROVE  StepsLeft(s)' < StepsLeft(s)
    BY <1>7 DEF Spawn, Cancel, MonitorCancelled
  <1>8. CASE UNCHANGED vars
    BY <1>8 DEF vars
  <1> QED
    BY <1>1, <1>2, <1>3, <1>4, <1>5, <1>6, <1>7, <1>8 DEF Next

\* However many retries are allowed, the target's session and each monitor's run
\* down; none starts over or loops.
THEOREM SessionsWindDown == Spec => WindsDown
  <1>1. SInv /\ [Next]_vars
          => [\A s \in Beaters : pc'[s] # pc[s]
                 => StepsLeft(s)' < StepsLeft(s)]_vars
    BY StepsGoDown
  <1> QED
    BY <1>1, SessionInvariant, PTL DEF Spec, WindsDown

\* start_copy_trading is not called again, and no monitor is revived: the end of
\* the target's session, and of each monitor's, is its last state.
THEOREM EndsAreFinal ==
    Spec => [][\A s \in Beaters : pc[s] = "ended" => pc'[s] = "ended"]_vars
  <1>1. ASSUME SInv, SInv', [Next]_vars, NEW s \in Beaters, pc[s] = "ended"
        PROVE  pc'[s] = "ended"
    <2>1. StepsLeft(s) = 0
      BY <1>1 DEF StepsLeft
    <2>2. StepsLeft(s)' \in Nat
      BY <1>1, SessionAssumption DEF SInv, TypeOK, StepsLeft, Sessions, Beaters, Live
    <2> QED
      BY <1>1, <2>1, <2>2, StepsGoDown
  <1>2. SInv /\ SInv' /\ [Next]_vars
          => [\A s \in Beaters : pc[s] = "ended" => pc'[s] = "ended"]_vars
    BY <1>1
  <1> QED
    BY <1>2, SessionInvariant, PTL DEF Spec

\* When main has returned, no session lives, no heartbeat beats, no stream is
\* held, and nothing happens any more; this is what TargetEndEndsAll waits for.
THEOREM NothingSurvivesExit ==
    Spec => /\ [](main = "exited" =>
                     \A s \in Sessions :
                        pc[s] \notin Live /\ beat[s] # "beating" /\ link[s] = "none")
            /\ [][main # "exited"]_vars
  <1>1. SInv => (main = "exited" =>
                   \A s \in Sessions :
                      pc[s] \notin Live /\ beat[s] # "beating" /\ link[s] = "none")
    BY DEF SInv, Live
  <1>2. ASSUME SInv, Next, main = "exited"
        PROVE  FALSE
    <2> USE <1>2, SessionAssumption DEF SInv, TypeOK, Sessions, Beaters, Goto
    <2>1. ~(StartBlockhash \/ LoadWallet \/ StartTrading \/ Exit)
      BY DEF StartBlockhash, LoadWallet, StartTrading, Exit, Stage
    <2>2. ASSUME NEW s \in Sessions
          PROVE  ~(Run(s) \/ StreamEnds(s) \/ LinkBreaks(s))
      BY <2>2 DEF Run, Connect, ConnectFails, Subscribe, SubscribeFails,
                  RetryOrFail, Resume, Request, RequestFails, StreamEnds, LinkBreaks
    <2>3. ASSUME NEW s \in Beaters
          PROVE  ~BeatFails(s)
      BY <2>3 DEF BeatFails
    <2>4. ASSUME NEW m \in Monitors
          PROVE  ~(Spawn(m) \/ Cancel(m) \/ MonitorCancelled(m))
      BY <2>4 DEF Spawn, Cancel, MonitorCancelled
    <2> QED
      BY <2>1, <2>2, <2>3, <2>4 DEF Next
  <1>3. SInv /\ [Next]_vars => [main # "exited"]_vars
    BY <1>2
  <1> QED
    BY <1>1, <1>3, SessionInvariant, PTL DEF Spec

\* The wallet task is the other way round: no error ends it, only the end of the
\* process does; this is what WalletListensAgain starts from.
THEOREM WalletOutlivesErrors == Spec => [](pc[Wallet] = "ended" => main = "exited")
  <1>1. SInv => (pc[Wallet] = "ended" => main = "exited")
    BY DEF SInv
  <1> QED
    BY <1>1, SessionInvariant, PTL

-----------------------------------------------------------------------------
(* StreamSession implements MonitorLife.                                    *)

\* One monitor moves on in its life, or not, while the others stay where they
\* are and nobody is cancelled.
LEMMA LivesBecome ==
    ASSUME NEW m \in Monitors, cancelled' = cancelled,
           \A n \in Monitors \ {m} : Life(n)' = Life(n),
           \/ Life(m) = "off" /\ Life(m)' = "starting"
           \/ Life(m) = "starting" /\ Life(m)' = "watching"
           \/ Life(m) \in {"starting", "watching"} /\ Life(m)' = "ended"
           \/ Life(m)' = Life(m)
    PROVE  [Lives!Next]_(Lives!vars)
  <1>1. ASSUME NEW to, Life(m)' = to
        PROVE  [n \in Monitors |-> Life(n)']
                  = [[n \in Monitors |-> Life(n)] EXCEPT ![m] = to]
    BY <1>1
  <1>2. CASE Life(m) = "off" /\ Life(m)' = "starting"
    BY <1>1, <1>2 DEF Lives!Start, Lives!Become, Lives!Next
  <1>3. CASE Life(m) = "starting" /\ Life(m)' = "watching"
    BY <1>1, <1>3 DEF Lives!Watch, Lives!Become, Lives!Next
  <1>4. CASE Life(m) \in {"starting", "watching"} /\ Life(m)' = "ended"
    BY <1>1, <1>4 DEF Lives!End, Lives!Become, Lives!Next
  <1>5. CASE Life(m)' = Life(m)
    BY <1>5 DEF Lives!vars
  <1> QED
    BY <1>2, <1>3, <1>4, <1>5

\* Steps of the target and of the wallet task, of links and of heartbeats do not
\* show.
LEMMA LivesStutter ==
    ASSUME cancelled' = cancelled, \A m \in Monitors : pc'[m] = pc[m]
    PROVE  UNCHANGED Lives!vars
  BY DEF Lives!vars, Life

\* What main does to monitors: nothing, or they die with it.
LEMMA LivesMain ==
    ASSUME SInv, StartBlockhash \/ LoadWallet \/ StartTrading \/ Exit
    PROVE  [Lives!Next]_(Lives!vars)
  <1> USE SessionAssumption DEF SInv, TypeOK, Boot, Sessions, Beaters, Stage
  <1>1. CASE StartBlockhash \/ LoadWallet
    BY <1>1, LivesStutter DEF StartBlockhash, LoadWallet
  <1>2. CASE StartTrading
    <2>1. cancelled' = cancelled /\ \A m \in Monitors : pc'[m] = pc[m]
      BY <1>2 DEF StartTrading
    <2> QED
      BY <2>1, LivesStutter
  <1>3. CASE Exit
    <2>1. \A m \in Monitors : Life(m)' = IF Life(m) = "off" THEN "off" ELSE "ended"
      BY <1>3 DEF Exit, Life
    <2>2. Lives!Die
      BY <1>3, <2>1 DEF Exit, Lives!Die
    <2> QED
      BY <2>2 DEF Lives!Next
  <1> QED
    BY <1>1, <1>2, <1>3

\* What a session does by itself, or its stream makes it do: retries and pauses
\* of a monitor do not show either.
LEMMA LivesSession ==
    ASSUME SInv, NEW s \in Sessions, Run(s) \/ StreamEnds(s) \/ LinkBreaks(s)
    PROVE  [Lives!Next]_(Lives!vars)
  <1> USE SessionAssumption DEF SInv, TypeOK, Live, Sessions, Beaters, Goto
  <1>1. cancelled' = cancelled /\ \A m \in Monitors \ {s} : pc'[m] = pc[m]
    BY DEF Run, Connect, ConnectFails, Subscribe, SubscribeFails, RetryOrFail, Resume,
           Request, RequestFails, StreamEnds, LinkBreaks
  <1>2. CASE s \notin Monitors
    BY <1>1, <1>2, LivesStutter
  <1>3. CASE s \in Monitors
    <2>1. \A n \in Monitors \ {s} : Life(n)' = Life(n)
      BY <1>1 DEF Life
    <2>2. \/ Life(s) = "starting" /\ Life(s)' = "watching"
          \/ Life(s) \in {"starting", "watching"} /\ Life(s)' = "ended"
          \/ Life(s)' = Life(s)
      <3>1. CASE Connect(s) \/ ConnectFails(s) \/ Subscribe(s) \/ Resume(s)
        BY <1>3, <3>1 DEF Connect, ConnectFails, Subscribe, Resume, Failed, Life
      <3>2. CASE SubscribeFails(s)
        BY <1>3, <3>2 DEF SubscribeFails, RetryOrFail, Life
      <3>3. CASE Request(s) \/ RequestFails(s)
        BY <1>3, <3>3 DEF Request, RequestFails, Failed, Life
      <3>4. CASE StreamEnds(s) \/ LinkBreaks(s)
        BY <1>3, <3>4 DEF StreamEnds, LinkBreaks, Failed, Life
      <3> QED
        BY <3>1, <3>2, <3>3, <3>4 DEF Run
    <2> QED
      BY <1>1, <1>3, <2>1, <2>2, LivesBecome
  <1> QED
    BY <1>2, <1>3

\* A monitor is spawned, cancelled, or notices that it was.
LEMMA LivesMonitor ==
    ASSUME SInv, NEW m \in Monitors, Spawn(m) \/ Cancel(m) \/ MonitorCancelled(m)
    PROVE  [Lives!Next]_(Lives!vars)
  <1> USE SessionAssumption DEF SInv, TypeOK, Live, Sessions, Beaters, Goto
  <1>1. CASE Spawn(m)
    <2>1. \A n \in Monitors \ {m} : Life(n)' = Life(n)
      BY <1>1 DEF Spawn, Life
    <2>2. Life(m) = "off" /\ Life(m)' = "starting" /\ cancelled' = cancelled
      BY <1>1 DEF Spawn, Life
    <2> QED
      BY <2>1, <2>2, LivesBecome
  <1>2. CASE Cancel(m)
    <2>1. Life(m) # "off" /\ \A n \in Monitors : Life(n)' = Life(n)
      BY <1>2 DEF Cancel, Life
    <2>2. Lives!Cancel(m)
      BY <1>2, <2>1 DEF Cancel, Lives!Cancel
    <2> QED
      BY <2>2 DEF Lives!Next
  <1>3. CASE MonitorCancelled(m)
    <2>1. \A n \in Monitors \ {m} : Life(n)' = Life(n)
      BY <1>3 DEF MonitorCancelled, Life
    <2>2. Life(m) = "watching" /\ Life(m)' = "ended" /\ cancelled' = cancelled
      BY <1>3 DEF MonitorCancelled, Life
    <2> QED
      BY <2>1, <2>2, LivesBecome
  <1> QED
    BY <1>1, <1>2, <1>3

\* Every step of the process is one of the monitors' lives or leaves them alone.
LEMMA LivesNext == SInv /\ [Next]_vars => [Lives!Next]_(Lives!vars)
  <1> SUFFICES ASSUME SInv, [Next]_vars
               PROVE  [Lives!Next]_(Lives!vars)
    OBVIOUS
  <1>1. CASE StartBlockhash \/ LoadWallet \/ StartTrading \/ Exit
    BY <1>1, LivesMain
  <1>2. ASSUME NEW s \in Sessions, Run(s) \/ StreamEnds(s) \/ LinkBreaks(s)
        PROVE  [Lives!Next]_(Lives!vars)
    BY <1>2, LivesSession
  <1>3. ASSUME NEW s \in Beaters, BeatFails(s)
        PROVE  [Lives!Next]_(Lives!vars)
    BY <1>3, LivesStutter DEF BeatFails
  <1>4. ASSUME NEW m \in Monitors, Spawn(m) \/ Cancel(m) \/ MonitorCancelled(m)
        PROVE  [Lives!Next]_(Lives!vars)
    BY <1>4, LivesMonitor
  <1>5. CASE UNCHANGED vars
    BY <1>5, LivesStutter DEF vars
  <1> QED
    BY <1>1, <1>2, <1>3, <1>4, <1>5 DEF Next

\* The sessions of the monitors implement the life of monitors, the same that the
\* trading core implements without their streams.
THEOREM SessionsLiveOnce == Spec => SessionsLive
  <1>1. Init => Lives!Init
    BY SessionAssumption DEF Init, Lives!Init, Life, Sessions, Beaters
  <1> QED
    BY <1>1, LivesNext, SessionInvariant, PTL DEF Spec, SessionsLive, Lives!Spec
=============================================================================
