------------------------ MODULE DaemonMonitor_proofs ------------------------
(***************************************************************************)
(* The daemon monitor is alive and pings through one chain, for every      *)
(* choice of the durations in which a ping times out before a retry is     *)
(* due; and the poll loops it starts in the dashboards (StatePolling).     *)
(***************************************************************************)
EXTENDS DaemonMonitor, StatePolling, TLAPS

(* A ping out while Unavailable is over well before the retry is due: it   *)
(* was sent before the deadline was set, at most RequestTimeout ago.       *)
PingBeforeRetry ==
    \A c \in Chains :
        pc[c] \in InFlight =>
            /\ timer[c] =< RequestTimeout
            /\ state = "Unavailable" =>
                  timer[c] + (RetryInterval - RequestTimeout) =< retryAt

(* Health checks are scheduled while Connected only.                       *)
PollsConnected == \A c \in Chains : pc[c] = "poll" => state = "Connected"

(* SinglePing is not inductive alone: a retry must find no ping out and no *)
(* health check scheduled.                                                 *)
IInv ==
    /\ TypeOK
    /\ MonitorAlive
    /\ SinglePing
    /\ PingBeforeRetry
    /\ PollsConnected

-----------------------------------------------------------------------------
USE Durations, TimeoutBeforeRetry
 
LEMMA InitIInv == Init => IInv
<1> SUFFICES ASSUME Init PROVE IInv
  OBVIOUS
<1> USE DEF Init, Chains
<1>1. TypeOK
  BY DEF TypeOK, Nil, States, Steps, InFlight, Answers
<1>2. MonitorAlive
  BY DEF MonitorAlive, InFlight
<1>3. SinglePing
  BY DEF SinglePing, Pinging, InFlight, Answers
<1>4. PingBeforeRetry
  BY DEF PingBeforeRetry, InFlight, Answers
<1>5. PollsConnected
  BY DEF PollsConnected
<1> QED
  BY <1>1, <1>2, <1>3, <1>4, <1>5 DEF IInv

LEMMA NextIInv == IInv /\ [Next]_vars => IInv'
<1> SUFFICES ASSUME IInv, [Next]_vars PROVE IInv'
  OBVIOUS
<1> USE DEF IInv, TypeOK, MonitorAlive, SinglePing, PingBeforeRetry, PollsConnected,
            Chains, States, Steps, InFlight, Answers, Pinging, Nil
<1>1. ASSUME NEW c \in Chains, Ping(c) PROVE IInv'
  BY <1>1 DEF Ping
<1>2. ASSUME NEW c \in Chains, HandleConnected(c) PROVE IInv'
  BY <1>2 DEF HandleConnected, PollDaemonCmd, Continue
<1>3. ASSUME NEW c \in Chains, HandleUnavailable(c) PROVE IInv'
  BY <1>3 DEF HandleUnavailable, Unavailable, DaemonTickCmd, Continue
<1>4. ASSUME NEW c \in Chains, HandleGracePeriodExpired(c) PROVE IInv'
  BY <1>4 DEF HandleGracePeriodExpired, Fires, Unavailable, DaemonTickCmd, NoCmd, Continue
<1>5. ASSUME NEW c \in Chains, HandleTick(c) PROVE IInv'
  BY <1>5 DEF HandleTick, Fires, RetryDue, Connect, DaemonTickCmd, NoCmd, Continue
<1>6. ASSUME NEW c \in Chains, HandlePoll(c) PROVE IInv'
  BY <1>6 DEF HandlePoll, Fires, Connect, NoCmd, Continue
<1>7. CASE Elapse
  BY <1>7 DEF Elapse, CountDown
<1>8. CASE Flip
  BY <1>8 DEF Flip
<1>9. CASE UNCHANGED vars
  BY <1>9 DEF vars
<1> QED
  BY <1>1, <1>2, <1>3, <1>4, <1>5, <1>6, <1>7, <1>8, <1>9 DEF Next, Handle

LEMMA SpecIInv == Spec => []IInv
  BY InitIInv, NextIInv, PTL DEF Spec

(* Type correctness of the topbar's state, its timers and its machine      *)
(* (topbar.go, connection.go).                                             *)
THEOREM TypeCorrect == Spec => []TypeOK
<1>1. IInv => TypeOK
  BY DEF IInv
<1> QED
  BY SpecIInv, <1>1, PTL

(* Whatever the durations, the topbar's retry and health-check loops never *)
(* die in a state they were meant to leave (topbar.go:156-191).            *)
THEOREM AlwaysAlive == Spec => []MonitorAlive
<1>1. IInv => MonitorAlive
  BY DEF IInv
<1> QED
  BY SpecIInv, <1>1, PTL

(* With any request timeout shorter than the retry interval there is one   *)
(* ping or health check at a time (topbar.go:156-191).                     *)
THEOREM OnePing == Spec => []SinglePing
<1>1. IInv => SinglePing
  BY DEF IInv
<1> QED
  BY SpecIInv, <1>1, PTL

-----------------------------------------------------------------------------
(***************************************************************************)
(* WHAT THE MONITOR STARTS                                                 *)
(*                                                                         *)
(* The poll loops of StatePolling.  However often a dashboard is told that *)
(* the daemon is connected it adds one loop, so that there are never more  *)
(* loops than there have been dashboards.                                  *)
(***************************************************************************)
(* The loops a dashboard may still start count against it until its panel  *)
(* has started one.                                                        *)
Startable == IF pollerStarted THEN 0 ELSE 1

LoopsInv ==
    /\ dashboard \in Nat
    /\ ticks \in Nat
    /\ pollerStarted \in BOOLEAN
    /\ ticks + Startable =< dashboard

LEMMA InitLoops == PollInit => LoopsInv
<1> SUFFICES ASSUME PollInit PROVE LoopsInv
  OBVIOUS
<1>1. Startable = 1
  BY Zenon DEF PollInit, Startable
<1>2. dashboard = 1 /\ ticks = 0
  BY DEF PollInit
<1>3. pollerStarted \in BOOLEAN
  BY Zenon DEF PollInit
<1> QED
  BY <1>1, <1>2, <1>3 DEF LoopsInv

LEMMA NextLoops == LoopsInv /\ [PollNext]_pollVars => LoopsInv'
<1> SUFFICES ASSUME LoopsInv, [PollNext]_pollVars PROVE LoopsInv'
  OBVIOUS
<1> USE DEF LoopsInv
<1>1. CASE ServiceChanges
  BY <1>1 DEF ServiceChanges, Startable
<1>2. CASE HandleDaemonConnected
  BY <1>2 DEF HandleDaemonConnected, Polling, Startable
<1>3. CASE HandleStatePollTick
  BY <1>3 DEF HandleStatePollTick, Polling, Startable
<1>4. CASE Ps
  BY <1>4 DEF Ps, Polling, Startable
<1>5. ASSUME NEW v \in ServiceStates, HandleServicesPolled(v) PROVE LoopsInv'
  BY <1>5 DEF HandleServicesPolled, Polling, Startable
<1>6. CASE NewDashboard
  <2>1. Startable' = 1
    BY <1>6, Zenon DEF NewDashboard, Startable
  <2>2. Startable \in {0, 1}
    BY DEF Startable
  <2>3. pollerStarted' \in BOOLEAN
    BY <1>6, Zenon DEF NewDashboard
  <2>4. dashboard' = dashboard + 1 /\ ticks' = ticks
    BY <1>6 DEF NewDashboard
  <2> QED
    BY <2>1, <2>2, <2>3, <2>4
<1>7. CASE HandleFileRemoved
  BY <1>7 DEF HandleFileRemoved, Startable
<1>8. CASE UNCHANGED pollVars
  BY <1>8 DEF pollVars, Startable
<1> QED
  BY <1>1, <1>2, <1>3, <1>4, <1>5, <1>6, <1>7, <1>8 DEF PollNext

(* The panels of servicepanel start no loop but their own: the number of   *)
(* poll loops is bounded by the number of dashboards made, by which they   *)
(* do pile up.                                                             *)
THEOREM FewLoops == PollSpec => []LoopsPerDashboard
<1>1. LoopsInv => LoopsPerDashboard
  BY DEF LoopsInv, Startable, LoopsPerDashboard
<1> QED
  BY <1>1, InitLoops, NextLoops, PTL DEF PollSpec

(* What makes and breaks a panel's belief in its loop.                     *)
LEMMA PollerAliveNext ==
    ASSUME LoopsInv, PollerAlive, [PollNext]_pollVars PROVE PollerAlive'
<1> USE DEF LoopsInv, PollerAlive
<1>1. CASE HandleDaemonConnected
  BY <1>1 DEF HandleDaemonConnected
<1>2. CASE HandleStatePollTick
  BY <1>2 DEF HandleStatePollTick, Polling
<1>3. CASE NewDashboard
  BY <1>3, Zenon DEF NewDashboard
<1>4. CASE HandleFileRemoved
  BY <1>4 DEF HandleFileRemoved
<1>5. CASE UNCHANGED <<phase, pollerStarted, ticks>>
  BY <1>5
<1> QED
  BY <1>1, <1>2, <1>3, <1>4, <1>5
     DEF PollNext, ServiceChanges, Ps, HandleServicesPolled, Polling, pollVars

(* A dashboard whose panel has pollerStarted set has a poll tick armed or  *)
(* on its way, whatever dashboards, watching screens and loops there have  *)
(* been before it (servicepanel.go, dashboard.go:372-395, app.go:492).     *)
THEOREM PollersAlive == PollSpec => []PollerAlive
<1>1. PollInit => PollerAlive
  BY Zenon DEF PollInit, PollerAlive
<1>2. LoopsInv /\ PollerAlive /\ [PollNext]_pollVars => (LoopsInv /\ PollerAlive)'
  BY NextLoops, PollerAliveNext
<1> QED
  BY <1>1, <1>2, InitLoops, PTL DEF PollSpec

-----------------------------------------------------------------------------
(* The answers on their way stay counted when one more is, or one less.    *)
LEMMA AnswersCounted ==
    ASSUME PollTypeOK, NEW v \in ServiceStates
    PROVE  /\ [answers EXCEPT ![v] = @ + 1] \in [ServiceStates -> Nat]
           /\ answers[v] > 0 => Answered(v) \in [ServiceStates -> Nat]
BY DEF PollTypeOK, Answered

LEMMA NextTyped == PollTypeOK /\ [PollNext]_pollVars => PollTypeOK'
<1> SUFFICES ASSUME PollTypeOK, [PollNext]_pollVars PROVE PollTypeOK'
  OBVIOUS
<1> USE Bounds DEF PollTypeOK
<1>1. CASE ServiceChanges
  BY <1>1 DEF ServiceChanges, ServiceStates
<1>2. CASE HandleDaemonConnected
  BY <1>2 DEF HandleDaemonConnected, Polling
<1>3. CASE HandleStatePollTick
  BY <1>3 DEF HandleStatePollTick, Polling
<1>4. CASE Ps
  BY <1>4, AnswersCounted DEF Ps, Polling
<1>5. ASSUME NEW v \in ServiceStates, HandleServicesPolled(v) PROVE PollTypeOK'
  BY <1>5, AnswersCounted DEF HandleServicesPolled, Polling
<1>6. CASE NewDashboard
  <2>1. pollerStarted' \in BOOLEAN
    BY <1>6, Zenon DEF NewDashboard
  <2>2. dashboard' = dashboard + 1 /\ UNCHANGED <<service, ticks, asking, answers>>
    BY <1>6, Zenon DEF NewDashboard
  <2>3. phase' = "Dashboard" /\ shown' = NotPolled
    BY <1>6, Zenon DEF NewDashboard
  <2> QED
    BY <2>1, <2>2, <2>3 DEF ServiceStates
<1>7. CASE HandleFileRemoved
  BY <1>7 DEF HandleFileRemoved
<1>8. CASE UNCHANGED pollVars
  BY <1>8 DEF pollVars
<1> QED
  BY <1>1, <1>2, <1>3, <1>4, <1>5, <1>6, <1>7, <1>8 DEF PollNext

(* What is shown is a state the service has been in, or nothing, and no    *)
(* answer is handled that was not sent: whatever the bounds.               *)
THEOREM PollingTyped == PollSpec => []PollTypeOK
<1>1. ASSUME PollInit PROVE PollTypeOK
  <2>1. pollerStarted \in BOOLEAN
    BY <1>1, Zenon DEF PollInit
  <2>2. /\ service = 0 /\ phase = "Dashboard" /\ dashboard = 1 /\ shown = NotPolled
        /\ ticks = 0 /\ asking = 0 /\ answers = [v \in ServiceStates |-> 0]
    BY <1>1, Zenon DEF PollInit
  <2>3. 0 \in ServiceStates
    BY Bounds DEF ServiceStates
  <2> QED
    BY <2>1, <2>2, <2>3 DEF PollTypeOK
<1>2. PollTypeOK /\ [PollNext]_pollVars => PollTypeOK'
  BY NextTyped
<1> QED
  BY <1>1, <1>2, PTL DEF PollSpec
=============================================================================
