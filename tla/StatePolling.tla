---------------------------- MODULE StatePolling ----------------------------
(***************************************************************************)
(* State polling across dashboards: the poll loop of the service panel     *)
(* (internal/ui/components/servicepanel), docker.Ps, and the dashboards    *)
(* that come and go with the compose file (handleFileAvailabilityChanged   *)
(* of flows/dashboard, handleProjectLoaded and handleFileRemoved of        *)
(* internal/app).                                                          *)
(*                                                                         *)
(* A message goes to the dashboard of the moment, whichever dashboard's    *)
(* command sent it, and to none on the watching screen.  A dashboard is    *)
(* dropped, not closed.  Ps has no timeout and a tick does not wait for    *)
(* it, so that several run at once and answer in any order.  The daemon is *)
(* up: DaemonMonitor reports it connected again and again.                 *)
(***************************************************************************)
EXTENDS Integers

LOCAL INSTANCE FiniteSetsExt

CONSTANTS MaxDashboards,  \* bound on dashboards made
          MaxChanges,     \* bound on changes of the service's state
          MaxPs           \* bound on Ps commands not yet answered for

ASSUME Bounds == MaxDashboards \in Nat /\ MaxChanges \in Nat /\ MaxPs \in Nat

VARIABLES service,        \* the service's state: how often it has changed
          phase,          \* app.Model.phase
          dashboard,      \* which dashboard is the present one, from 1
          pollerStarted,  \* of its panel
          shown,          \* the state in its runtimeData; NotPolled at first
          ticks,          \* StatePollTicks armed or on their way
          asking,         \* Ps commands that have not looked yet
          answers         \* ServicesPolled on their way, by the state seen

pollVars ==
    <<service, phase, dashboard, pollerStarted, shown, ticks, asking, answers>>

NotPolled == -1
ServiceStates == 0..MaxChanges

PollTypeOK ==
    /\ service \in ServiceStates
    /\ phase \in {"Dashboard", "Watching"}
    /\ dashboard \in Nat \ {0}
    /\ pollerStarted \in BOOLEAN
    /\ shown \in ServiceStates \cup {NotPolled}
    /\ ticks \in Nat
    /\ asking \in Nat
    /\ answers \in [ServiceStates -> Nat]

PollInit ==
    /\ service = 0
    /\ phase = "Dashboard"
    /\ dashboard = 1
    /\ pollerStarted = FALSE
    /\ shown = NotPolled
    /\ ticks = 0
    /\ asking = 0
    /\ answers = [v \in ServiceStates |-> 0]

ServiceChanges ==
    /\ service < MaxChanges
    /\ service' = service + 1
    /\ UNCHANGED <<phase, dashboard, pollerStarted, shown, ticks, asking, answers>>

-----------------------------------------------------------------------------
(* THE POLL LOOP                                                           *)

Polling == UNCHANGED <<service, phase, dashboard>>

HandleDaemonConnected ==
    /\ phase = "Dashboard" /\ ~pollerStarted
    /\ pollerStarted' = TRUE
    /\ ticks' = ticks + 1
    /\ Polling /\ UNCHANGED <<shown, asking, answers>>

(* Ps commands that have not looked yet, or whose answer is on its way.    *)
Unanswered == asking + MapThenSumSet(LAMBDA v : answers[v], ServiceStates)

(* A dashboard arms the next tick and issues Ps; the watching screen       *)
(* ignores the tick, which ends its loop.                                  *)
HandleStatePollTick ==
    /\ ticks > 0
    /\ \/ /\ phase = "Dashboard"
          /\ Unanswered < MaxPs
          /\ asking' = asking + 1
          /\ UNCHANGED ticks
       \/ /\ phase = "Watching"
          /\ ticks' = ticks - 1
          /\ UNCHANGED asking
    /\ Polling /\ UNCHANGED <<pollerStarted, shown, answers>>

Ps ==
    /\ asking > 0
    /\ asking' = asking - 1
    /\ answers' = [answers EXCEPT ![service] = @ + 1]
    /\ Polling /\ UNCHANGED <<pollerStarted, shown, ticks>>

Answered(v) == [answers EXCEPT ![v] = @ - 1]

(* The watching screen drops the answer.                                   *)
HandleServicesPolled(v) ==
    /\ answers[v] > 0
    /\ answers' = Answered(v)
    /\ shown' = IF phase = "Dashboard" THEN v ELSE shown
    /\ Polling /\ UNCHANGED <<pollerStarted, ticks, asking>>

-----------------------------------------------------------------------------
(* DASHBOARDS                                                              *)

(* Mutant: the new dashboard believes it has a poller.                     *)
NewDashboardPolling ==
    /\ dashboard < MaxDashboards
    /\ dashboard' = dashboard + 1
    /\ shown' = NotPolled
    /\ phase' = "Dashboard"
    /\ UNCHANGED <<service, pollerStarted, ticks, asking, answers>>

(* dashboard.New, by live reload or by ProjectLoaded, in either phase.     *)
NewDashboard ==
    /\ dashboard < MaxDashboards
    /\ dashboard' = dashboard + 1
    /\ pollerStarted' = FALSE
    /\ shown' = NotPolled
    /\ phase' = "Dashboard"
    /\ UNCHANGED <<service, ticks, asking, answers>>

HandleFileRemoved ==
    /\ phase = "Dashboard"
    /\ phase' = "Watching"
    /\ UNCHANGED <<service, dashboard, pollerStarted, shown, ticks, asking, answers>>

PollNext ==
    \/ ServiceChanges
    \/ HandleDaemonConnected \/ HandleStatePollTick \/ Ps
    \/ \E v \in ServiceStates : HandleServicesPolled(v)
    \/ NewDashboard \/ HandleFileRemoved

(* The daemon monitor reports in, timers fire, Ps answers, and Update      *)
(* handles what it is sent.                                                *)
PollFairness ==
    /\ WF_pollVars(HandleDaemonConnected)
    /\ SF_pollVars(HandleStatePollTick)
    /\ WF_pollVars(Ps)
    /\ \A v \in ServiceStates : WF_pollVars(HandleServicesPolled(v))

PollSpec == PollInit /\ [][PollNext]_pollVars /\ PollFairness

-----------------------------------------------------------------------------
(* PROPERTIES                                                              *)

(* The state a service has come to rest in is eventually the one shown,    *)
(* and stays so: whatever dashboards and loops there have been and in      *)
(* whatever order their answers come, no late answer has the last word.    *)
StateShown ==
    \A v \in ServiceStates :
        <>[](service = v /\ phase = "Dashboard") => <>[](shown = v)

(* A panel that believes in its poll loop has one: the watching screen     *)
(* ends every loop it hears of, and the next dashboard knows nothing of    *)
(* that, so that it would never poll did it take over the belief.          *)
PollerAlive == phase = "Dashboard" /\ pollerStarted => ticks > 0

(* A dashboard adds one poll loop at most, though it is told Connected     *)
(* every two seconds.  It inherits its predecessors' loops, which nothing  *)
(* ends but the watching screen: they may be as many as the dashboards.    *)
LoopsPerDashboard == ticks =< dashboard
=============================================================================
