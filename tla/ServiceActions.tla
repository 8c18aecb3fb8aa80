--------------------------- MODULE ServiceActions ---------------------------
(***************************************************************************)
(* Service actions: from the key to the docker compose process             *)
(* (internal/services/docker/actions.go), through the dashboard            *)
(* (handleServiceAction) to the service's card, which shows an action in   *)
(* flight and then the state it expects until a poll tells it better.      *)
(*                                                                         *)
(* Cards exist for one page of services and are made anew when the page is *)
(* turned or the project reloaded; the processes go on, and several may    *)
(* work on one service at once.                                            *)
(***************************************************************************)
EXTENDS Integers

LOCAL INSTANCE FiniteSetsExt

CONSTANTS Services,  \* the services of the project
          Pages,     \* the sets of services that share a page
          MaxJobs,   \* bound on actions under way at once
          MaxPs      \* bound on ServicesPolled on their way

ASSUME PagesOfServices == Pages \subseteq SUBSET Services

ASSUME Bounds == MaxJobs \in Nat /\ MaxPs \in Nat

VARIABLES state,        \* what each service's container is
          page,         \* the services on the page shown
          runtimeData,  \* of the carousel: what the last poll saw
          runtime,      \* of the cards
          inFlight,     \* the cards with an action in flight
          jobs,         \* the actions under way
          polled        \* ServicesPolled on their way, by what Ps saw

cards == <<page, runtime, inFlight>>
vars == <<state, cards, runtimeData, jobs, polled>>

(* "exited" is any state in which a container is there and not running.    *)
States == {"absent", "exited", "running"}
Snapshots == [Services -> States]
Actions == {"Stop", "Start", "Restart", "Rebuild"}
Stages == {"asked", "running", "completed", "failed"}
Ids == 1..MaxJobs
Job == [service : Services, action : Actions, stage : Stages]
Idle == [stage |-> "idle"]

TypeOK ==
    /\ state \in Snapshots
    /\ page \in Pages
    /\ runtimeData \in Snapshots
    /\ runtime \in Snapshots
    /\ inFlight \subseteq page
    /\ jobs \in [Ids -> Job \cup {Idle}]
    /\ polled \in [Snapshots -> Nat]

(* A runtime that is nil is a service without a container.                 *)
Unknown == [s \in Services |-> "absent"]

Init ==
    /\ state \in Snapshots
    /\ page \in Pages
    /\ runtimeData = Unknown /\ runtime = Unknown
    /\ inFlight = {}
    /\ jobs = [id \in Ids |-> Idle]
    /\ polled = [v \in Snapshots |-> 0]

-----------------------------------------------------------------------------
(* ACTIONS                                                                 *)

(* toggleServiceCmd decides by the carousel's own data, not by the card's. *)
ToggleAction(s) == IF runtimeData[s] = "running" THEN "Stop" ELSE "Start"

Ask(s, action) ==
    /\ \E id \in Ids :
          /\ jobs[id] = Idle
          /\ jobs' = [jobs EXCEPT ![id] =
                        [service |-> s, action |-> action, stage |-> "asked"]]
    /\ UNCHANGED <<state, cards, runtimeData, polled>>

(* Enter and the double click on a card; r and b for the selected service, *)
(* which need not be on the page.                                          *)
Toggle(s) == s \in page /\ Ask(s, ToggleAction(s))
KeyRestart(s) == Ask(s, "Restart")
KeyRebuild(s) == Ask(s, "Rebuild")

IsAt(id, stage) == jobs[id].stage = stage
Moved(id, stage) == [jobs EXCEPT ![id].stage = stage]

SetInFlight(s) == inFlight \cup ({s} \cap page)

(* Mutant: the card goes in flight with the key, and a press that is never *)
(* run leaves it so.                                                       *)
HandleServiceActionUnrun(id) ==
    /\ IsAt(id, "asked")
    /\ inFlight' = SetInFlight(jobs[id].service)
    /\ jobs' = [jobs EXCEPT ![id] = Idle]
    /\ UNCHANGED <<state, page, runtime, runtimeData, polled>>

(* The card goes in flight, the process starts.                            *)
HandleServiceAction(id) ==
    /\ IsAt(id, "asked")
    /\ inFlight' = SetInFlight(jobs[id].service)
    /\ jobs' = Moved(id, "running")
    /\ UNCHANGED <<state, page, runtime, runtimeData, polled>>

(* docker compose brings the service where the action says, or fails       *)
(* and leaves it anywhere.                                                 *)
RunAction(id) ==
    /\ IsAt(id, "running")
    /\ LET s == jobs[id].service IN
       \/ /\ state' = [state EXCEPT ![s] =
                         IF jobs[id].action # "Stop" THEN "running"
                         ELSE IF @ = "running" THEN "exited" ELSE @]
          /\ jobs' = Moved(id, "completed")
       \/ /\ \E v \in States : state' = [state EXCEPT ![s] = v]
          /\ jobs' = Moved(id, "failed")
    /\ UNCHANGED <<cards, runtimeData, polled>>

(* The state handleActionCompleted takes for granted.                      *)
Expected(action) == IF action = "Stop" THEN "exited" ELSE "running"

(* Mutant: a failed action stays in flight.                                *)
HandleCompletedStuck(id) ==
    /\ IsAt(id, "completed") \/ IsAt(id, "failed")
    /\ LET s == jobs[id].service IN
       /\ inFlight' = IF IsAt(id, "completed") THEN inFlight \ {s} ELSE inFlight
       /\ runtime' = IF s \in page /\ IsAt(id, "completed")
                       THEN [runtime EXCEPT ![s] = Expected(jobs[id].action)] ELSE runtime
    /\ jobs' = [jobs EXCEPT ![id] = Idle]
    /\ UNCHANGED <<state, page, runtimeData, polled>>

HandleActionCompleted(id) ==
    /\ IsAt(id, "completed") \/ IsAt(id, "failed")
    /\ LET s == jobs[id].service IN
       /\ inFlight' = inFlight \ {s}
       /\ runtime' = IF s \in page /\ IsAt(id, "completed")
                       THEN [runtime EXCEPT ![s] = Expected(jobs[id].action)] ELSE runtime
    /\ jobs' = [jobs EXCEPT ![id] = Idle]
    /\ UNCHANGED <<state, page, runtimeData, polled>>

-----------------------------------------------------------------------------
(* POLLS AND PAGES                                                         *)

(* Containers also change by themselves.                                   *)
ContainerChanges(s) ==
    /\ \E v \in States \ {state[s]} : state' = [state EXCEPT ![s] = v]
    /\ UNCHANGED <<cards, runtimeData, jobs, polled>>

(* docker compose ps need not list a container that has exited.            *)
Listing == {v \in Snapshots : \A s \in Services :
               v[s] = state[s] \/ (state[s] = "exited" /\ v[s] = "absent")}

Ps ==
    /\ MapThenSumSet(LAMBDA v : polled[v], Snapshots) < MaxPs
    /\ \E v \in Listing : polled' = [polled EXCEPT ![v] = @ + 1]
    /\ UNCHANGED <<state, cards, runtimeData, jobs>>

(* Mutant: a card keeps the state it expects.                              *)
PolledCardsKeep(v) == [s \in Services |->
    IF s \in page /\ runtime[s] = "absent" THEN v[s] ELSE runtime[s]]

PolledCards(v) == [s \in Services |-> IF s \in page THEN v[s] ELSE runtime[s]]

HandleServicesPolled(v) ==
    /\ polled[v] > 0
    /\ polled' = [polled EXCEPT ![v] = @ - 1]
    /\ runtimeData' = v
    /\ runtime' = PolledCards(v)
    /\ UNCHANGED <<state, page, inFlight, jobs>>

(* rebuildCards: new cards know of no poll and of no action.               *)
RebuildCards(p) ==
    /\ page' = p
    /\ runtime' = Unknown
    /\ inFlight' = {}

PageTurned ==
    /\ \E p \in Pages \ {page} : RebuildCards(p)
    /\ UNCHANGED <<state, runtimeData, jobs, polled>>

(* Live reload makes a new carousel.                                       *)
LiveReload ==
    /\ \E p \in Pages : RebuildCards(p)
    /\ runtimeData' = Unknown
    /\ UNCHANGED <<state, jobs, polled>>

Next ==
    \/ \E s \in Services : Toggle(s) \/ KeyRestart(s) \/ KeyRebuild(s) \/ ContainerChanges(s)
    \/ \E id \in Ids : HandleServiceAction(id) \/ RunAction(id) \/ HandleActionCompleted(id)
    \/ Ps \/ (\E v \in Snapshots : HandleServicesPolled(v))
    \/ PageTurned \/ LiveReload

(* Processes end, polls go on, and Update handles what it is sent.         *)
Fairness ==
    /\ \A id \in Ids : WF_vars(HandleServiceAction(id)) /\ WF_vars(RunAction(id))
                       /\ WF_vars(HandleActionCompleted(id))
    /\ SF_vars(Ps) /\ \A v \in Snapshots : SF_vars(HandleServicesPolled(v))

Spec == Init /\ [][Next]_vars /\ Fairness

-----------------------------------------------------------------------------
(* PROPERTIES                                                              *)

UnderWay(s) == \E id \in Ids : jobs[id].stage \in Stages \ {"asked"} /\ jobs[id].service = s

(* A card shows an action in flight only while a process works on its      *)
(* service or the news of its end is on its way: with several actions on   *)
(* one service, failures, pages turned and reloads in between.             *)
InFlightHonest == \A s \in inFlight : UnderWay(s)

(* A card does not stay in flight for ever, even if the user goes on       *)
(* asking: every process that is started brings its end back.              *)
InFlightEnds == \A s \in Services : s \in inFlight ~> (s \notin inFlight)

(* When a service and its page have come to rest the card shows what the   *)
(* service is, or nothing if no poll has told it, and Enter does the       *)
(* opposite: what the card expected of an action, and what a late poll     *)
(* said of it, is put right.  A poll tells of a running service.           *)
CardSettles ==
    \A s \in Services, v \in States :
        <>[](state[s] = v /\ s \in page /\ \A id \in Ids : jobs[id] = Idle)
        => /\ <>[](runtime[s] \in {v, "absent"} /\ runtimeData[s] \in {v, "absent"})
           /\ v = "running" => []<>(runtime[s] = v /\ runtimeData[s] = v)
=============================================================================
