----------------------------- MODULE Inspector -----------------------------
(***************************************************************************)
(* What the dashboard shows of the selected service beside its log: the    *)
(* details (components/accordion) and the labels of its container          *)
(* (components/labelsaccordion, fetched by docker.Inspect).                *)
(*                                                                         *)
(* Selections, polls and answers of Inspect are messages in any order.  An *)
(* answer does not say which container it is about, and is shown whatever  *)
(* is selected by then.                                                    *)
(***************************************************************************)
EXTENDS Integers

LOCAL INSTANCE FiniteSetsExt

CONSTANTS ServiceNames,   \* the services of the project
          MaxContainers,  \* bound on containers made for a service
          MaxUnderWay     \* bound on messages and commands under way when
                          \* the user, a container or the poll loop acts

\* A project without services has no selection to show.
ASSUME SomeService == ServiceNames # {}
ASSUME Bounds == MaxContainers \in Nat \ {0} /\ MaxUnderWay \in Nat

VARIABLES container,    \* the service's container, or NoContainer
          made,         \* containers made for it so far
          selectedName, \* of dashboard and accordion
          runtimeData,  \* of the dashboard: containers the last poll saw
          details,      \* the container accordion.runtime is about, if any
          labels,       \* the container whose labels are shown, if any
          last,         \* lastInspectedContainerID, or NoContainer
          selecting,    \* ServiceSelected on their way
          polled,       \* ServicesPolled on their way, by what Ps saw
          inspecting,   \* Inspect commands out, by container
          late          \* (history) whether the last was asked for while
                        \* another container's was out, or one failed since

world == <<container, made>>
screen == <<selectedName, runtimeData, details, labels, last>>
inspectorVars == <<world, screen, selecting, polled, inspecting, late>>

Containers == ServiceNames \X (1..MaxContainers)
NoContainer == <<>>
Snapshots == {v \in [ServiceNames -> Containers \cup {NoContainer}] :
                 \A s \in ServiceNames : v[s] = NoContainer \/ v[s][1] = s}

InspectorTypeOK ==
    /\ container \in Snapshots
    /\ made \in [ServiceNames -> 0..MaxContainers]
    /\ selectedName \in ServiceNames
    /\ runtimeData \in Snapshots
    /\ details \in Containers \cup {NoContainer}
    /\ labels \in Containers \cup {NoContainer}
    /\ last \in Containers \cup {NoContainer}
    /\ selecting \in [ServiceNames -> Nat]
    /\ polled \in [Snapshots -> Nat]
    /\ inspecting \in [Containers -> Nat]
    /\ late \in BOOLEAN

Unknown == [s \in ServiceNames |-> NoContainer]
First == CHOOSE s \in ServiceNames : TRUE

(* The dashboard just made, with the carousel's first selection on its way. *)
InspectorInit ==
    /\ container = Unknown /\ made = [s \in ServiceNames |-> 0]
    /\ selectedName = First /\ runtimeData = Unknown
    /\ details = NoContainer /\ labels = NoContainer /\ last = NoContainer
    /\ selecting = [s \in ServiceNames |-> IF s = First THEN 1 ELSE 0]
    /\ polled = [v \in Snapshots |-> 0]
    /\ inspecting = [c \in Containers |-> 0]
    /\ late = FALSE

Room ==
      MapThenSumSet(LAMBDA s : selecting[s], ServiceNames)
    + MapThenSumSet(LAMBDA v : polled[v], Snapshots)
    + MapThenSumSet(LAMBDA c : inspecting[c], Containers) < MaxUnderWay

-----------------------------------------------------------------------------
(* CONTAINERS AND USER                                                     *)

(* A service is created, recreated as by a rebuild, or taken down.         *)
Create(s) ==
    /\ Room
    /\ made[s] < MaxContainers
    /\ made' = [made EXCEPT ![s] = @ + 1]
    /\ container' = [container EXCEPT ![s] = <<s, made[s] + 1>>]
    /\ UNCHANGED <<screen, selecting, polled, inspecting, late>>

Remove(s) ==
    /\ Room
    /\ container[s] # NoContainer
    /\ container' = [container EXCEPT ![s] = NoContainer]
    /\ UNCHANGED <<made, screen, selecting, polled, inspecting, late>>

Select(s) ==
    /\ Room
    /\ selecting' = [selecting EXCEPT ![s] = @ + 1]
    /\ UNCHANGED <<world, screen, polled, inspecting, late>>

LiveReload ==
    /\ Room
    /\ selectedName' = First /\ runtimeData' = Unknown
    /\ details' = NoContainer /\ labels' = NoContainer /\ last' = NoContainer
    /\ selecting' = [selecting EXCEPT ![First] = @ + 1]
    /\ UNCHANGED <<world, polled, inspecting, late>>

Ps ==
    /\ Room
    /\ polled' = [polled EXCEPT ![container] = @ + 1]
    /\ UNCHANGED <<world, screen, selecting, inspecting, late>>

-----------------------------------------------------------------------------
(* HANDLERS                                                                *)

(* inspectSelected: nothing is asked of a container that is not known.     *)
InspectSelected(c) ==
    IF c = NoContainer THEN UNCHANGED <<inspecting, late>>
    ELSE /\ inspecting' = [inspecting EXCEPT ![c] = @ + 1]
         /\ late' = (\E d \in Containers \ {c} : inspecting[d] > 0)

(* The labels go, the details stay until the next poll.                    *)
HandleServiceSelected(s) ==
    /\ selecting[s] > 0
    /\ selecting' = [selecting EXCEPT ![s] = @ - 1]
    /\ selectedName' = s
    /\ last' = NoContainer
    /\ labels' = NoContainer
    /\ InspectSelected(runtimeData[s])
    /\ UNCHANGED <<world, runtimeData, details, polled>>

(* Mutant: the container is looked up before the poll is taken over.       *)
InspectPolledBefore(v) ==
    IF v[selectedName] \notin {NoContainer, last}
      THEN last' = v[selectedName] /\ InspectSelected(runtimeData[selectedName])
      ELSE UNCHANGED <<last, inspecting, late>>

(* Mutant: what has been asked for is not written down.                    *)
InspectPolledForgets(v) ==
    IF v[selectedName] \notin {NoContainer, last}
      THEN UNCHANGED last /\ InspectSelected(v[selectedName])
      ELSE UNCHANGED <<last, inspecting, late>>

InspectPolled(v) ==
    IF v[selectedName] \notin {NoContainer, last}
      THEN last' = v[selectedName] /\ InspectSelected(v[selectedName])
      ELSE UNCHANGED <<last, inspecting, late>>

(* Mutant: a service that is not listed leaves the details as they were.   *)
DetailsKept(v) == IF v[selectedName] = NoContainer THEN details ELSE v[selectedName]

Details(v) == v[selectedName]

HandleServicesPolled(v) ==
    /\ polled[v] > 0
    /\ polled' = [polled EXCEPT ![v] = @ - 1]
    /\ runtimeData' = v
    /\ details' = Details(v)
    /\ InspectPolled(v)
    /\ UNCHANGED <<world, selectedName, labels, selecting>>

(* Inspect: the container's labels, or an error.  A container's labels     *)
(* never change, so that it does not matter when Inspect looks.            *)
Inspected(c) == {c, NoContainer}

(* The answer for container c: an error clears the labels.                 *)
HandleContainerLabelsPolled(c) ==
    /\ inspecting[c] > 0
    /\ inspecting' = [inspecting EXCEPT ![c] = @ - 1]
    /\ labels' \in Inspected(c)
    /\ late' = (late \/ labels' = NoContainer)
    /\ UNCHANGED <<world, selectedName, runtimeData, details, last, selecting, polled>>

InspectorNext ==
    \/ \E s \in ServiceNames : Create(s) \/ Remove(s) \/ Select(s) \/ HandleServiceSelected(s)
    \/ LiveReload \/ Ps
    \/ \E v \in Snapshots : HandleServicesPolled(v)
    \/ \E c \in Containers : HandleContainerLabelsPolled(c)

(* Polls go on, Inspect answers, and Update handles what it is sent.       *)
InspectorFairness ==
    /\ WF_inspectorVars(Ps)
    /\ WF_inspectorVars(\E s \in ServiceNames : HandleServiceSelected(s))
    /\ WF_inspectorVars(\E v \in Snapshots : HandleServicesPolled(v))
    /\ WF_inspectorVars(\E c \in Containers : HandleContainerLabelsPolled(c))

InspectorSpec == InspectorInit /\ [][InspectorNext]_inspectorVars /\ InspectorFairness

-----------------------------------------------------------------------------
(* PROPERTIES                                                              *)

(* The user has selected service s and rests, and its container is c.      *)
Resting(s, c) ==
    /\ selectedName = s /\ \A t \in ServiceNames : selecting[t] = 0
    /\ container[s] = c

(* In the end the details are the selected service's, not those of the     *)
(* service selected before or of a container that is gone.                 *)
DetailsSettle ==
    \A s \in ServiceNames : \A c \in Containers \cup {NoContainer} :
        <>[]Resting(s, c) => <>[](details = c)

(* In the end the labels are the selected container's: a poll in an old    *)
(* order, a rebuild, a reload, and answers that came late or not at all    *)
(* are put right by the next Inspect that is asked for alone.  What this   *)
(* leaves out is a last Inspect asked for while another container's was    *)
(* still out, whose answer may come last, or one that failed: nothing puts *)
(* those right until another selection or container.                       *)
LabelsSettle ==
    \A c \in Containers :
        <>[](Resting(c[1], c) /\ ~late) => <>[](labels = c)

(* What is written down as asked for was: its labels are shown, or their   *)
(* Inspect is out, provided the last one was asked for while no other      *)
(* container's was out, and none has failed since.  The dashboard writes   *)
(* it down before Inspect runs, and does not ask again at the next poll.   *)
LabelsComing ==
    ~late /\ last # NoContainer =>
        last[1] = selectedName /\ (labels = last \/ inspecting[last] > 0)

(* Inspect is not repeated at every poll.                                  *)
InspectsStop ==
    \A s \in ServiceNames, c \in Containers \cup {NoContainer} :
        <>[]Resting(s, c) => <>[](\A d \in Containers : inspecting[d] = 0)
=============================================================================
