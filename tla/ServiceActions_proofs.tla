----------------------- MODULE ServiceActions_proofs -----------------------
(***************************************************************************)
(* Proofs about ServiceActions, for every set of services, every paging    *)
(* and every number of actions under way.                                  *)
(*                                                                         *)
(* A card in flight has a witness: a job of its service past "asked".  An  *)
(* end takes the card out of flight together with the job, so that the     *)
(* witnesses of the other cards are other jobs.                            *)
(***************************************************************************)
EXTENDS ServiceActions, TLAPS

IInv == TypeOK /\ InFlightHonest

LEMMA InitActions == Init => IInv
BY PagesOfServices DEF Init, IInv, TypeOK, InFlightHonest, Snapshots, States, Unknown, Idle

(* The pieces of a job.                                                    *)
LEMMA JobAt ==
    ASSUME TypeOK, NEW id \in Ids, NEW stage \in Stages, IsAt(id, stage)
    PROVE  jobs[id] \in Job /\ jobs[id].service \in Services
BY DEF TypeOK, IsAt, Idle, Job, Stages

(* A job that moves on is a job, and the other jobs stay as they are.      *)
LEMMA JobMoves ==
    ASSUME TypeOK, NEW id \in Ids, NEW from \in Stages, IsAt(id, from),
           NEW stage \in Stages, jobs' = Moved(id, stage)
    PROVE  /\ jobs' \in [Ids -> Job \cup {Idle}]
           /\ jobs'[id].stage = stage /\ jobs'[id].service = jobs[id].service
           /\ \A other \in Ids \ {id} : jobs'[other] = jobs[other]
<1>1. jobs[id] \in Job
  BY JobAt
<1>2. [jobs[id] EXCEPT !.stage = stage] \in Job
  BY <1>1 DEF Job
<1>3. jobs \in [Ids -> Job \cup {Idle}]
  BY DEF TypeOK
<1>4. jobs' = [jobs EXCEPT ![id] = [jobs[id] EXCEPT !.stage = stage]]
  BY <1>3 DEF Moved
<1>5. /\ [jobs[id] EXCEPT !.stage = stage].stage = stage
      /\ [jobs[id] EXCEPT !.stage = stage].service = jobs[id].service
  BY <1>1 DEF Job
<1> QED
  BY <1>2, <1>3, <1>4, <1>5

(* A step that ends no job past "asked" and puts no card in flight.        *)
LEMMA WitnessesStay ==
    ASSUME InFlightHonest, inFlight' \subseteq inFlight,
           \A id \in Ids : jobs[id].stage \in Stages \ {"asked"} =>
               /\ jobs'[id].stage \in Stages \ {"asked"}
               /\ jobs'[id].service = jobs[id].service
    PROVE  InFlightHonest'
BY DEF InFlightHonest, UnderWay

LEMMA PolledTyped ==
    ASSUME polled \in [Snapshots -> Nat], NEW v \in Snapshots
    PROVE  /\ [polled EXCEPT ![v] = @ + 1] \in [Snapshots -> Nat]
           /\ polled[v] > 0 => [polled EXCEPT ![v] = @ - 1] \in [Snapshots -> Nat]
OBVIOUS

LEMMA NextActions == IInv /\ [Next]_vars => IInv'
<1> SUFFICES ASSUME TypeOK, InFlightHonest, [Next]_vars PROVE TypeOK' /\ InFlightHonest'
  BY DEF IInv
<1>1. ASSUME NEW s \in Services, NEW action \in Actions, Ask(s, action)
      PROVE  TypeOK' /\ InFlightHonest'
  <2>1. PICK id \in Ids : /\ jobs[id] = Idle
                          /\ jobs' = [jobs EXCEPT ![id] =
                                 [service |-> s, action |-> action, stage |-> "asked"]]
    BY <1>1 DEF Ask
  <2>2. jobs' \in [Ids -> Job \cup {Idle}]
    BY <2>1 DEF TypeOK, Job, Stages
  <2>3. TypeOK'
    BY <1>1, <2>2 DEF TypeOK, Ask, cards
  <2>4. \A other \in Ids \ {id} : jobs'[other] = jobs[other]
    BY <2>1 DEF TypeOK
  <2>5. jobs[id].stage \notin Stages
    BY <2>1 DEF Idle, Stages
  <2>6. InFlightHonest'
    BY <1>1, <2>4, <2>5, WitnessesStay DEF Ask, cards
  <2> QED
    BY <2>3, <2>6
<1>2. ASSUME NEW s \in Services, Toggle(s) \/ KeyRestart(s) \/ KeyRebuild(s)
      PROVE  TypeOK' /\ InFlightHonest'
  BY <1>1, <1>2 DEF Toggle, ToggleAction, KeyRestart, KeyRebuild, Actions
<1>3. ASSUME NEW s \in Services, ContainerChanges(s) PROVE TypeOK' /\ InFlightHonest'
  <2>1. TypeOK'
    BY <1>3 DEF ContainerChanges, TypeOK, Snapshots, cards
  <2>2. InFlightHonest'
    BY <1>3, WitnessesStay DEF ContainerChanges, cards
  <2> QED
    BY <2>1, <2>2
<1>4. ASSUME NEW id \in Ids, HandleServiceAction(id) PROVE TypeOK' /\ InFlightHonest'
  <2>1. IsAt(id, "asked") /\ jobs' = Moved(id, "running")
    BY <1>4 DEF HandleServiceAction
  <2>2. /\ jobs' \in [Ids -> Job \cup {Idle}]
        /\ jobs'[id].stage = "running" /\ jobs'[id].service = jobs[id].service
        /\ \A other \in Ids \ {id} : jobs'[other] = jobs[other]
    BY <2>1, JobMoves DEF Stages
  <2>3. TypeOK'
    BY <1>4, <2>2 DEF HandleServiceAction, SetInFlight, TypeOK
  <2>4. ASSUME NEW s \in inFlight' PROVE UnderWay(s)'
    <3>1. CASE s = jobs[id].service
      BY <2>2, <3>1 DEF UnderWay, Stages
    <3>2. CASE s # jobs[id].service
      <4>1. PICK other \in Ids : /\ jobs[other].stage \in Stages \ {"asked"}
                                 /\ jobs[other].service = s
        BY <1>4, <2>4, <3>2 DEF HandleServiceAction, SetInFlight, InFlightHonest, UnderWay
      <4> QED
        BY <2>2, <3>2, <4>1 DEF UnderWay
    <3> QED
      BY <3>1, <3>2
  <2> QED
    BY <2>3, <2>4 DEF InFlightHonest
<1>5. ASSUME NEW id \in Ids, RunAction(id) PROVE TypeOK' /\ InFlightHonest'
  <2>1. IsAt(id, "running")
    BY <1>5 DEF RunAction
  <2>2. PICK stage \in {"completed", "failed"} : jobs' = Moved(id, stage)
    BY <1>5 DEF RunAction
  <2>3. /\ jobs' \in [Ids -> Job \cup {Idle}]
        /\ jobs'[id].stage = stage /\ jobs'[id].service = jobs[id].service
        /\ \A other \in Ids \ {id} : jobs'[other] = jobs[other]
    BY <2>1, <2>2, JobMoves DEF Stages
  <2>4. state' \in Snapshots
    BY <1>5 DEF RunAction, TypeOK, Snapshots, States
  <2>5. TypeOK'
    BY <1>5, <2>3, <2>4 DEF RunAction, TypeOK, cards
  <2>6. InFlightHonest'
    BY <1>5, <2>3, WitnessesStay DEF RunAction, cards, Stages
  <2> QED
    BY <2>5, <2>6
<1>6. ASSUME NEW id \in Ids, HandleActionCompleted(id) PROVE TypeOK' /\ InFlightHonest'
  <2>1. /\ jobs' = [jobs EXCEPT ![id] = Idle]
        /\ inFlight' = inFlight \ {jobs[id].service}
    BY <1>6 DEF HandleActionCompleted
  <2>2. /\ jobs' \in [Ids -> Job \cup {Idle}]
        /\ \A other \in Ids \ {id} : jobs'[other] = jobs[other]
    BY <2>1 DEF TypeOK
  <2>3. \A w \in {"running", "exited"}, s \in page :
            [runtime EXCEPT ![s] = w] \in Snapshots
    BY DEF TypeOK, Snapshots, States
  <2>4. Expected(jobs[id].action) \in {"running", "exited"}
    BY DEF Expected
  <2>5. runtime' \in Snapshots
    BY <1>6, <2>3, <2>4 DEF HandleActionCompleted, TypeOK
  <2>6. TypeOK'
    BY <1>6, <2>1, <2>2, <2>5 DEF HandleActionCompleted, TypeOK
  <2>7. ASSUME NEW s \in inFlight' PROVE UnderWay(s)'
    <3>1. PICK other \in Ids : /\ jobs[other].stage \in Stages \ {"asked"}
                               /\ jobs[other].service = s
      BY <2>1, <2>7 DEF InFlightHonest, UnderWay
    <3>2. other # id
      BY <2>1, <2>7, <3>1
    <3> QED
      BY <2>2, <3>1, <3>2 DEF UnderWay
  <2> QED
    BY <2>6, <2>7 DEF InFlightHonest
<1>7. CASE Ps
  <2>1. PICK v \in Snapshots : polled' = [polled EXCEPT ![v] = @ + 1]
    BY <1>7 DEF Ps, Listing
  <2>2. TypeOK'
    BY <1>7, <2>1, PolledTyped DEF Ps, TypeOK, cards
  <2>3. InFlightHonest'
    BY <1>7, WitnessesStay DEF Ps, cards
  <2> QED
    BY <2>2, <2>3
<1>8. ASSUME NEW v \in Snapshots, HandleServicesPolled(v) PROVE TypeOK' /\ InFlightHonest'
  <2>1. PolledCards(v) \in Snapshots
    BY DEF PolledCards, TypeOK, Snapshots
  <2>2. TypeOK'
    BY <1>8, <2>1, PolledTyped DEF HandleServicesPolled, TypeOK
  <2>3. InFlightHonest'
    BY <1>8, WitnessesStay DEF HandleServicesPolled
  <2> QED
    BY <2>2, <2>3
<1>9. CASE PageTurned \/ LiveReload
  <2>1. Unknown \in Snapshots
    BY DEF Unknown, Snapshots, States
  <2>2. PICK p \in Pages : RebuildCards(p)
    BY <1>9 DEF PageTurned, LiveReload
  <2>3. TypeOK'
    BY <1>9, <2>1, <2>2 DEF PageTurned, LiveReload, RebuildCards, TypeOK
  <2>4. InFlightHonest'
    BY <2>2 DEF RebuildCards, InFlightHonest
  <2> QED
    BY <2>3, <2>4
<1>10. CASE UNCHANGED vars
  <2>1. TypeOK'
    BY <1>10 DEF TypeOK, vars, cards
  <2>2. InFlightHonest'
    BY <1>10, WitnessesStay DEF vars, cards
  <2> QED
    BY <2>1, <2>2
<1> QED
  BY <1>2, <1>3, <1>4, <1>5, <1>6, <1>7, <1>8, <1>9, <1>10 DEF Next

(* Type correctness, for every set of services and every paging: an action *)
(* in flight is always one of a card that is there.                        *)
THEOREM ActionsTyped == Spec => []TypeOK
<1>1. IInv => TypeOK
  BY DEF IInv
<1> QED
  BY <1>1, InitActions, NextActions, PTL DEF Spec

(* A card never shows an action in flight when there is none, whatever     *)
(* number of actions are under way, fail, and outlive pages and reloads.   *)
THEOREM InFlightIsHonest == Spec => []InFlightHonest
<1>1. IInv => InFlightHonest
  BY DEF IInv
<1> QED
  BY <1>1, InitActions, NextActions, PTL DEF Spec
=============================================================================
