--------------------------- MODULE Watcher_proofs ---------------------------
(***************************************************************************)
(* Proofs about Watcher, for any set of files and any number of changes:   *)
(* the goroutine never waits for its own buffer, no change is missed, what *)
(* one Next after the other returns goes forward, and every step is one    *)
(* FileFeed allows.                                                        *)
(***************************************************************************)
EXTENDS Watcher, TLAPS

(* Everything that happens to the directory is paid for.                   *)
Paid ==
    /\ budget \in Nat
    /\ disk \in [Files -> Nat]
    /\ \A f \in Files : disk[f] + budget =< MaxEvents
    /\ noise \in Nat /\ noise + budget =< MaxEvents
    /\ errors \in Nat /\ errors + budget =< MaxEvents

(* What a scan has found is no later than what is there.                   *)
Looked ==
    /\ todo \in [Scanners -> SUBSET Files]
    /\ snap \in [Scanners -> [Files -> Nat]]
    /\ \A s \in Scanners, f \in Files : snap[s][f] =< disk[f]

Buffered ==
    /\ events \in Seq([Files -> Nat])
    /\ Len(events) =< 1
    /\ events # <<>> => \A f \in Files : events[1][f] =< disk[f]

Viewed ==
    /\ view \in [Files -> Nat]
    /\ \A f \in Files : view[f] =< disk[f]

Placed ==
    /\ queue \in Nat
    /\ run \in {"select", "scan", "drain", "send", "report", "returned", "panicked"}
    /\ app \in {"Snapshot", "first", "Next", "told", "nil"}
    /\ app # "Snapshot" => todo["app"] = {}
    /\ run \in {"drain", "send"} => todo["run"] = {}
    /\ byNext \in BOOLEAN
    /\ close \in CloseSteps

WatcherInv == Paid /\ Looked /\ Buffered /\ Viewed /\ Placed /\ SendNeverBlocks

USE Bounds DEF Scanners

LEMMA InvTyped == WatcherInv => TypeOK
<1> SUFFICES ASSUME WatcherInv PROVE TypeOK
  OBVIOUS
<1>1. Paid /\ Looked /\ Buffered /\ Viewed /\ Placed
  BY DEF WatcherInv
<1>2. ASSUME NEW f \in Files PROVE disk[f] \in 0..MaxEvents
  <2>1. disk[f] \in Nat /\ budget \in Nat /\ disk[f] + budget =< MaxEvents
    BY <1>1 DEF Paid
  <2> QED
    BY <2>1
<1>3. disk \in [Files -> Nat]
  BY <1>1, Bounds DEF Paid
<1>4. ASSUME NEW x \in [Files -> Nat], \A f \in Files : x[f] =< disk[f] PROVE x \in Snapshots
  BY <1>2, <1>3, <1>4 DEF Snapshots
<1>5. disk \in Snapshots
  BY <1>2, <1>3 DEF Snapshots
<1>6. snap \in [Scanners -> Snapshots]
  BY <1>1, <1>4 DEF Looked
<1>7. events \in Seq(Snapshots) /\ Len(events) =< 1
  <2>1. ASSUME NEW i \in 1..Len(events) PROVE events[i] \in Snapshots
    BY <1>1, <1>4, <2>1 DEF Buffered
  <2> QED
    BY <1>1, <2>1 DEF Buffered
<1>8. view \in Snapshots
  BY <1>1, <1>4 DEF Viewed
<1>9. budget \in 0..MaxEvents /\ noise \in 0..MaxEvents /\ errors \in 0..MaxEvents
  BY <1>1, Bounds DEF Paid
<1>10. todo \in [Scanners -> SUBSET Files]
  BY <1>1 DEF Looked
<1> QED
  BY <1>1, <1>5, <1>6, <1>7, <1>8, <1>9, <1>10 DEF TypeOK, Placed

LEMMA InvInit == Init => WatcherInv
<1> SUFFICES ASSUME Init PROVE WatcherInv
  OBVIOUS
<1> USE DEF Init, Nothing
<1>1. Paid
  BY DEF Paid
<1>2. Looked
  BY DEF Looked
<1>3. Buffered
  BY DEF Buffered
<1>4. Viewed
  BY DEF Viewed
<1>5. Placed
  BY DEF Placed, CloseSteps
<1>6. SendNeverBlocks
  BY DEF SendNeverBlocks
<1> QED
  BY <1>1, <1>2, <1>3, <1>4, <1>5, <1>6 DEF WatcherInv

-----------------------------------------------------------------------------
(* One lemma for each part of the invariant: what disturbs it.             *)

LEMMA PaidNext == ASSUME Paid, [Next]_vars PROVE Paid'
<1> USE DEF Paid
<1>1. ASSUME NEW f \in Files, Change(f) PROVE Paid'
  BY <1>1 DEF Change
<1>2. CASE Noise
  BY <1>2 DEF Noise
<1>3. CASE Run
  BY <1>3 DEF Run, SelectEvent, SelectIgnored, SelectError, SelectDone, Report,
              Scanned, Drain, Send, OthersThanRun, StartScan
<1>4. CASE UNCHANGED env
  BY <1>4 DEF env
<1> QED
  BY <1>1, <1>2, <1>3, <1>4
     DEF Next, Stat, SnapshotReturns, NextReturns, HandleFileAvailabilityChanged, CloseStep,
         vars, env

(* Files only change onwards.                                              *)
LEMMA DiskGrows ==
    ASSUME Paid, [Next]_vars
    PROVE  \A f \in Files : disk[f] =< disk'[f]
<1>1. ASSUME NEW g \in Files, Change(g) PROVE \A f \in Files : disk[f] =< disk'[f]
  BY <1>1 DEF Change, Paid
<1>2. CASE UNCHANGED disk
  BY <1>2 DEF Paid
<1> QED
  BY <1>1, <1>2
     DEF Next, Noise, Run, SelectEvent, SelectIgnored, SelectError, SelectDone, Report,
         Scanned, Drain, Send, OthersThanRun, Stat, SnapshotReturns, NextReturns,
         HandleFileAvailabilityChanged, CloseStep, vars, env

LEMMA LookedNext == ASSUME WatcherInv, [Next]_vars PROVE Looked'
<1> USE DEF Looked
<1>1. Looked /\ Paid /\ Buffered /\ Placed
  BY DEF WatcherInv
<1>2. \A f \in Files : disk[f] \in Nat /\ disk'[f] \in Nat /\ disk[f] =< disk'[f]
  BY <1>1, DiskGrows, PaidNext DEF Paid
<1>3. ASSUME NEW s \in Scanners, NEW f \in Files, Stat(s, f) PROVE Looked'
  <2>1. UNCHANGED disk
    BY <1>3 DEF Stat, env
  <2>2. todo' \in [Scanners -> SUBSET Files]
    BY <1>1, <1>3 DEF Stat
  <2>3. snap' = [snap EXCEPT ![s][f] = disk[f]]
    BY <1>3 DEF Stat
  <2> QED
    BY <1>1, <1>2, <2>1, <2>2, <2>3
<1>4. CASE NextReturns
  <2>1. UNCHANGED <<disk, todo>>
    BY <1>4 DEF NextReturns, env
  <2>2. CASE UNCHANGED snap
    BY <1>1, <2>1, <2>2
  <2>3. CASE events # <<>> /\ snap' = [snap EXCEPT !["app"] = Head(events)]
    <3>1. Head(events) = events[1] /\ events[1] \in [Files -> Nat]
      BY <1>1, <2>3 DEF Buffered
    <3>2. \A f \in Files : events[1][f] =< disk[f]
      BY <1>1, <2>3 DEF Buffered
    <3> QED
      BY <1>1, <2>1, <2>3, <3>1, <3>2
  <2> QED
    BY <1>4, <2>2, <2>3 DEF NextReturns
<1>5. CASE SelectEvent
  BY <1>1, <1>5 DEF SelectEvent, StartScan, OthersThanRun
<1>6. CASE UNCHANGED scans
  BY <1>1, <1>2, <1>6 DEF scans
<1> QED
  BY <1>3, <1>4, <1>5, <1>6
     DEF Next, Change, Noise, Run, SelectIgnored, SelectError, SelectDone, Report, Scanned,
         Drain, Send, SnapshotReturns, HandleFileAvailabilityChanged, CloseStep, vars, scans

(* The buffer holds one snapshot: taken, it is empty; empty, it takes one. *)
LEMMA TakenIsLast ==
    ASSUME Buffered, events # <<>>
    PROVE  Head(events) = events[1] /\ Tail(events) = <<>>
<1>1. events \in Seq([Files -> Nat]) /\ Len(events) = 1
  <2>1. events \in Seq([Files -> Nat]) /\ Len(events) =< 1
    BY DEF Buffered
  <2>2. Len(events) \in Nat /\ (Len(events) = 0 => events = <<>>)
    BY <2>1
  <2>3. Len(events) # 0
    BY <2>2
  <2>4. \A n \in Nat : n =< 1 /\ n # 0 => n = 1
    OBVIOUS
  <2> QED
    BY <2>1, <2>2, <2>3, <2>4, Zenon
<1>2. Head(events) = events[1]
  BY <1>1
<1>3. ASSUME NEW t \in Seq([Files -> Nat]), Len(t) = 0 PROVE t = <<>>
  BY <1>3
<1>4. Tail(events) \in Seq([Files -> Nat]) /\ Len(Tail(events)) = 0
  BY <1>1
<1>5. Tail(events) = <<>>
  BY <1>3, <1>4
<1> QED
  BY <1>2, <1>5

LEMMA SentIsFirst ==
    ASSUME Buffered, Len(events) < 1, NEW x \in [Files -> Nat]
    PROVE  events = <<>> /\ Append(events, x) = <<x>>
<1>1. events \in Seq([Files -> Nat]) /\ Len(events) = 0
  BY DEF Buffered
<1>2. events = <<>>
  BY <1>1
<1> QED
  BY <1>2

LEMMA BufferedNext == ASSUME WatcherInv, [Next]_vars PROVE Buffered'
<1> USE DEF Buffered
<1>1. Looked /\ Paid /\ Buffered
  BY DEF WatcherInv
<1>2. \A f \in Files : disk[f] \in Nat /\ disk'[f] \in Nat /\ disk[f] =< disk'[f]
  BY <1>1, DiskGrows, PaidNext DEF Paid
<1>3. CASE NextReturns /\ events # <<>> /\ events' = Tail(events)
  <2>1. events' = <<>>
    BY <1>1, <1>3, TakenIsLast DEF Buffered
  <2> QED
    BY <2>1
<1>4. CASE Drain
  BY <1>4 DEF Drain
<1>5. CASE Send /\ Len(events) < 1 /\ events' = Append(events, snap["run"])
  <2>1. UNCHANGED disk
    BY <1>5 DEF Send, OthersThanRun
  <2>2. snap["run"] \in [Files -> Nat] /\ \A f \in Files : snap["run"][f] =< disk[f]
    BY <1>1 DEF Looked
  <2>3. events' = <<snap["run"]>>
    BY <1>1, <1>5, <2>2, SentIsFirst
  <2> QED
    BY <2>1, <2>2, <2>3
<1>6. CASE UNCHANGED events
  <2>1. ASSUME events # <<>>, NEW f \in Files PROVE events[1][f] =< disk'[f]
    <3>1. events[1][f] \in Nat
      BY <1>1, <2>1
    <3> QED
      BY <1>1, <1>2, <2>1, <3>1
  <2> QED
    BY <1>1, <1>6, <2>1
<1> QED
  BY <1>3, <1>4, <1>5, <1>6
     DEF Next, Change, Noise, Run, SelectEvent, SelectIgnored, SelectError, SelectDone, Report,
         Scanned, Send, Stat, SnapshotReturns, NextReturns, HandleFileAvailabilityChanged,
         CloseStep, vars

LEMMA ViewedNext == ASSUME WatcherInv, [Next]_vars PROVE Viewed'
<1> USE DEF Viewed
<1>1. Looked /\ Paid /\ Viewed
  BY DEF WatcherInv
<1>2. \A f \in Files : disk[f] \in Nat /\ disk'[f] \in Nat /\ disk[f] =< disk'[f]
  BY <1>1, DiskGrows, PaidNext DEF Paid
<1>3. CASE HandleFileAvailabilityChanged
  BY <1>1, <1>3 DEF HandleFileAvailabilityChanged, Looked, env
<1>4. CASE UNCHANGED view
  BY <1>1, <1>2, <1>4
<1> QED
  BY <1>3, <1>4
     DEF Next, Change, Noise, Run, SelectEvent, SelectIgnored, SelectError, SelectDone, Report,
         Scanned, Drain, Send, OthersThanRun, Stat, SnapshotReturns, NextReturns, CloseStep, vars

(* The goroutine empties the buffer it is about to fill, and nobody else   *)
(* fills it.                                                               *)
LEMMA PlacedNext == ASSUME WatcherInv, [Next]_vars PROVE Placed' /\ SendNeverBlocks'
<1> USE DEF Placed, SendNeverBlocks, CloseSteps
<1>1. Placed /\ SendNeverBlocks /\ Buffered /\ todo \in [Scanners -> SUBSET Files]
  BY DEF WatcherInv, Looked
<1>2. CASE Run
  BY <1>1, <1>2 DEF Run, SelectEvent, SelectIgnored, SelectError, SelectDone, Report, Scanned,
                    Drain, Send, OthersThanRun, StartScan, scans
<1>3. ASSUME NEW s \in Scanners, NEW f \in Files, Stat(s, f) PROVE Placed' /\ SendNeverBlocks'
  BY <1>1, <1>3 DEF Stat, env
<1>4. CASE SnapshotReturns \/ NextReturns \/ HandleFileAvailabilityChanged
  BY <1>1, <1>4 DEF SnapshotReturns, NextReturns, HandleFileAvailabilityChanged, env, scans
<1>5. ASSUME NEW f \in Files, Change(f) PROVE Placed' /\ SendNeverBlocks'
  BY <1>1, <1>5 DEF Change, scans
<1>6. CASE Noise \/ CloseStep
  BY <1>1, <1>6 DEF Noise, CloseStep, env, scans
<1>7. CASE UNCHANGED vars
  BY <1>1, <1>7 DEF vars, env, scans
<1> QED
  BY <1>2, <1>3, <1>4, <1>5, <1>6, <1>7 DEF Next

LEMMA InvNext == WatcherInv /\ [Next]_vars => WatcherInv'
<1> SUFFICES ASSUME WatcherInv, [Next]_vars PROVE WatcherInv'
  OBVIOUS
<1>1. Paid'
  BY PaidNext DEF WatcherInv
<1> QED
  BY <1>1, LookedNext, BufferedNext, ViewedNext, PlacedNext DEF WatcherInv

LEMMA AlwaysInv == Spec => []WatcherInv
BY InvInit, InvNext, PTL DEF Spec

(* The types of the watcher's state, for every set of files and any number *)
(* of changes, ignored events and errors: the buffer of one snapshot is    *)
(* never exceeded (watcher/service.go:225-284).                            *)
THEOREM TypesKept == Spec => []TypeOK
BY AlwaysInv, InvTyped, PTL

(* sendSnapshot does not wait for the application: when it sends, the      *)
(* buffer is empty (watcher/service.go:272-284).                           *)
THEOREM NeverBlocked == Spec => []SendNeverBlocks
<1>1. WatcherInv => SendNeverBlocks
  BY DEF WatcherInv
<1> QED
  BY AlwaysInv, <1>1, PTL

-----------------------------------------------------------------------------
(* NO CHANGE IS MISSED                                                     *)

(* What is known of file f where the news of it has got to: the goroutine, *)
(* else the buffer, else the application's command, else its view.  A      *)
(* goroutine or an application that has ended knows nothing more.          *)
Known(f) ==
    /\ run \in {"scan", "drain", "send"} => f \in todo["run"] \/ snap["run"][f] = disk[f]
    /\ run \in {"select", "report"} =>
          /\ events # <<>> => events[1][f] = disk[f]
          /\ events = <<>> /\ app = "Next" => view[f] = disk[f]
          /\ events = <<>> /\ app \notin {"Next", "nil"} =>
                f \in todo["app"] \/ snap["app"][f] = disk[f]

(* A change not known where it should be is an event yet to be taken.      *)
Covered == \A f \in Files : queue > 0 \/ Known(f)

LEMMA CoveredInit == Init => Covered
BY DEF Init, Nothing, Covered, Known

(* What the goroutine does to the news of one file.                        *)
LEMMA RunCovers ==
    ASSUME WatcherInv, NEW f \in Files, queue > 0 \/ Known(f), Run
    PROVE  (queue > 0 \/ Known(f))'
<1> USE DEF Known
<1>1. Looked /\ Buffered /\ Placed
  BY DEF WatcherInv
<1>2. CASE SelectEvent
  BY <1>1, <1>2 DEF SelectEvent, OthersThanRun, StartScan, Looked
<1>3. CASE SelectIgnored \/ SelectError \/ SelectDone \/ Report
  BY <1>1, <1>3 DEF SelectIgnored, SelectError, SelectDone, Report, OthersThanRun, scans
<1>4. CASE Scanned \/ Drain
  BY <1>1, <1>4 DEF Scanned, Drain, OthersThanRun, scans
<1>5. CASE Send /\ run' = "select" /\ Len(events) < 1 /\ events' = Append(events, snap["run"])
  <2>1. events' = <<snap["run"]>>
    BY <1>1, <1>5, SentIsFirst DEF Looked
  <2>2. todo["run"] = {} /\ run = "send" /\ UNCHANGED <<disk, queue>>
    BY <1>1, <1>5 DEF Send, Placed, OthersThanRun
  <2> QED
    BY <1>5, <2>1, <2>2
<1>6. CASE Send /\ run' = "returned"
  BY <1>6
<1> QED
  BY <1>2, <1>3, <1>4, <1>5, <1>6 DEF Run, Send

LEMMA CoveredNext == WatcherInv /\ Covered /\ [Next]_vars => Covered'
<1> SUFFICES ASSUME WatcherInv, Covered, [Next]_vars, NEW f \in Files
             PROVE  (queue > 0 \/ Known(f))'
  BY DEF Covered
<1>1. Looked /\ Buffered /\ Placed
  BY DEF WatcherInv
<1>2. queue > 0 \/ Known(f)
  BY DEF Covered
<1>3. CASE Run
  BY <1>2, <1>3, RunCovers
<1> USE DEF Known
<1>4. ASSUME NEW g \in Files, Change(g) PROVE (queue > 0 \/ Known(f))'
  BY <1>1, <1>4 DEF Change, Placed
<1>5. ASSUME NEW s \in Scanners, NEW g \in Files, Stat(s, g) PROVE (queue > 0 \/ Known(f))'
  BY <1>1, <1>2, <1>5 DEF Stat, env, Looked
<1>6. CASE Noise \/ CloseStep \/ UNCHANGED vars
  BY <1>2, <1>6 DEF Noise, CloseStep, vars, env, scans
<1>7. CASE SnapshotReturns
  BY <1>2, <1>7 DEF SnapshotReturns, env, scans
<1>8. CASE NextReturns
  <2>1. UNCHANGED <<disk, queue, run, todo, view>> /\ snap'["run"] = snap["run"]
    BY <1>1, <1>8 DEF NextReturns, env, Looked
  <2>2. CASE app' = "nil" /\ UNCHANGED <<snap, events>>
    BY <1>2, <1>8, <2>1, <2>2 DEF NextReturns
  <2>3. CASE app' = "told" /\ events # <<>> /\ events' = Tail(events)
                /\ snap' = [snap EXCEPT !["app"] = Head(events)]
    <3>1. events' = <<>> /\ Head(events) = events[1]
      BY <1>1, <2>3, TakenIsLast
    <3>2. snap'["app"] = events[1]
      BY <1>1, <2>3, <3>1 DEF Looked
    <3> QED
      BY <1>2, <2>1, <2>3, <3>1, <3>2
  <2> QED
    BY <1>8, <2>2, <2>3 DEF NextReturns
<1>9. CASE HandleFileAvailabilityChanged
  BY <1>1, <1>2, <1>9 DEF HandleFileAvailabilityChanged, env, scans, Placed
<1> QED
  BY <1>3, <1>4, <1>5, <1>6, <1>7, <1>8, <1>9 DEF Next

(* When everybody waits for everybody, each file's news is in the view.    *)
LEMMA CoveredSeen == WatcherInv /\ Covered => NoChangeMissed
<1> SUFFICES ASSUME WatcherInv, Covered, Quiescent PROVE view = disk
  BY DEF NoChangeMissed
<1>1. view \in [Files -> Nat] /\ disk \in [Files -> Nat]
  BY DEF WatcherInv, Viewed, Paid
<1>2. ASSUME NEW f \in Files PROVE view[f] = disk[f]
  BY DEF Covered, Known, Quiescent
<1> QED
  BY <1>1, <1>2

(* When nothing is to be delivered, scanned, sent or taken the application *)
(* has seen every file as it is, however the changes, the scans, the       *)
(* buffer and the commands interleaved (watcher/service.go:171-284,        *)
(* app.go:540-555).                                                        *)
THEOREM NothingMissed == Spec => []NoChangeMissed
<1>1. Init => WatcherInv /\ Covered
  BY InvInit, CoveredInit
<1>2. WatcherInv /\ Covered /\ [Next]_vars => (WatcherInv /\ Covered)'
  BY InvNext, CoveredNext
<1> QED
  BY <1>1, <1>2, CoveredSeen, PTL DEF Spec

-----------------------------------------------------------------------------
(* NEXT AFTER NEXT                                                         *)

(* The snapshots of one file on their way, in the order they were taken:   *)
(* what the goroutine has found, what is buffered, what a Next has          *)
(* returned, what the last Next showed.                                    *)
InOrder(f) ==
    /\ events # <<>> => events[1][f] =< snap["run"][f]
    /\ app = "told" => snap["app"][f] =< snap["run"][f]
    /\ app = "told" /\ events # <<>> => snap["app"][f] =< events[1][f]
    /\ byNext => view[f] =< snap["run"][f]
    /\ byNext /\ events # <<>> => view[f] =< events[1][f]
    /\ byNext /\ app = "told" => view[f] =< snap["app"][f]
    /\ byNext => app \in {"Next", "told", "nil"}

Ordered == \A f \in Files : InOrder(f)

LEMMA OrderedInit == Init => Ordered
BY DEF Init, Ordered, InOrder

LEMMA OrderedNext == WatcherInv /\ Ordered /\ [Next]_vars => Ordered'
<1> SUFFICES ASSUME WatcherInv, Ordered, [Next]_vars, NEW f \in Files PROVE InOrder(f)'
  BY DEF Ordered
<1>1. Looked /\ Buffered /\ Placed /\ Paid
  BY DEF WatcherInv
<1>2. InOrder(f)
  BY DEF Ordered
<1>3. /\ disk[f] \in Nat /\ view[f] \in Nat
      /\ snap["run"][f] \in Nat /\ snap["app"][f] \in Nat
      /\ snap["run"][f] =< disk[f]
      /\ events # <<>> => events[1][f] \in Nat
  <2>1. ASSUME events # <<>> PROVE events[1][f] \in Nat
    <3>1. events[1] \in [Files -> Nat]
      BY <1>1, <2>1 DEF Buffered
    <3> QED
      BY <3>1
  <2> QED
    BY <1>1, <2>1 DEF WatcherInv, Looked, Viewed, Paid
<1> USE DEF InOrder
<1>4. ASSUME NEW s \in Scanners, NEW g \in Files, Stat(s, g) PROVE InOrder(f)'
  <2>1. UNCHANGED <<disk, events, app, view, byNext>>
    BY <1>4 DEF Stat, env
  <2>2. CASE s = "run"
    <3>1. snap'["app"] = snap["app"]
      BY <1>1, <1>4, <2>2 DEF Stat, Looked
    <3>2. snap'["run"][f] \in {snap["run"][f], disk[f]}
      BY <1>1, <1>4, <2>2 DEF Stat, Looked
    <3> QED
      BY <1>2, <1>3, <2>1, <3>1, <3>2
  <2>3. CASE s = "app"
    <3>1. app = "Snapshot" /\ ~byNext
      BY <1>1, <1>2, <1>4, <2>3 DEF Stat, Placed
    <3>2. snap'["run"] = snap["run"]
      BY <1>1, <1>4, <2>3 DEF Stat, Looked
    <3> QED
      BY <1>2, <2>1, <3>1, <3>2
  <2> QED
    BY <2>2, <2>3
<1>5. CASE Drain
  BY <1>2, <1>5 DEF Drain, OthersThanRun, scans
<1>6. CASE Send
  <2>1. UNCHANGED <<snap, app, view, byNext>>
    BY <1>6 DEF Send, OthersThanRun, scans
  <2>2. CASE UNCHANGED events
    BY <1>2, <2>1, <2>2
  <2>3. CASE Len(events) < 1 /\ events' = Append(events, snap["run"])
    <3>1. events' = <<snap["run"]>>
      BY <1>1, <2>3, SentIsFirst DEF Looked
    <3> QED
      BY <1>2, <1>3, <2>1, <3>1
  <2> QED
    BY <1>6, <2>2, <2>3 DEF Send
<1>7. CASE NextReturns
  <2>1. UNCHANGED <<view, byNext>> /\ app = "Next" /\ snap'["run"] = snap["run"]
    BY <1>1, <1>7 DEF NextReturns, Looked
  <2>2. CASE app' = "nil" /\ UNCHANGED <<snap, events>>
    BY <1>2, <2>1, <2>2
  <2>3. CASE app' = "told" /\ events # <<>> /\ events' = Tail(events)
                /\ snap' = [snap EXCEPT !["app"] = Head(events)]
    <3>1. events' = <<>> /\ Head(events) = events[1]
      BY <1>1, <2>3, TakenIsLast
    <3>2. snap'["app"] = events[1]
      BY <1>1, <2>3, <3>1 DEF Looked
    <3> QED
      BY <1>2, <2>1, <2>3, <3>1, <3>2
  <2> QED
    BY <1>7, <2>2, <2>3 DEF NextReturns
<1>8. CASE HandleFileAvailabilityChanged
  BY <1>2, <1>3, <1>8 DEF HandleFileAvailabilityChanged, scans
<1>9. ASSUME NEW g \in Files, Change(g) PROVE InOrder(f)'
  BY <1>2, <1>9 DEF Change, scans
<1>10. CASE SelectEvent \/ SelectIgnored \/ SelectError \/ SelectDone \/ Report \/ Scanned
  BY <1>2, <1>10 DEF SelectEvent, SelectIgnored, SelectError, SelectDone, Report, StartScan,
                     Scanned, OthersThanRun, scans
<1>11. CASE Noise \/ SnapshotReturns \/ CloseStep \/ UNCHANGED vars
  BY <1>2, <1>11 DEF Noise, SnapshotReturns, CloseStep, vars, scans
<1> QED
  BY <1>4, <1>5, <1>6, <1>7, <1>8, <1>9, <1>10, <1>11 DEF Next, Run

(* From one Next to the next no file goes back: a buffered snapshot is     *)
(* drained before a later one is sent, and what is sent was found after    *)
(* what has been taken (watcher/service.go:171-284).                       *)
THEOREM GoesForward == Spec => NextGoesForward
<1>1. ASSUME WatcherInv, Ordered, [Next]_vars, byNext, byNext', NEW f \in Files
      PROVE  view'[f] >= view[f]
  <2>1. view[f] \in Nat
    BY <1>1 DEF WatcherInv, Viewed
  <2>2. CASE HandleFileAvailabilityChanged
    BY <1>1, <2>1, <2>2 DEF HandleFileAvailabilityChanged, Ordered, InOrder
  <2>3. CASE UNCHANGED view
    BY <2>1, <2>3
  <2> QED
    BY <1>1, <2>2, <2>3
       DEF Next, Change, Noise, Run, SelectEvent, SelectIgnored, SelectError, SelectDone, Report,
           Scanned, Drain, Send, OthersThanRun, Stat, SnapshotReturns, NextReturns, CloseStep, vars
<1>2. WatcherInv /\ Ordered /\ [Next]_vars =>
         [byNext /\ byNext' => \A f \in Files : view'[f] >= view[f]]_vars
  BY <1>1
<1>3. Init => WatcherInv /\ Ordered
  BY InvInit, OrderedInit
<1>4. WatcherInv /\ Ordered /\ [Next]_vars => (WatcherInv /\ Ordered)'
  BY InvNext, OrderedNext
<1> QED
  BY <1>2, <1>3, <1>4, PTL DEF Spec, NextGoesForward

-----------------------------------------------------------------------------
(* THE WATCHER AS A FEED                                                   *)

LEMMA FeedInit == Init => Feed!Init
BY DEF Init, Nothing, Done, Feed!Init

(* What is handed to the application has been in the directory, and        *)
(* nothing is handed to it once Close has begun.                           *)
LEMMA FeedNext == WatcherInv /\ [Next]_vars => [Feed!Next]_(Feed!vars)
<1> SUFFICES ASSUME WatcherInv, [Next]_vars PROVE [Feed!Next]_(Feed!vars)
  OBVIOUS
<1> USE DEF Feed!Next, Feed!vars
<1>1. Looked /\ Placed
  BY DEF WatcherInv
<1>2. ASSUME NEW f \in Files, Change(f) PROVE Feed!Next
  BY <1>2 DEF Change, Feed!Change, Done
<1>3. CASE HandleFileAvailabilityChanged
  <2>1. view' \in [Files -> Nat] /\ \A f \in Files : view'[f] =< disk[f]
    BY <1>1, <1>3 DEF HandleFileAvailabilityChanged, Looked
  <2>2. UNCHANGED <<disk, close>> /\ ~Done
    BY <1>3 DEF HandleFileAvailabilityChanged, env, Done
  <2> QED
    BY <2>1, <2>2 DEF Feed!Tell, Done
<1>4. CASE CloseStep
  BY <1>4 DEF CloseStep, env, Feed!Close, Done
<1>5. CASE UNCHANGED <<disk, view, close>>
  BY <1>5 DEF Done
<1> QED
  BY <1>2, <1>3, <1>4, <1>5
     DEF Next, Noise, Run, SelectEvent, SelectIgnored, SelectError, SelectDone, Report, Scanned,
         Drain, Send, OthersThanRun, Stat, SnapshotReturns, NextReturns, vars, env

(* The safety part of the refinement: with Done for closed, every step of  *)
(* the watcher is a step of FileFeed or leaves it as it is                 *)
(* (watcher/service.go:151-284, app.go:540-555).                           *)
THEOREM IsFeed == Spec => Feed!Init /\ [][Feed!Next]_(Feed!vars)
BY AlwaysInv, FeedInit, FeedNext, PTL DEF Spec
=============================================================================
