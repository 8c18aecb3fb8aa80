------------------------------ MODULE Watcher ------------------------------
(***************************************************************************)
(* The file watcher (internal/services/watcher) with the scanner           *)
(* (internal/services/scanner), and the subscription the application keeps *)
(* with it (Init and handleFileAvailabilityChanged of internal/app): one   *)
(* Snapshot command at start, then one Next command after every message.   *)
(*                                                                         *)
(* Four threads interleave: the run goroutine, the goroutine of the        *)
(* application's command, the event loop, and main, which closes the       *)
(* watcher when the program is over.  The kernel queues what happens to    *)
(* the directory.                                                          *)
(***************************************************************************)
EXTENDS Integers, Sequences

CONSTANTS Files,     \* the known file names and the extra one
          MaxEvents  \* bound on changes, ignored events and watch errors

ASSUME Bounds == MaxEvents \in Nat

VARIABLES disk,     \* how often each file has changed
          queue,    \* events about watched files that fsnotify has to deliver
          noise,    \* Chmods, events about other files: to deliver
          errors,   \* watch errors to deliver
          budget,   \* what may still happen to the directory and the watch
          run,      \* where the run goroutine is
          events,   \* the channel of snapshots; its capacity is 1
          app,      \* what the application's command or message is
          todo,     \* files each running scan has yet to stat
          snap,     \* what each running scan has found, then its snapshot
          view,     \* the last snapshot handled
          byNext,   \* (history) whether it came from a Next
          close     \* how far Close has got

env == <<disk, queue, noise, errors, budget>>
scans == <<todo, snap>>
vars == <<env, run, events, app, scans, view, byNext, close>>

Snapshots == [Files -> 0..MaxEvents]
Scanners == {"run", "app"}
CloseSteps == {"open", "done", "closed", "cleared"}

TypeOK ==
    /\ disk \in Snapshots
    /\ queue \in Nat /\ noise \in 0..MaxEvents /\ errors \in 0..MaxEvents
    /\ budget \in 0..MaxEvents
    /\ run \in {"select", "scan", "drain", "send", "report", "returned", "panicked"}
    /\ events \in Seq(Snapshots) /\ Len(events) =< 1
    /\ app \in {"Snapshot", "first", "Next", "told", "nil"}
    /\ todo \in [Scanners -> SUBSET Files]
    /\ snap \in [Scanners -> Snapshots]
    /\ view \in Snapshots
    /\ byNext \in BOOLEAN
    /\ close \in CloseSteps

Nothing == [f \in Files |-> 0]

(* Init of the application has just returned Snapshot, the watch is on.    *)
Init ==
    /\ disk = Nothing
    /\ queue = 0 /\ noise = 0 /\ errors = 0 /\ budget = MaxEvents
    /\ run = "select"
    /\ events = <<>>
    /\ app = "Snapshot"
    /\ todo = [s \in Scanners |-> IF s = "app" THEN Files ELSE {}]
    /\ snap = [s \in Scanners |-> Nothing]
    /\ view = Nothing
    /\ byNext = FALSE
    /\ close = "open"

-----------------------------------------------------------------------------
(* THE DIRECTORY                                                           *)

Change(f) ==
    /\ budget > 0
    /\ budget' = budget - 1
    /\ disk' = [disk EXCEPT ![f] = @ + 1]
    /\ queue' = queue + 1
    /\ UNCHANGED <<noise, errors, run, events, app, scans, view, byNext, close>>

Noise ==
    /\ budget > 0
    /\ budget' = budget - 1
    /\ \/ noise' = noise + 1 /\ UNCHANGED errors
       \/ errors' = errors + 1 /\ UNCHANGED noise
    /\ UNCHANGED <<disk, queue, run, events, app, scans, view, byNext, close>>

-----------------------------------------------------------------------------
(* SCANS                                                                   *)

StartScan(s) == todo' = [todo EXCEPT ![s] = Files] /\ UNCHANGED snap

(* Mutant: a stat that fails finds the file absent.                        *)
StatFails(s, f) ==
    /\ f \in todo[s]
    /\ todo' = [todo EXCEPT ![s] = @ \ {f}]
    /\ \E found \in {0, disk[f]} : snap' = [snap EXCEPT ![s][f] = found]
    /\ UNCHANGED <<env, run, events, app, view, byNext, close>>

Stat(s, f) ==
    /\ f \in todo[s]
    /\ todo' = [todo EXCEPT ![s] = @ \ {f}]
    /\ snap' = [snap EXCEPT ![s][f] = disk[f]]
    /\ UNCHANGED <<env, run, events, app, view, byNext, close>>

-----------------------------------------------------------------------------
(* THE RUN GOROUTINE                                                       *)

Done == close # "open"

(* fsnotify delivers until its Close has returned: that waits for its own  *)
(* goroutine, and closes both channels.                                    *)
Delivers == close \in {"open", "done"}

OthersThanRun == UNCHANGED <<disk, budget, app, view, byNext, close>>

(* Mutant: an event is taken with no scan while a snapshot is buffered.    *)
SelectEventSkips ==
    /\ run = "select" /\ queue > 0 /\ Delivers
    /\ queue' = queue - 1
    /\ IF events = <<>> THEN run' = "scan" /\ StartScan("run")
                        ELSE UNCHANGED <<run, scans>>
    /\ OthersThanRun /\ UNCHANGED <<noise, errors, events>>

SelectEvent ==
    /\ run = "select" /\ queue > 0 /\ Delivers
    /\ queue' = queue - 1
    /\ run' = "scan" /\ StartScan("run")
    /\ OthersThanRun /\ UNCHANGED <<noise, errors, events>>

SelectIgnored ==
    /\ run = "select" /\ noise > 0 /\ Delivers
    /\ noise' = noise - 1
    /\ OthersThanRun /\ UNCHANGED <<queue, errors, run, events, scans>>

SelectError ==
    /\ run = "select" /\ errors > 0 /\ Delivers
    /\ errors' = errors - 1
    /\ run' = "report"
    /\ OthersThanRun /\ UNCHANGED <<queue, noise, events, scans>>

(* done is closed, or fsnotify's channels are.                             *)
SelectDone ==
    /\ run = "select" /\ Done
    /\ run' = "returned"
    /\ OthersThanRun /\ UNCHANGED <<queue, noise, errors, events, scans>>

(* sendMsg is called as it is now: Close sets it to nil.                   *)
Report ==
    /\ run = "report"
    /\ run' = IF close = "cleared" THEN "panicked" ELSE "select"
    /\ OthersThanRun /\ UNCHANGED <<queue, noise, errors, events, scans>>

Scanned ==
    /\ run = "scan" /\ todo["run"] = {}
    /\ run' = "drain"
    /\ OthersThanRun /\ UNCHANGED <<queue, noise, errors, events, scans>>

(* Mutant: the stale snapshot stays.                                       *)
DrainNothing ==
    /\ run = "drain"
    /\ run' = "send"
    /\ OthersThanRun /\ UNCHANGED <<queue, noise, errors, events, scans>>

Drain ==
    /\ run = "drain"
    /\ events' = <<>>
    /\ run' = "send"
    /\ OthersThanRun /\ UNCHANGED <<queue, noise, errors, scans>>

Send ==
    /\ run = "send"
    /\ \/ Len(events) < 1 /\ events' = Append(events, snap["run"]) /\ run' = "select"
       \/ Done /\ run' = "returned" /\ UNCHANGED events
    /\ OthersThanRun /\ UNCHANGED <<queue, noise, errors, scans>>

Run == SelectEvent \/ SelectIgnored \/ SelectError \/ SelectDone
         \/ Report \/ Scanned \/ Drain \/ Send

-----------------------------------------------------------------------------
(* THE APPLICATION                                                         *)

SnapshotReturns ==
    /\ app = "Snapshot" /\ todo["app"] = {}
    /\ app' = "first"
    /\ UNCHANGED <<env, run, events, scans, view, byNext, close>>

NextReturns ==
    /\ app = "Next"
    /\ \/ /\ events # <<>>
          /\ snap' = [snap EXCEPT !["app"] = Head(events)]
          /\ events' = Tail(events)
          /\ app' = "told"
       \/ Done /\ app' = "nil" /\ UNCHANGED <<snap, events>>
    /\ UNCHANGED <<env, run, todo, view, byNext, close>>

(* Mutant: the application does not subscribe again.                       *)
HandleFileAvailabilityChangedOnce ==
    /\ app \in {"first", "told"}
    /\ close = "open"
    /\ view' = snap["app"]
    /\ byNext' = (app = "told")
    /\ app' = "nil"
    /\ UNCHANGED <<env, run, events, scans, close>>

(* The program handles messages until main goes on to Close.               *)
HandleFileAvailabilityChanged ==
    /\ app \in {"first", "told"}
    /\ close = "open"
    /\ view' = snap["app"]
    /\ byNext' = (app = "told")
    /\ app' = "Next"
    /\ UNCHANGED <<env, run, events, scans, close>>

-----------------------------------------------------------------------------
(* CLOSE: done is closed, then fsnotify, then sendMsg is cleared.          *)

(* Mutant: sendMsg is cleared while fsnotify still delivers.               *)
CloseStepClearsFirst ==
    /\ \/ close = "open" /\ close' = "done"
       \/ close = "done" /\ close' = "cleared"
       \/ close = "cleared" /\ close' = "closed"
    /\ UNCHANGED <<env, run, events, app, scans, view, byNext>>

CloseStep ==
    /\ \/ close = "open" /\ close' = "done"
       \/ close = "done" /\ close' = "closed"
       \/ close = "closed" /\ close' = "cleared"
    /\ UNCHANGED <<env, run, events, app, scans, view, byNext>>

Next ==
    \/ \E f \in Files : Change(f) \/ \E s \in Scanners : Stat(s, f)
    \/ Noise
    \/ Run
    \/ SnapshotReturns \/ NextReturns \/ HandleFileAvailabilityChanged
    \/ CloseStep

(* Goroutines run, select is fair to its channels, and Close returns.      *)
Fairness ==
    /\ \A s \in Scanners, f \in Files : WF_vars(Stat(s, f))
    /\ SF_vars(SelectEvent) /\ SF_vars(SelectDone)
    /\ WF_vars(Run)
    /\ WF_vars(SnapshotReturns) /\ WF_vars(NextReturns)
    /\ WF_vars(HandleFileAvailabilityChanged)
    /\ WF_vars(Done /\ CloseStep)

Spec == Init /\ [][Next]_vars /\ Fairness

-----------------------------------------------------------------------------
(* PROPERTIES                                                              *)

(* No change is missed: when everybody waits for everybody the application *)
(* has seen the directory as it is.  The watch is set up before the first  *)
(* scan, the buffer holds one snapshot and Next has one waiter at most.    *)
Quiescent == queue = 0 /\ run = "select" /\ events = <<>> /\ app = "Next"
NoChangeMissed == Quiescent => view = disk

(* The run goroutine is never held up by an application that does not      *)
(* listen: it drained the buffer it is about to fill, and nobody else      *)
(* fills it.                                                               *)
SendNeverBlocks == run = "send" => events = <<>>

(* From one Next to the next no file goes back to an earlier state: a      *)
(* buffered snapshot is replaced, never overtaken.                         *)
NextGoesForward ==
    [][byNext /\ byNext' => \A f \in Files : view'[f] >= view[f]]_vars

(* Once fsnotify is closed the event loop returns, whatever it is doing,   *)
(* as Close promises: it does not merely end.  What this leaves out is a   *)
(* loop that has taken a watch error by then and has yet to call sendMsg:  *)
(* nothing keeps it from calling the nil that Close puts there.            *)
CloseStops == close = "closed" /\ run # "report" ~> run = "returned"

(* Together: the watcher is a feed of the directory's states.              *)
Feed == INSTANCE FileFeed WITH closed <- Done
FeedSpec == Feed!Spec
=============================================================================
