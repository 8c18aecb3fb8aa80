-------------------------- MODULE ProjectLifecycle --------------------------
(***************************************************************************)
(* Which project the application shows: the three phases of internal/app   *)
(* and the flows that live in them (flows/startup with                     *)
(* components/fileselect, flows/dashboard, components/watching), fed by    *)
(* the file watcher.                                                       *)
(*                                                                         *)
(* A transition takes two messages.  The flow that sees a listing parses   *)
(* the file and returns a message, FileSelected, ProjectLoaded or          *)
(* FileRemoved, from a command of its own, together with the Next that     *)
(* waits for the next listing: both messages are on their way at once and  *)
(* may arrive in either order.  The watcher is seen from outside: it has   *)
(* noticed a change, it looks at one file after the other, it holds a      *)
(* snapshot, Next returns it.                                              *)
(***************************************************************************)
EXTENDS Integers, FiniteSets

CONSTANTS Files,       \* the compose file names
          MaxChanges,  \* bound on changes of the directory
          MaxSelects   \* bound on files picked by the user

ASSUME Bounds == MaxChanges \in Nat /\ MaxSelects \in Nat

NoFile == "none"
ASSUME NoFileIsNone == NoFile \notin Files

VARIABLES disk,      \* what each file is
          changes,   \* how often one has changed
          noticed,   \* whether fsnotify has an event for the watcher
          todo,      \* files the running scan has yet to look at
          found,     \* those it has found
          scanning,  \* whether one runs
          snapshot,  \* the listing the watcher holds, or NoListing
          next,      \* the application's watcher command: waiting, or told
          phase,     \* app.Model.phase
          items,     \* the files fileselect lists
          project,   \* the file of the dashboard's project
          file,      \* the file the watching screen waits for
          selected,  \* FileSelected messages on their way, by file
          loaded,    \* ProjectLoaded
          removed,   \* FileRemoved
          picks,     \* how often the user has picked a file
          offered    \* (history) files once picked, or alone in a listing

dir == <<disk, changes, noticed>>
scan == <<todo, found, scanning>>
screen == <<phase, items, project, file>>
inbox == <<selected, loaded, removed>>
vars == <<dir, scan, snapshot, next, screen, inbox, picks, offered>>

Contents == {"absent", "invalid", "valid"}
Listings == SUBSET Files
NoListing == {NoFile}
Phases == {"Startup", "Dashboard", "Watching"}

TypeOK ==
    /\ disk \in [Files -> Contents]
    /\ changes \in 0..MaxChanges
    /\ noticed \in BOOLEAN
    /\ todo \in Listings /\ found \in Listings /\ scanning \in BOOLEAN
    /\ snapshot \in Listings \cup {NoListing}
    /\ next \in [told : BOOLEAN, files : Listings]
    /\ phase \in Phases
    /\ items \in Listings
    /\ project \in Files \cup {NoFile}
    /\ file \in Files \cup {NoFile}
    /\ selected \in [Files -> Nat] /\ loaded \in [Files -> Nat] /\ removed \in [Files -> Nat]
    /\ picks \in 0..MaxSelects
    /\ offered \subseteq Files

Present == {f \in Files : disk[f] # "absent"}
Parses(f) == disk[f] = "valid"

NoMessage == [f \in Files |-> 0]

(* New: with -f the file has been parsed and the dashboard is there; else  *)
(* startup lists nothing yet.  The first listing is Snapshot's, which the  *)
(* watcher's first is here.                                                *)
Init ==
    /\ disk \in [Files -> Contents]
    /\ changes = 0
    /\ noticed = TRUE
    /\ todo = {} /\ found = {} /\ scanning = FALSE
    /\ snapshot = NoListing
    /\ next = [told |-> FALSE, files |-> {}]
    /\ items = {}
    /\ selected = NoMessage /\ loaded = NoMessage /\ removed = NoMessage
    /\ picks = 0
    /\ \/ phase = "Startup" /\ project = NoFile /\ file = NoFile /\ offered = {}
       \/ \E f \in Files :
             /\ Parses(f)
             /\ phase = "Dashboard" /\ project = f /\ file = f /\ offered = {f}

-----------------------------------------------------------------------------
(* THE DIRECTORY AND ITS WATCHER                                           *)

(* A file is made, written, with the same outcome or not, or removed.      *)
Change(f) ==
    /\ changes < MaxChanges
    /\ changes' = changes + 1
    /\ \E c \in Contents :
          /\ {c, disk[f]} # {"absent"}
          /\ disk' = [disk EXCEPT ![f] = c]
    /\ noticed' = TRUE
    /\ UNCHANGED <<scan, snapshot, next, screen, inbox, picks, offered>>

(* An event is taken; those that come during the scan lead to another.     *)
StartScan ==
    /\ noticed /\ ~scanning
    /\ noticed' = FALSE
    /\ scanning' = TRUE /\ todo' = Files
    /\ UNCHANGED <<disk, changes, found, snapshot, next, screen, inbox, picks, offered>>

(* One file after the other is looked at, while files change.              *)
Stat(f) ==
    /\ f \in todo
    /\ todo' = todo \ {f}
    /\ found' = IF f \in Present THEN found \cup {f} ELSE found
    /\ UNCHANGED <<dir, scanning, snapshot, next, screen, inbox, picks, offered>>

(* The new snapshot replaces one that nobody has taken.                    *)
Scanned ==
    /\ scanning /\ todo = {}
    /\ scanning' = FALSE /\ found' = {}
    /\ snapshot' = found
    /\ UNCHANGED <<dir, todo, next, screen, inbox, picks, offered>>

NextReturns ==
    /\ ~next.told
    /\ snapshot # NoListing
    /\ next' = [told |-> TRUE, files |-> snapshot]
    /\ snapshot' = NoListing
    /\ UNCHANGED <<dir, scan, screen, inbox, picks, offered>>

-----------------------------------------------------------------------------
(* THE HANDLERS                                                            *)

Post(box, f) == [box EXCEPT ![f] = @ + 1]

Take(box, f) == [box EXCEPT ![f] = @ - 1]

(* fileselect: a file alone is selected, and the list stays as it was.     *)
StartupListed(files) ==
    /\ phase = "Startup"
    /\ IF Cardinality(files) = 1
         THEN LET f == CHOOSE f \in files : TRUE IN
              /\ selected' = Post(selected, f)
              /\ offered' = offered \cup {f}
              /\ UNCHANGED items
         ELSE items' = files /\ UNCHANGED <<selected, offered>>
    /\ UNCHANGED <<phase, project, file, loaded, removed>>

(* Mutant: the dashboard does not mind that its file is gone.              *)
DashboardListedStays(files) ==
    /\ phase = "Dashboard"
    /\ UNCHANGED <<screen, inbox, offered>>

(* A dashboard rebuilt from the parsed file shows the same project.        *)
DashboardListed(files) ==
    /\ phase = "Dashboard"
    /\ removed' = IF project \in files THEN removed ELSE Post(removed, project)
    /\ UNCHANGED <<screen, selected, loaded, offered>>

WatchingListed(files) ==
    /\ phase = "Watching"
    /\ loaded' = IF file \in files /\ Parses(file) THEN Post(loaded, file) ELSE loaded
    /\ UNCHANGED <<screen, selected, removed, offered>>

HandleFileAvailabilityChanged ==
    /\ next.told
    /\ StartupListed(next.files) \/ DashboardListed(next.files) \/ WatchingListed(next.files)
    /\ next' = [told |-> FALSE, files |-> {}]
    /\ UNCHANGED <<dir, scan, snapshot, picks>>

(* The user picks a listed file.                                           *)
Select(f) ==
    /\ phase = "Startup" /\ f \in items
    /\ picks < MaxSelects
    /\ picks' = picks + 1
    /\ selected' = Post(selected, f)
    /\ offered' = offered \cup {f}
    /\ UNCHANGED <<dir, scan, snapshot, next, screen, loaded, removed>>

(* Mutant: the first file listed is loaded, whatever was selected.         *)
HandleFileSelectedFirst(f) ==
    /\ selected[f] > 0
    /\ selected' = Take(selected, f)
    /\ \E g \in Present : loaded' = Post(loaded, g)
    /\ UNCHANGED <<dir, scan, snapshot, next, screen, removed, picks, offered>>

(* Out of startup nobody handles FileSelected.                             *)
HandleFileSelected(f) ==
    /\ selected[f] > 0
    /\ selected' = Take(selected, f)
    /\ loaded' = IF phase = "Startup" /\ Parses(f) THEN Post(loaded, f) ELSE loaded
    /\ UNCHANGED <<dir, scan, snapshot, next, screen, removed, picks, offered>>

(* Mutant: the project is kept, the phase is not changed.                  *)
HandleProjectLoadedSilently(f) ==
    /\ loaded[f] > 0
    /\ loaded' = Take(loaded, f)
    /\ project' = f
    /\ UNCHANGED <<dir, scan, snapshot, next, phase, items, file, selected, removed, picks, offered>>

HandleProjectLoaded(f) ==
    /\ loaded[f] > 0
    /\ loaded' = Take(loaded, f)
    /\ phase' = "Dashboard" /\ project' = f
    /\ UNCHANGED <<dir, scan, snapshot, next, items, file, selected, removed, picks, offered>>

HandleFileRemoved(f) ==
    /\ removed[f] > 0
    /\ removed' = Take(removed, f)
    /\ phase' = "Watching" /\ file' = f
    /\ UNCHANGED <<dir, scan, snapshot, next, items, project, selected, loaded, picks, offered>>

Next ==
    \/ StartScan \/ Scanned \/ NextReturns \/ HandleFileAvailabilityChanged
    \/ \E f \in Files :
          \/ Change(f) \/ Stat(f) \/ Select(f)
          \/ HandleFileSelected(f) \/ HandleProjectLoaded(f) \/ HandleFileRemoved(f)

(* The watcher and the commands run and Update handles every message; the  *)
(* user need not do anything.                                              *)
Fairness ==
    /\ WF_vars(StartScan) /\ WF_vars(Scanned) /\ WF_vars(NextReturns) /\ WF_vars(HandleFileAvailabilityChanged)
    /\ \A f \in Files : /\ WF_vars(Stat(f)) /\ WF_vars(HandleFileSelected(f))
                        /\ WF_vars(HandleProjectLoaded(f))
                        /\ WF_vars(HandleFileRemoved(f))

Spec == Init /\ [][Next]_vars /\ Fairness

-----------------------------------------------------------------------------
(* PROPERTIES                                                              *)

(* A project is loaded only if the user picked its file or a listing had   *)
(* no other, also after detours through the watching screen.               *)
OnlyOffered == phase = "Dashboard" => project \in offered

(* Startup ends by itself when one file, a valid one, is there.            *)
SingleFileLoads ==
    \A f \in Files :
        <>[](Present = {f} /\ Parses(f)) => <>(phase # "Startup")

Showing(f) == phase = "Dashboard" /\ project = f

(* The watcher has something to tell the application.                      *)
ToTell == noticed \/ scanning \/ snapshot # NoListing \/ next.told

(* No dashboard outlives its file: whenever one is shown, at the start or  *)
(* on a return, and its file goes for good, the listing without the file   *)
(* reaches that dashboard and it is left, however changes, scans and live  *)
(* reloads cross.  What this leaves out is a dashboard made of a file      *)
(* already gone once everything has been told: a ProjectLoaded handled     *)
(* after the last listing, which no listing takes back.                    *)
LeavesDashboard ==
    \A f \in Files :
        [](Showing(f) /\ (f \in Present \/ ToTell) /\ <>[](f \notin Present)
             => <>~Showing(f))

=============================================================================
