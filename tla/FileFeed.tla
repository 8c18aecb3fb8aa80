------------------------------ MODULE FileFeed ------------------------------
(***************************************************************************)
(* What the file watcher promises to the application: it is told a state   *)
(* of the directory that the directory has been in, file by file, and when *)
(* the directory has come to rest it is told the state it rests in.        *)
(*                                                                         *)
(* The state of a file is the number of times it has been created, written *)
(* or removed.                                                             *)
(***************************************************************************)
EXTENDS Integers

CONSTANTS Files   \* the file names that are watched

VARIABLES disk,   \* the state of each file
          view,   \* the state of each file as last handed to the application
          closed  \* whether the watcher has been closed

vars == <<disk, view, closed>>

Init ==
    /\ disk = [f \in Files |-> 0]
    /\ view = [f \in Files |-> 0]
    /\ closed = FALSE

Change(f) ==
    /\ disk' = [disk EXCEPT ![f] = @ + 1]
    /\ UNCHANGED <<view, closed>>

(* A scan looks at one file after the other, so that the states reported   *)
(* need not have been those of one moment.                                 *)
Tell ==
    /\ ~closed
    /\ view' \in [Files -> Nat]
    /\ \A f \in Files : view'[f] =< disk[f]
    /\ UNCHANGED <<disk, closed>>

Close == closed' = TRUE /\ UNCHANGED <<disk, view>>

Next == (\E f \in Files : Change(f)) \/ Tell \/ Close

TellCurrent ==
    /\ ~closed
    /\ view # disk
    /\ view' = disk
    /\ UNCHANGED <<disk, closed>>

Spec == Init /\ [][Next]_vars /\ WF_vars(TellCurrent)
=============================================================================
