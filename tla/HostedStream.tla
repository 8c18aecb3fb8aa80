---------------------------- MODULE HostedStream ----------------------------
(***************************************************************************)
(* What a log stream is to its service host: something it opens, that may  *)
(* fail, once and with a message, and that it closes for good, whatever    *)
(* goroutines and channels the stream is made of.                          *)
(*                                                                         *)
(* A failure that has been reported outlives its stream: it may close a    *)
(* later one, and so may the failures of other services' streams.          *)
(***************************************************************************)
EXTENDS Integers

CONSTANTS Failures   \* the messages a stream may fail with

VARIABLES open,      \* streamerStarted of the host
          stage,     \* none, live, over, or the failure that waits in it
          reported   \* failures on their way to Update, by kind

vars == <<open, stage, reported>>

Init ==
    /\ open = FALSE
    /\ stage = "none"
    /\ reported = [k \in Failures |-> 0]

Open ==
    /\ ~open
    /\ open' = TRUE /\ stage' = "live"
    /\ UNCHANGED reported

(* The end of a log is not reported.                                       *)
End == stage = "live" /\ stage' = "over" /\ UNCHANGED <<open, reported>>

Fail(k) == stage = "live" /\ stage' = k /\ UNCHANGED <<open, reported>>

Report(k) ==
    /\ stage = k
    /\ stage' = "over"
    /\ reported' = [reported EXCEPT ![k] = @ + 1]
    /\ UNCHANGED open

(* A failure that still waits in the stream is lost.                       *)
Closed == open' = FALSE /\ stage' = "none"

Close == open /\ Closed /\ UNCHANGED reported

Handle(k) ==
    /\ reported[k] > 0
    /\ reported' = [reported EXCEPT ![k] = @ - 1]
    /\ Closed

Next ==
    \/ Open \/ End \/ Close
    \/ \E k \in Failures : Fail(k) \/ Report(k) \/ Handle(k)

Spec == Init /\ [][Next]_vars
=============================================================================
