---------------------------- MODULE LogStreamer ----------------------------
(***************************************************************************)
(* One service's log stream: the LogStreamer of                            *)
(* internal/services/docker/logs with its reader goroutine (startStream,   *)
(* ReadFrames), the two channels it writes, the Next commands that read    *)
(* them, and the service host and log pane that handle what Next returns.  *)
(*                                                                         *)
(* Three kinds of threads run: the reader goroutine, the goroutines of the *)
(* Next commands, and the event loop, which is the only one to call Start, *)
(* Next and Close and which waits inside Close for the reader to exit.     *)
(* Lines are counted, not told apart; connection and container may do      *)
(* anything at any time.                                                   *)
(***************************************************************************)
EXTENDS Integers, Sequences, FiniteSets

CONSTANTS ChannelCap,      \* capacity of ch, the message channel
          LineBufferCap,   \* capacity of lineCh, the line channel
          MaxPending       \* bound on commands and messages outstanding

ASSUME Capacities == ChannelCap \in Nat \ {0} /\ LineBufferCap \in Nat \ {0}
ASSUME PendingBound == MaxPending \in Nat

Kinds == {"LogLinesAvailable", "LogStreamError", "LogStreamContainerNotFound"}
Failures == Kinds \ {"LogLinesAvailable"}
NoFailure == "none"

VARIABLES started,   \* streamerStarted of the host; cancel # nil
          closing,   \* the event loop is inside Close: the context is cancelled
          handling,  \* the failure whose handler runs Close, or NoFailure
          reader,    \* where the reader goroutine is
          failure,   \* the failure the reader is sending
          ch,        \* signals and failures, in order
          lines,     \* lines in lineCh
          stranded,  \* (history) those of them left by an earlier stream
          subs,      \* Next commands of the current stream that wait on ch
          stale,     \* Next commands whose done channel is already closed
          inbox      \* messages returned by Next, by kind, not yet handled

reading == <<reader, failure>>
cmds == <<subs, stale, inbox>>
vars == <<started, closing, handling, reading, ch, lines, stranded, cmds>>

Readers == {"none", "connect", "read", "line", "signal", "fail"}

TypeOK ==
    /\ started \in BOOLEAN /\ closing \in BOOLEAN
    /\ handling \in Failures \cup {NoFailure}
    /\ reader \in Readers
    /\ failure \in Failures
    /\ ch \in Seq(Kinds) /\ Len(ch) =< ChannelCap
    /\ lines \in 0..LineBufferCap
    /\ stranded \in 0..lines
    /\ subs \in Nat /\ stale \in Nat
    /\ inbox \in [Kinds -> Nat]

Init ==
    /\ started = FALSE /\ closing = FALSE /\ handling = NoFailure
    /\ reader = "none" /\ failure = "LogStreamError"
    /\ ch = <<>>
    /\ lines = 0 /\ stranded = 0
    /\ subs = 0 /\ stale = 0
    /\ inbox = [k \in Kinds |-> 0]

-----------------------------------------------------------------------------
(* THE READER GOROUTINE.  Every blocking operation of it also waits on the *)
(* context; when both are ready, Go picks either.                          *)

Cancelled == closing
Room == Len(ch) < ChannelCap

Goto(step) == reader' = step /\ UNCHANGED failure
Fail(f) == reader' = "fail" /\ failure' = f

OthersThanReader == UNCHANGED <<started, closing, handling, stranded, cmds>>

(* The request returns 200, 404, another status or an error, also the      *)
(* error of a cancelled context.                                           *)
ConnectDone ==
    /\ reader = "connect"
    /\ Goto("read") \/ \E f \in Failures : Fail(f)
    /\ OthersThanReader /\ UNCHANGED <<ch, lines>>

(* A frame, the end of the stream, or an error.  After a cancellation the  *)
(* error is dropped.                                                       *)
ReadFrame == Goto("line")
ReadEnds == Goto("none")
ReadFails == ~Cancelled /\ Fail("LogStreamError")

Read ==
    /\ reader = "read"
    /\ ReadFrame \/ ReadEnds \/ ReadFails
    /\ OthersThanReader /\ UNCHANGED <<ch, lines>>

SendLine ==
    /\ reader = "line"
    /\ \/ lines < LineBufferCap /\ lines' = lines + 1 /\ Goto("signal")
       \/ Cancelled /\ Goto("none") /\ UNCHANGED lines
    /\ OthersThanReader /\ UNCHANGED ch

(* Mutant: no signal follows the line.                                     *)
SignalGivesUp ==
    /\ reader = "signal"
    /\ Goto("read") /\ UNCHANGED <<ch, lines>>
    /\ OthersThanReader

(* The signal is dropped when ch is full, whether or not ch holds signals. *)
Signal ==
    /\ reader = "signal"
    /\ \/ Room /\ ch' = Append(ch, "LogLinesAvailable") /\ Goto("read")
       \/ Cancelled /\ Goto("none") /\ UNCHANGED ch
       \/ ~Room /\ ~Cancelled /\ Goto("read") /\ UNCHANGED ch
    /\ OthersThanReader /\ UNCHANGED lines

(* Mutant: the failure is sent with no regard for the context.             *)
SendFailureBlocking ==
    /\ reader = "fail"
    /\ Room /\ ch' = Append(ch, failure)
    /\ Goto("none")
    /\ OthersThanReader /\ UNCHANGED lines

(* Mutant: the reader goes on after a failure.                             *)
SendFailureGoesOn ==
    /\ reader = "fail"
    /\ \/ Room /\ ch' = Append(ch, failure) /\ Goto("read")
       \/ Cancelled /\ UNCHANGED ch /\ Goto("none")
    /\ OthersThanReader /\ UNCHANGED lines

SendFailure ==
    /\ reader = "fail"
    /\ \/ Room /\ ch' = Append(ch, failure)
       \/ Cancelled /\ UNCHANGED ch
    /\ Goto("none")
    /\ OthersThanReader /\ UNCHANGED lines

-----------------------------------------------------------------------------
(* THE NEXT COMMANDS.                                                      *)

Deliver ==
    /\ ch # <<>>
    /\ ch' = Tail(ch)
    /\ inbox' = [inbox EXCEPT ![Head(ch)] = @ + 1]

Receive ==
    /\ subs > 0 /\ Deliver
    /\ subs' = subs - 1
    /\ UNCHANGED <<started, closing, handling, reading, lines, stranded, stale>>

(* A Next whose done is closed returns nil, or still picks a message that  *)
(* is there, be it a later stream's.                                       *)
ReceiveStale ==
    /\ stale > 0
    /\ \/ Deliver
       \/ UNCHANGED <<ch, inbox>>
    /\ stale' = stale - 1
    /\ UNCHANGED <<started, closing, handling, reading, lines, stranded, subs>>

-----------------------------------------------------------------------------
(* THE EVENT LOOP.                                                         *)

Pending == subs + stale + inbox["LogLinesAvailable"]
             + inbox["LogStreamError"] + inbox["LogStreamContainerNotFound"]

(* startStreamer: a poll found the service running, or a retry is due.     *)
Start ==
    /\ ~started /\ ~closing
    /\ Pending < MaxPending
    /\ started' = TRUE
    /\ reader' = "connect"
    /\ subs' = subs + 1
    /\ UNCHANGED <<closing, handling, failure, ch, lines, stranded, stale, inbox>>

Take(k) ==
    /\ ~closing
    /\ inbox[k] > 0
    /\ inbox' = [inbox EXCEPT ![k] = @ - 1]

Drain == lines' = 0 /\ stranded' = 0

(* Mutant: the host does not subscribe again.                              *)
HandleLinesNoNext ==
    /\ Take("LogLinesAvailable")
    /\ Drain
    /\ UNCHANGED <<started, closing, handling, reading, ch, subs, stale>>

(* Mutant: the pane does not read lineCh.                                  *)
HandleLinesNoDrain ==
    /\ Take("LogLinesAvailable")
    /\ subs' = subs + 1
    /\ UNCHANGED <<started, closing, handling, reading, ch, stale, lines, stranded>>

(* The host subscribes again, with the done channel of the moment: closed  *)
(* unless a stream is started; then the pane drains the lines.             *)
HandleLines ==
    /\ Take("LogLinesAvailable")
    /\ subs' = subs + (IF started THEN 1 ELSE 0)
    /\ stale' = stale + (IF started THEN 0 ELSE 1)
    /\ Drain
    /\ UNCHANGED <<started, closing, handling, reading, ch>>

(* The panel hands every message to every host: the lines of another       *)
(* service make this pane drain its own, and ClearLogBuffer discards them. *)
DrainOnly ==
    /\ ~closing /\ lines > 0
    /\ Drain
    /\ UNCHANGED <<started, closing, handling, reading, ch, cmds>>

(* LogStreamError and LogStreamContainerNotFound close the stream, and do  *)
(* nothing to the streamer when there is none.                             *)
HandleFailure ==
    /\ \E f \in Failures : Take(f) /\ handling' = IF started THEN f ELSE NoFailure
    /\ closing' = started
    /\ UNCHANGED <<started, reading, ch, lines, stranded, subs, stale>>

(* Close for another reason: a poll found the service not running, or      *)
(* another service's stream failed.                                        *)
CloseBegin ==
    /\ started /\ ~closing
    /\ closing' = TRUE
    /\ UNCHANGED <<started, handling, reading, ch, lines, stranded, cmds>>

(* Mutant: Close does not wait for the reader.                             *)
CloseEndNoWait ==
    /\ closing
    /\ started' = FALSE /\ closing' = FALSE /\ handling' = NoFailure
    /\ subs' = 0
    /\ stale' = stale + subs
    /\ ch' = <<>>
    /\ stranded' = lines
    /\ UNCHANGED <<reading, lines, inbox>>

(* The reader has exited: done is rotated and ch, but not lineCh, drained. *)
CloseEnd ==
    /\ closing /\ reader = "none"
    /\ started' = FALSE /\ closing' = FALSE /\ handling' = NoFailure
    /\ subs' = 0
    /\ stale' = stale + subs
    /\ ch' = <<>>
    /\ stranded' = lines
    /\ UNCHANGED <<reading, lines, inbox>>

Reader == ConnectDone \/ Read \/ SendLine \/ Signal \/ SendFailure
NextCmds == Receive \/ ReceiveStale
Loop == Start \/ HandleLines \/ DrainOnly \/ HandleFailure \/ CloseBegin \/ CloseEnd

Next == Reader \/ NextCmds \/ Loop

(* Goroutines run; a request and a read end once their context is          *)
(* cancelled; Update handles every message sent to it, whatever the loop   *)
(* is busy with in between, hence strong fairness.  Nothing makes the      *)
(* container write, the connection fail, or the user or the poller act.    *)
Fairness ==
    /\ WF_vars(Cancelled /\ (ConnectDone \/ (reader = "read" /\ Read /\ reader' = "none")))
    /\ WF_vars(SendLine) /\ WF_vars(Signal) /\ WF_vars(SendFailure)
    /\ WF_vars(Receive) /\ WF_vars(ReceiveStale)
    /\ SF_vars(HandleLines) /\ SF_vars(HandleFailure) /\ WF_vars(CloseEnd)

Spec == Init /\ [][Next]_vars /\ Fairness

-----------------------------------------------------------------------------
(* PROPERTIES                                                              *)

Open == started /\ ~closing

(* No wake-up is lost: while the stream is open, lines it wrote to lineCh  *)
(* are announced by a signal that is about to be sent, sent, or delivered, *)
(* though signals are dropped when ch is full.  ch must never be full of   *)
(* anything but signals while the reader lives.                            *)
NoLostWakeup ==
    Open /\ lines > stranded =>
        \/ reader = "signal"
        \/ inbox["LogLinesAvailable"] > 0
        \/ \E i \in 1..Len(ch) : ch[i] = "LogLinesAvailable"

(* While the stream is open someone will take what the reader sends: a     *)
(* Next waits on ch, or a message is under way whose handler subscribes    *)
(* again or closes the stream.                                             *)
Listening == Open => subs > 0 \/ \E k \in Kinds : inbox[k] > 0

(* Once Close has returned nothing of the stream remains that could reach  *)
(* the next one: no reader, no message in ch, no waiting Next.             *)
ClosedIsQuiet == ~started => reader = "none" /\ ch = <<>> /\ subs = 0

(* The event loop never stays in Close: whatever channel the reader blocks *)
(* on, cancelling releases it, although the loop reads no channel then.    *)
CloseReturns == closing ~> ~closing

(* Seen from its host the stream is open until Close has returned, and a   *)
(* failure is handled when the Close it leads to has returned.             *)
Stage ==
    IF ~started THEN "none"
    ELSE IF ch # <<>> /\ ch[Len(ch)] \in Failures THEN ch[Len(ch)]
    ELSE IF reader = "none" THEN "over" ELSE "live"

Reported == [f \in Failures |-> inbox[f] + IF handling = f THEN 1 ELSE 0]

Hosted == INSTANCE HostedStream
            WITH open <- started, stage <- Stage, reported <- Reported

(* To its host the stream is what HostedStream says: it fails once at      *)
(* most, with a message that is neither lost nor doubled while the stream  *)
(* is open, it starts only when nothing is left of the one before, and     *)
(* whatever goroutines do while the loop waits inside Close is over when   *)
(* Close returns.                                                          *)
StreamSpec == Hosted!Spec

(* What an open stream wrote to lineCh is drained by the pane, or the      *)
(* stream is closed.                                                       *)
LinesDrained == Open /\ lines > stranded ~> lines = stranded \/ ~Open
=============================================================================
