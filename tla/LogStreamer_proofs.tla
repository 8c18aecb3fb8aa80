------------------------- MODULE LogStreamer_proofs -------------------------
(***************************************************************************)
(* No wake-up of the log pane is lost and nothing survives Close, for      *)
(* every capacity of the two channels; and what a host sees of its stream  *)
(* is a HostedStream.                                                      *)
(***************************************************************************)
EXTENDS LogStreamer, TLAPS

(* Until the reader exits ch holds signals only, so that a full ch means a *)
(* signal is waiting: the failure is the last thing a reader sends.        *)
OnlySignals ==
    reader # "none" => \A i \in 1..Len(ch) : ch[i] = "LogLinesAvailable"

(* And when the reader has exited, ch holds at most that one failure.      *)
FailureLast == \A i \in 1..(Len(ch) - 1) : ch[i] = "LogLinesAvailable"

(* Close is called on a stream, by the handler of a failure or not, and    *)
(* all the lines the stream left are stranded.                             *)
Sessions ==
    /\ closing => started
    /\ handling # NoFailure => closing
    /\ ~started => lines = stranded

IInv ==
    /\ TypeOK
    /\ NoLostWakeup
    /\ Listening
    /\ ClosedIsQuiet
    /\ OnlySignals
    /\ FailureLast
    /\ Sessions

-----------------------------------------------------------------------------
USE Capacities, PendingBound

LEMMA InitIInv == Init => IInv
<1> SUFFICES ASSUME Init PROVE IInv
  OBVIOUS
<1>1. ch \in Seq(Kinds) /\ Len(ch) = 0
  BY DEF Init
<1>2. TypeOK
  <2>1. ch \in Seq(Kinds) /\ Len(ch) =< ChannelCap
    BY <1>1
  <2>2. inbox \in [Kinds -> Nat] /\ subs \in Nat /\ stale \in Nat
    BY DEF Init
  <2>3. /\ started \in BOOLEAN /\ closing \in BOOLEAN
        /\ reader \in Readers /\ failure \in Failures
        /\ handling \in Failures \cup {NoFailure}
    BY DEF Init, Readers, Failures, Kinds
  <2>4. lines \in 0..LineBufferCap /\ stranded \in 0..lines
    BY DEF Init
  <2> QED
    BY <2>1, <2>2, <2>3, <2>4 DEF TypeOK
<1>3. NoLostWakeup /\ Listening /\ Sessions
  BY DEF Init, NoLostWakeup, Listening, Sessions, Open
<1>5. OnlySignals /\ FailureLast
  BY <1>1 DEF Init, OnlySignals, FailureLast
<1>4. ClosedIsQuiet
  BY DEF Init, ClosedIsQuiet
<1> QED
  BY <1>2, <1>3, <1>4, <1>5 DEF IInv

(* What a Next command takes from ch keeps the signals announced.          *)
LEMMA DeliverKeepsSignals ==
    ASSUME TypeOK, Deliver
    PROVE  /\ ch' \in Seq(Kinds) /\ Len(ch') = Len(ch) - 1
           /\ inbox' \in [Kinds -> Nat]
           /\ \A i \in 1..Len(ch') : ch'[i] = ch[i + 1]
           /\ \A k \in Kinds : inbox'[k] >= inbox[k]
           /\ Head(ch) \in Kinds /\ Head(ch) = ch[1] /\ inbox'[Head(ch)] > 0
BY DEF TypeOK, Deliver

LEMMA DeliverIInv ==
    ASSUME IInv, Deliver, subs' \in Nat, stale' \in Nat,
           UNCHANGED <<started, closing, handling, reading, lines, stranded>>,
           subs' > 0 => subs > 0
    PROVE  IInv'
<1> USE DEF IInv
<1>1. TypeOK'
  BY DeliverKeepsSignals DEF TypeOK, reading
<1>2. NoLostWakeup'
  <2> SUFFICES ASSUME Open', lines > stranded, reader # "signal",
                      ~(inbox'["LogLinesAvailable"] > 0)
               PROVE  \E i \in 1..Len(ch') : ch'[i] = "LogLinesAvailable"
    BY DEF NoLostWakeup, reading
  <2>1. inbox["LogLinesAvailable"] = 0
    BY DeliverKeepsSignals DEF TypeOK, Kinds
  <2>2. PICK i \in 1..Len(ch) : ch[i] = "LogLinesAvailable"
    BY <2>1 DEF NoLostWakeup, Open, reading
  <2>3. i # 1
    BY <2>2, DeliverKeepsSignals
  <2>4. i - 1 \in 1..Len(ch') /\ ch'[i - 1] = "LogLinesAvailable"
    <3>1. i - 1 \in 1..Len(ch')
      BY <2>3, DeliverKeepsSignals DEF TypeOK
    <3>2. ch'[i - 1] = ch[(i - 1) + 1]
      BY <3>1, DeliverKeepsSignals
    <3> QED
      BY <2>2, <3>1, <3>2
  <2> QED
    BY <2>4
<1>3. Listening'
  BY DeliverKeepsSignals DEF Listening
<1>4. ClosedIsQuiet'
  BY DEF ClosedIsQuiet, Deliver
<1>5. OnlySignals'
  <2> SUFFICES ASSUME reader # "none", NEW i \in 1..Len(ch')
               PROVE  ch'[i] = "LogLinesAvailable"
    BY DEF OnlySignals, reading
  <2>1. i + 1 \in 1..Len(ch) /\ ch'[i] = ch[i + 1]
    BY DeliverKeepsSignals DEF TypeOK
  <2> QED
    BY <2>1 DEF OnlySignals
<1>6. Sessions'
  BY DEF Sessions
<1>7. FailureLast'
  <2> SUFFICES ASSUME NEW i \in 1..(Len(ch') - 1)
               PROVE  ch'[i] = "LogLinesAvailable"
    BY DEF FailureLast
  <2>1. Len(ch') = Len(ch) - 1 /\ Len(ch) \in Nat
    BY DeliverKeepsSignals DEF TypeOK
  <2>2. i \in 1..Len(ch') /\ i + 1 \in 1..(Len(ch) - 1)
    BY <2>1
  <2>3. ch'[i] = ch[i + 1]
    BY <2>2, DeliverKeepsSignals
  <2> QED
    BY <2>2, <2>3 DEF FailureLast
<1> QED
  BY <1>1, <1>2, <1>3, <1>4, <1>5, <1>6, <1>7

LEMMA NextIInv == IInv /\ [Next]_vars => IInv'
<1> SUFFICES ASSUME IInv, [Next]_vars PROVE IInv'
  OBVIOUS
<1> USE DEF IInv, TypeOK, NoLostWakeup, Listening, ClosedIsQuiet, OnlySignals, Sessions,
            FailureLast, Kinds, Failures, NoFailure, Readers, Open
<1>1. CASE ConnectDone
  BY <1>1 DEF ConnectDone, Goto, Fail, OthersThanReader, cmds
<1>2. CASE Read
  BY <1>2 DEF Read, ReadFrame, ReadEnds, ReadFails, Goto, Fail, OthersThanReader, cmds
<1>3. CASE SendLine
  BY <1>3 DEF SendLine, Cancelled, Goto, OthersThanReader, cmds
<1>4. CASE Signal
  <2>1. CASE Room /\ ch' = Append(ch, "LogLinesAvailable") /\ Goto("read")
    <3>1. /\ ch' \in Seq(Kinds) /\ Len(ch') = Len(ch) + 1
          /\ \A i \in 1..Len(ch) : ch'[i] = ch[i]
          /\ ch'[Len(ch')] = "LogLinesAvailable"
      BY <2>1
    <3>2. UNCHANGED <<started, closing, handling, lines, stranded, subs, stale, inbox, failure>>
      BY <1>4, <2>1 DEF Signal, Goto, OthersThanReader, cmds
    <3>3. reader = "signal" /\ reader' = "read"
      BY <1>4, <2>1 DEF Signal, Goto
    <3>4. TypeOK' /\ Listening' /\ ClosedIsQuiet' /\ Sessions'
      BY <2>1, <3>1, <3>2, <3>3 DEF Room
    <3>5. NoLostWakeup' /\ OnlySignals' /\ FailureLast'
      BY <3>1, <3>2, <3>3
    <3> QED
      BY <3>4, <3>5
  <2>2. CASE UNCHANGED ch /\ ~(~Room /\ ~Cancelled)
    BY <1>4, <2>2 DEF Signal, Room, Cancelled, Goto, OthersThanReader, cmds
  <2>3. CASE ~Room /\ ~Cancelled /\ Goto("read") /\ UNCHANGED ch
    <3>1. Len(ch) = ChannelCap /\ 1 \in 1..Len(ch) /\ ch[1] = "LogLinesAvailable"
      BY <1>4, <2>3 DEF Signal, Room
    <3> QED
      BY <1>4, <2>3, <3>1 DEF Signal, Goto, OthersThanReader, cmds
  <2> QED
    BY <1>4, <2>1, <2>2, <2>3 DEF Signal
<1>5. CASE SendFailure
  <2>1. CASE ch' = Append(ch, failure) /\ Room
    <3>1. /\ ch' \in Seq(Kinds) /\ Len(ch') = Len(ch) + 1
          /\ \A i \in 1..Len(ch) : ch'[i] = ch[i]
      BY <2>1
    <3>2. UNCHANGED <<started, closing, handling, lines, stranded, subs, stale, inbox, failure>>
      BY <1>5 DEF SendFailure, Goto, OthersThanReader, cmds
    <3>3. reader = "fail" /\ reader' = "none"
      BY <1>5 DEF SendFailure, Goto
    <3>4. NoLostWakeup'
      BY <3>1, <3>2, <3>3
    <3> QED
      BY <2>1, <3>1, <3>2, <3>3, <3>4 DEF Room
  <2>2. CASE Cancelled /\ UNCHANGED ch
    BY <1>5, <2>2 DEF SendFailure, Cancelled, Goto, OthersThanReader, cmds
  <2> QED
    BY <1>5, <2>1, <2>2 DEF SendFailure
<1>6. CASE Receive
  BY <1>6, DeliverIInv DEF Receive
<1>7. CASE ReceiveStale
  BY <1>7, DeliverIInv DEF ReceiveStale, reading
<1>8. CASE Start
  BY <1>8 DEF Start
<1>9. CASE HandleLines
  BY <1>9 DEF HandleLines, Take, Drain, reading
<1>10. CASE DrainOnly
  BY <1>10 DEF DrainOnly, Drain, reading, cmds
<1>11. CASE HandleFailure
  BY <1>11 DEF HandleFailure, Take, reading
<1>12. CASE CloseBegin
  BY <1>12 DEF CloseBegin, reading, cmds
<1>13. CASE CloseEnd
  <2>1. /\ ch' = <<>> /\ subs' = 0 /\ started' = FALSE /\ closing' = FALSE /\ reader' = "none"
        /\ handling' = NoFailure
        /\ stranded' = lines /\ UNCHANGED <<reader, failure, lines, inbox>>
    BY <1>13 DEF CloseEnd, reading
  <2>2. stale' \in Nat
    BY <1>13 DEF CloseEnd
  <2>3. ch' \in Seq(Kinds) /\ Len(ch') = 0
    BY <2>1
  <2>4. TypeOK'
    <3>1. Len(ch') =< ChannelCap
      BY <2>3
    <3>2. lines' \in 0..LineBufferCap /\ stranded' \in 0..lines' /\ subs' \in Nat
      BY <2>1
    <3>3. /\ started' \in BOOLEAN /\ closing' \in BOOLEAN
          /\ reader' \in Readers /\ failure' \in Failures
          /\ inbox' \in [Kinds -> Nat]
          /\ handling' \in Failures \cup {NoFailure}
      BY <2>1
    <3> QED
      BY <2>2, <2>3, <3>1, <3>2, <3>3
  <2>5. ClosedIsQuiet' /\ (reader' = "none") /\ FailureLast'
    BY <2>1, <2>3
  <2>6. NoLostWakeup' /\ Listening' /\ Sessions'
    BY <2>1
  <2> QED
    BY <2>4, <2>5, <2>6
<1>14. CASE UNCHANGED vars
  BY <1>14 DEF vars, reading, cmds
<1> QED
  BY <1>1, <1>2, <1>3, <1>4, <1>5, <1>6, <1>7, <1>8, <1>9, <1>10, <1>11, <1>12,
     <1>13, <1>14 DEF Next, Reader, NextCmds, Loop

LEMMA SpecIInv == Spec => []IInv
  BY InitIInv, NextIInv, PTL DEF Spec

(* The variables of the streamer keep their types, and neither channel     *)
(* exceeds its capacity (logs/service.go:72-79).                           *)
THEOREM TypeCorrect == Spec => []TypeOK
<1>1. IInv => TypeOK
  BY DEF IInv
<1> QED
  BY SpecIInv, <1>1, PTL

(* For any capacities, dropping a signal when ch is full loses no wake-up  *)
(* of an open stream (logs/service.go:224-232).                            *)
THEOREM WakeupsKept == Spec => []NoLostWakeup
<1>1. IInv => NoLostWakeup
  BY DEF IInv
<1> QED
  BY SpecIInv, <1>1, PTL

(* An open stream always has a Next, or a message that leads to one        *)
(* (servicehost.go:155-198).                                               *)
THEOREM AlwaysListening == Spec => []Listening
<1>1. IInv => Listening
  BY DEF IInv
<1> QED
  BY SpecIInv, <1>1, PTL

(* Close leaves no reader and no message behind (logs/service.go:267-288). *)
THEOREM CloseIsClean == Spec => []ClosedIsQuiet
<1>1. IInv => ClosedIsQuiet
  BY DEF IInv
<1> QED
  BY SpecIInv, <1>1, PTL


-----------------------------------------------------------------------------
(***************************************************************************)
(* THE STREAM AS ITS HOST SEES IT                                          *)
(*                                                                         *)
(* A step of the reader, of a Next or of the loop is a step of             *)
(* HostedStream or none.  While the reader runs the stage is "live": ch    *)
(* holds no failure.  The failure the reader leaves is the last message of *)
(* ch, so that the Next that takes it leaves ch empty.                     *)
(***************************************************************************)
LEMMA ReportedKept ==
    ASSUME UNCHANGED <<inbox, handling>>
    PROVE  UNCHANGED Reported
BY DEF Reported

(* One failure more or less, in the inbox or in the hands of the loop, is  *)
(* one more or less reported.                                              *)
Count(f) == inbox[f] + IF handling = f THEN 1 ELSE 0

LEMMA ReportedMoves ==
    ASSUME NEW k \in Failures, NEW n,
           \A f \in Failures : Count(f)' = IF f = k THEN n ELSE Count(f)
    PROVE  /\ n = Count(k) + 1 => Reported' = [Reported EXCEPT ![k] = @ + 1]
           /\ n = Count(k) - 1 => Reported' = [Reported EXCEPT ![k] = @ - 1]
<1>1. Reported = [f \in Failures |-> Count(f)]
  BY DEF Reported, Count
<1>2. Reported' = [f \in Failures |-> Count(f)']
  BY DEF Reported, Count
<1>3. Reported' = [f \in Failures |-> IF f = k THEN n ELSE Count(f)]
  BY <1>2
<1>4. Reported' = [Reported EXCEPT ![k] = n] /\ Reported[k] = Count(k)
  BY <1>1, <1>3
<1> QED
  BY <1>4

LEMMA LiveReader ==
    ASSUME IInv, reader # "none"
    PROVE  started /\ Stage = "live"
BY DEF IInv, TypeOK, ClosedIsQuiet, OnlySignals, Stage, Failures, Kinds

(* The connection, the frames and the lines of a stream do not end it; its *)
(* reader's exit does, and a failure in ch.                                *)
LEMMA ReaderHosted ==
    ASSUME IInv, Reader
    PROVE  Hosted!Next \/ UNCHANGED Hosted!vars
<1> USE DEF IInv
<1>1. started /\ Stage = "live" /\ reader # "none"
  BY LiveReader DEF Reader, ConnectDone, Read, SendLine, Signal, SendFailure
<1>2. UNCHANGED <<started, inbox, handling>>
  BY DEF Reader, ConnectDone, Read, SendLine, Signal, SendFailure, OthersThanReader, cmds
<1>3. UNCHANGED Reported
  BY <1>2, ReportedKept
<1>4. \A i \in 1..Len(ch) : ch[i] \notin Failures
  BY <1>1 DEF OnlySignals, Failures
<1>5. CASE /\ Len(ch') \in Nat
           /\ \A i \in 1..Len(ch') : ch'[i] \notin Failures
           /\ ch' = <<>> \/ Len(ch') \in 1..Len(ch')
  <2>1. CASE reader' = "none"
    <3>1. Stage' = "over"
      BY <1>1, <1>2, <1>5, <2>1 DEF Stage
    <3> QED
      BY <1>1, <1>2, <1>3, <3>1 DEF Hosted!Next, Hosted!End
  <2>2. CASE reader' # "none"
    <3>1. Stage' = "live"
      BY <1>1, <1>2, <1>5, <2>2 DEF Stage
    <3> QED
      BY <1>1, <1>2, <1>3, <3>1 DEF Hosted!vars
  <2> QED
    BY <2>1, <2>2
<1>6. CASE UNCHANGED ch
  <2>1. ch = <<>> \/ Len(ch) \in 1..Len(ch)
    BY DEF TypeOK
  <2> QED
    BY <1>4, <1>5, <1>6, <2>1 DEF TypeOK
<1>7. CASE Signal /\ ch' = Append(ch, "LogLinesAvailable")
  <2>1. /\ ch' \in Seq(Kinds) /\ Len(ch') = Len(ch) + 1
        /\ \A i \in 1..Len(ch) : ch'[i] = ch[i]
        /\ ch'[Len(ch')] = "LogLinesAvailable"
    BY <1>7 DEF TypeOK, Kinds
  <2>2. "LogLinesAvailable" \notin Failures
    BY DEF Failures
  <2>3. ASSUME NEW i \in 1..Len(ch') PROVE ch'[i] \notin Failures
    <3>1. i \in 1..Len(ch) \/ i = Len(ch')
      BY <2>1 DEF TypeOK
    <3> QED
      BY <1>4, <2>1, <2>2, <3>1
  <2>4. Len(ch') \in 1..Len(ch')
    BY <2>1 DEF TypeOK
  <2> QED
    BY <1>5, <2>3, <2>4
<1>8. CASE SendFailure /\ ch' = Append(ch, failure)
  <2>1. /\ ch' \in Seq(Kinds) /\ Len(ch') = Len(ch) + 1
        /\ ch'[Len(ch')] = failure /\ failure \in Failures
    BY <1>8 DEF TypeOK, Failures
  <2>2. ch' # <<>>
    BY <2>1 DEF TypeOK
  <2>3. Stage' = failure
    BY <1>1, <1>2, <2>1, <2>2 DEF Stage
  <2>4. Hosted!Fail(failure)
    BY <1>1, <1>2, <1>3, <2>3 DEF Hosted!Fail
  <2> QED
    BY <2>1, <2>4 DEF Hosted!Next
<1>9. UNCHANGED ch \/ (Signal /\ ch' = Append(ch, "LogLinesAvailable"))
        \/ (SendFailure /\ ch' = Append(ch, failure))
  BY DEF Reader, ConnectDone, Read, SendLine, Signal, SendFailure
<1> QED
  BY <1>6, <1>7, <1>8, <1>9

(* A Next that takes a failure reports it; one that takes a signal leaves  *)
(* the stage as it was.                                                    *)
LEMMA DeliverHosted ==
    ASSUME IInv, Deliver, UNCHANGED <<started, handling, reading>>
    PROVE  Hosted!Next \/ UNCHANGED Hosted!vars
<1> USE DEF IInv
<1> DEFINE k == Head(ch)
<1>1. /\ ch # <<>> /\ Len(ch) \in Nat /\ Len(ch) > 0 /\ k = ch[1] /\ k \in Kinds
      /\ ch' \in Seq(Kinds) /\ Len(ch') = Len(ch) - 1
      /\ \A i \in 1..Len(ch') : ch'[i] = ch[i + 1]
  BY DeliverKeepsSignals DEF Deliver, TypeOK
<1>2. started /\ UNCHANGED <<started, handling, reader>>
  BY <1>1 DEF ClosedIsQuiet, reading
<1>3. inbox' = [inbox EXCEPT ![k] = @ + 1] /\ inbox \in [Kinds -> Nat]
  BY DEF Deliver, TypeOK
<1>4. CASE k \notin Failures
  <2>1. \A f \in Failures : inbox'[f] = inbox[f]
    BY <1>3, <1>4 DEF Failures
  <2>2. UNCHANGED Reported
    BY <1>2, <2>1 DEF Reported
  <2>3. CASE Len(ch) = 1
    <3>1. ch' = <<>> /\ ch[Len(ch)] \notin Failures
      BY <1>1, <1>4, <2>3
    <3>2. UNCHANGED Stage
      BY <1>1, <1>2, <3>1 DEF Stage
    <3> QED
      BY <1>2, <2>2, <3>2 DEF Hosted!vars
  <2>4. CASE Len(ch) # 1
    <3>1. Len(ch') \in 1..Len(ch') /\ Len(ch') + 1 = Len(ch)
      BY <1>1, <2>4
    <3>2. ch' # <<>> /\ ch'[Len(ch')] = ch[Len(ch)]
      BY <1>1, <3>1
    <3>3. UNCHANGED Stage
      BY <1>1, <1>2, <3>2 DEF Stage
    <3> QED
      BY <1>2, <2>2, <3>3 DEF Hosted!vars
  <2> QED
    BY <2>3, <2>4
<1>5. CASE k \in Failures
  <2>1. k # "LogLinesAvailable"
    BY <1>5 DEF Failures
  <2>2. Len(ch) = 1
    <3>1. 1 \notin 1..(Len(ch) - 1)
      BY <1>1, <2>1 DEF FailureLast
    <3> QED
      BY <1>1, <3>1
  <2>3. ch' = <<>>
    BY <1>1, <2>2
  <2>4. reader = "none"
    BY <1>1, <2>1, <2>2 DEF OnlySignals
  <2>5. Stage = k /\ Stage' = "over"
    BY <1>1, <1>2, <1>5, <2>2, <2>3, <2>4 DEF Stage
  <2>6. Reported' = [Reported EXCEPT ![k] = @ + 1]
    <3>1. /\ inbox'[k] = inbox[k] + 1
          /\ \A f \in Failures : f # k => inbox'[f] = inbox[f]
      BY <1>1, <1>3 DEF Failures
    <3>2. inbox[k] \in Nat
      BY <1>1, <1>3
    <3>3. \A f \in Failures : Count(f)' = IF f = k THEN Count(k) + 1 ELSE Count(f)
      BY <1>2, <3>1, <3>2 DEF Count
    <3> HIDE DEF k
    <3> QED
      BY <1>5, <3>3, ReportedMoves
  <2>7. Hosted!Report(k)
    BY <1>2, <2>5, <2>6 DEF Hosted!Report
  <2> QED
    BY <1>5, <2>7 DEF Hosted!Next
<1> QED
  BY <1>4, <1>5

(* The loop opens and closes; while it waits inside Close for the reader,  *)
(* the failure it handles still counts as reported.                        *)
LEMMA LoopHosted ==
    ASSUME IInv, Loop
    PROVE  Hosted!Next \/ UNCHANGED Hosted!vars
<1> USE DEF IInv
<1>1. CASE Start
  <2>1. /\ ~started /\ started' /\ ch = <<>> /\ ch' = <<>> /\ reader' = "connect"
        /\ UNCHANGED <<inbox, handling>>
    BY <1>1 DEF Start, ClosedIsQuiet
  <2>2. Stage' = "live" /\ UNCHANGED Reported
    BY <2>1, ReportedKept DEF Stage
  <2>3. started' = TRUE
    BY <1>1 DEF Start
  <2> QED
    BY <2>1, <2>2, <2>3 DEF Hosted!Open, Hosted!Next
<1>2. CASE HandleLines \/ DrainOnly
  <2>1. UNCHANGED <<started, reader, ch, handling>>
    BY <1>2 DEF HandleLines, DrainOnly, reading
  <2>2. \A f \in Failures : inbox'[f] = inbox[f]
    <3>1. inbox' = inbox \/ inbox' = [inbox EXCEPT !["LogLinesAvailable"] = @ - 1]
      BY <1>2 DEF HandleLines, DrainOnly, Take, cmds
    <3> QED
      BY <3>1 DEF TypeOK, Failures, Kinds
  <2>3. UNCHANGED Stage
    BY <2>1 DEF Stage
  <2>4. UNCHANGED Reported
    BY <2>1, <2>2 DEF Reported
  <2> QED
    BY <2>1, <2>3, <2>4 DEF Hosted!vars
<1>3. CASE HandleFailure
  <2>1. PICK f \in Failures : Take(f) /\ handling' = IF started THEN f ELSE NoFailure
    BY <1>3 DEF HandleFailure
  <2>2. /\ ~closing /\ handling = NoFailure /\ NoFailure \notin Failures
        /\ UNCHANGED <<started, reader, ch>>
    BY <1>3, <2>1 DEF HandleFailure, Take, Sessions, reading, Failures, Kinds, NoFailure
  <2>3. /\ inbox[f] \in Nat /\ inbox[f] > 0 /\ inbox'[f] = inbox[f] - 1
        /\ \A g \in Failures : g # f => inbox'[g] = inbox[g]
    BY <2>1 DEF Take, TypeOK, Failures
  <2>4. \A g \in Failures : Reported[g] = inbox[g] + IF handling = g THEN 1 ELSE 0
    BY DEF Reported
  <2>5. UNCHANGED Stage
    BY <2>2 DEF Stage
  <2>6. CASE started
    <3>1. handling' = f
      BY <2>1, <2>6
    <3>2. UNCHANGED Reported
      <4>1. \A g \in Failures : inbox[g] + (IF handling = g THEN 1 ELSE 0)
                                  = inbox'[g] + (IF handling' = g THEN 1 ELSE 0)
        BY <2>2, <2>3, <3>1
      <4> QED
        BY <4>1 DEF Reported
    <3> QED
      BY <2>2, <2>5, <3>2 DEF Hosted!vars
  <2>7. CASE ~started
    <3>1. handling' = NoFailure /\ started' = FALSE
      BY <2>1, <2>2, <2>7 DEF TypeOK
    <3>2. Reported' = [Reported EXCEPT ![f] = @ - 1]
      <4>1. \A g \in Failures : Count(g)' = IF g = f THEN Count(f) - 1 ELSE Count(g)
        BY <2>2, <2>3, <3>1 DEF Count
      <4> QED
        BY <4>1, ReportedMoves
    <3>3. Reported[f] > 0
      BY <2>2, <2>3, <2>4
    <3>4. Stage' = "none"
      BY <3>1 DEF Stage
    <3> QED
      BY <3>1, <3>2, <3>3, <3>4 DEF Hosted!Handle, Hosted!Closed, Hosted!Next
  <2> QED
    BY <2>6, <2>7
<1>4. CASE CloseBegin
  <2>1. UNCHANGED <<started, reader, ch, inbox, handling>>
    BY <1>4 DEF CloseBegin, reading, cmds
  <2>2. UNCHANGED Stage /\ UNCHANGED Reported
    BY <2>1, ReportedKept DEF Stage
  <2> QED
    BY <2>1, <2>2 DEF Hosted!vars
<1>5. CASE CloseEnd
  <2>1. /\ started /\ started' = FALSE /\ handling' = NoFailure /\ UNCHANGED inbox
        /\ NoFailure \notin Failures
    BY <1>5 DEF CloseEnd, Sessions, Failures, Kinds, NoFailure
  <2>2. Stage' = "none"
    BY <2>1 DEF Stage
  <2>3. CASE handling = NoFailure
    <3>1. UNCHANGED Reported
      BY <2>1, <2>3, ReportedKept
    <3> QED
      BY <2>1, <2>2, <3>1 DEF Hosted!Close, Hosted!Closed, Hosted!Next
  <2>4. CASE handling \in Failures
    <3>1. Reported' = [Reported EXCEPT ![handling] = @ - 1]
      <4>1. \A g \in Failures : inbox[g] \in Nat
        BY DEF TypeOK, Failures
      <4>2. \A g \in Failures :
                Count(g)' = IF g = handling THEN Count(handling) - 1 ELSE Count(g)
        BY <2>1, <2>4, <4>1 DEF Count
      <4> QED
        BY <2>4, <4>2, ReportedMoves
    <3>2. Reported[handling] > 0
      BY <2>4 DEF Reported, TypeOK, Failures
    <3> QED
      BY <2>1, <2>2, <2>4, <3>1, <3>2 DEF Hosted!Handle, Hosted!Closed, Hosted!Next
  <2> QED
    BY <2>3, <2>4 DEF TypeOK
<1> QED
  BY <1>1, <1>2, <1>3, <1>4, <1>5 DEF Loop

(* Seen through its host the streamer is a HostedStream, for channels of   *)
(* any capacity: a stream fails at most once, its failure is handled at    *)
(* most once and only if it was read from ch, a stream starts with nothing *)
(* left of the one before, and Close, during which the reader may still    *)
(* read, write lines and fail, ends it all at once                         *)
(* (logs/service.go:120-288, servicehost.go:155-198).                      *)
THEOREM IsHosted == Spec => StreamSpec
<1>1. Init => Hosted!Init
  <2> SUFFICES ASSUME Init PROVE Hosted!Init
    OBVIOUS
  <2>1. started = FALSE /\ Stage = "none"
    BY DEF Init, Stage
  <2>2. \A f \in Failures : inbox[f] = 0 /\ handling # f
    BY DEF Init, Failures, Kinds, NoFailure
  <2>3. Reported = [f \in Failures |-> 0]
    BY <2>2 DEF Reported
  <2> QED
    BY <2>1, <2>3 DEF Hosted!Init
<1>2. IInv /\ [Next]_vars => [Hosted!Next]_(Hosted!vars)
  <2> SUFFICES ASSUME IInv, [Next]_vars PROVE Hosted!Next \/ UNCHANGED Hosted!vars
    OBVIOUS
  <2>1. CASE Receive \/ ReceiveStale
    <3>1. CASE Deliver
      BY <2>1, <3>1, DeliverHosted DEF Receive, ReceiveStale
    <3>2. CASE UNCHANGED <<ch, inbox>>
      <4>1. UNCHANGED <<started, reader, handling>>
        BY <2>1 DEF Receive, ReceiveStale, reading
      <4> QED
        BY <3>2, <4>1, ReportedKept DEF Hosted!vars, Stage
    <3> QED
      BY <2>1, <3>1, <3>2 DEF Receive, ReceiveStale
  <2>2. CASE UNCHANGED vars
    <3>1. UNCHANGED <<started, reader, handling, ch, inbox>>
      BY <2>2 DEF vars, reading, cmds
    <3> QED
      BY <3>1, ReportedKept DEF Hosted!vars, Stage
  <2> QED
    BY <2>1, <2>2, ReaderHosted, LoopHosted DEF Next, NextCmds
<1>3. Hosted!Init /\ [][Hosted!Next]_(Hosted!vars) => StreamSpec
  BY DEF StreamSpec, Hosted!Spec
<1> QED
  BY SpecIInv, <1>1, <1>2, <1>3, PTL DEF Spec

=============================================================================
