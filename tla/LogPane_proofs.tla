--------------------------- MODULE LogPane_proofs ---------------------------
(***************************************************************************)
(* Proofs about LogPane, for any services, sizes and bounds: the buffer    *)
(* never outgrows its cap, no message is handled that was not sent, the    *)
(* cached overflow flag is exact, who is at the end of the log is kept     *)
(* there, and the badge tells the truth about the selected service.        *)
(*                                                                         *)
(* And about the hosts that own the panes (LogHosts), for any number of    *)
(* services: they know which streams they have, and treat each as          *)
(* HostedStream says.                                                      *)
(***************************************************************************)
EXTENDS LogPane, LogHosts, FiniteSetTheorems, SequenceTheorems,
        WellFoundedInduction, TLAPS

PaneOK ==
    /\ lines \in Seq(LineWidths) /\ Len(lines) =< LineCap
    /\ wrap \in BOOLEAN /\ prevOverflow \in BOOLEAN

SizeOK == termW \in TermWidths /\ rawH \in TermHeights /\ frameHeight \in Nat

BarOK ==
    /\ selectedName \in Services /\ hostSelected \in BOOLEAN
    /\ topbarService \in Services \cup {None} /\ badge \in Badges

MsgsOK == msgs \in [Messages -> Nat]

HistoryOK == away \in BOOLEAN /\ raced \in BOOLEAN /\ cleared \in BOOLEAN

LEMMA Parts == TypeOK <=> PaneOK /\ SizeOK /\ BarOK /\ MsgsOK /\ HistoryOK
BY DEF TypeOK, PaneOK, SizeOK, BarOK, MsgsOK, HistoryOK

(* The actions, as Next puts them together.                                *)
LineStep == \E n \in 1..MaxBatch : \E ls \in [1..n -> LineWidths] : HandleLogLinesAvailable(ls)
ResizeStep == \E w \in TermWidths, h \in TermHeights : OnWindowResize(w, h)
FrameStep == \E fh \in FrameHeights : HandleFrameHeight(fh)
ScrollStep == \E y \in 0..Bottom : Scroll(y)
KeyStep == PressWrap \/ PressClear \/ \E s \in Services : Select(s)
SelectedStep == \E s \in Services : HandleServiceSelected(s)
ClearStep == \E s \in Services : HandleClearLogBuffer(s)
ReportStep == \E s \in Services : HandleReportWrapStatus(s)
StatusStep == \E s \in Services : \E m \in Statuses(s) : HandleLogWrapStatus(m)
ContextStep == \E s \in Services \cup {None} : HandleTopbarContext(s)

LEMMA Steps ==
    ASSUME Next
    PROVE  \/ LineStep \/ HandleToggleLogWrap \/ FrameStep \/ ResizeStep \/ ScrollStep
           \/ KeyStep \/ SelectedStep \/ ClearStep \/ ReportStep \/ StatusStep \/ ContextStep
BY Zenon DEF Next, LineStep, FrameStep, ResizeStep, ScrollStep, KeyStep, SelectedStep,
     ClearStep, ReportStep, StatusStep, ContextStep

-----------------------------------------------------------------------------
(* MESSAGES                                                                *)

LEMMA OneIsNat == \A S, m : One(S, m) \in 0..1
BY DEF One

LEMMA Sending ==
    ASSUME MsgsOK, NEW S, Send(S) PROVE MsgsOK'
BY OneIsNat DEF MsgsOK, Send

LEMMA Receiving ==
    ASSUME MsgsOK, NEW r, NEW S, Receive(r, S) PROVE MsgsOK'
<1>1. msgs[r] > 0 /\ msgs' = [m \in Messages |-> msgs[m] - One({r}, m) + One(S, m)]
  BY DEF Receive
<1>2. ASSUME NEW m \in Messages PROVE msgs[m] - One({r}, m) + One(S, m) \in Nat
  <2>1. CASE m = r
    BY <1>1, <2>1, OneIsNat DEF MsgsOK
  <2>2. CASE m # r
    <3>1. One({r}, m) = 0
      BY <2>2 DEF One
    <3> QED
      BY <3>1, OneIsNat DEF MsgsOK
  <2> QED
    BY <2>1, <2>2
<1> QED
  BY <1>1, <1>2 DEF MsgsOK

LEMMA MsgsNext == ASSUME MsgsOK, [Next]_vars PROVE MsgsOK'
<1>1. CASE LineStep
  BY <1>1, Sending, Zenon DEF LineStep, HandleLogLinesAvailable
<1>2. CASE HandleToggleLogWrap
  BY <1>2, Receiving, Zenon DEF HandleToggleLogWrap
<1>3. CASE FrameStep \/ ScrollStep
  BY <1>3 DEF FrameStep, HandleFrameHeight, ScrollStep, Scroll, MsgsOK
<1>4. CASE ResizeStep
  BY <1>4, Sending, Zenon DEF ResizeStep, OnWindowResize
<1>5. CASE KeyStep
  BY <1>5, Sending, Zenon DEF KeyStep, PressWrap, PressClear, Select
<1>6. CASE SelectedStep
  BY <1>6, Receiving, Zenon DEF SelectedStep, HandleServiceSelected
<1>7. CASE ClearStep
  BY <1>7, Receiving, Zenon DEF ClearStep, HandleClearLogBuffer
<1>8. CASE ReportStep
  BY <1>8, Receiving, Zenon DEF ReportStep, HandleReportWrapStatus
<1>9. CASE StatusStep
  BY <1>9, Receiving, Zenon DEF StatusStep, HandleLogWrapStatus
<1>10. CASE ContextStep
  BY <1>10, Receiving, Zenon DEF ContextStep, HandleTopbarContext
<1>11. CASE UNCHANGED vars
  BY <1>11 DEF vars, MsgsOK
<1> QED
  BY <1>1, <1>2, <1>3, <1>4, <1>5, <1>6, <1>7, <1>8, <1>9, <1>10, <1>11, Steps

-----------------------------------------------------------------------------
(* THE BUFFER AND ITS FLAG                                                 *)

LEMMA Flags ==
    /\ \A ls, wr, w : HasOverflow(ls, wr, w) \in BOOLEAN
    /\ \A ls, trimmed : PaneOK => OverflowAfter(ls, trimmed) \in BOOLEAN
<1>1. \A ls, wr, w : HasOverflow(ls, wr, w) \in BOOLEAN
  BY Zenon DEF HasOverflow
<1> QED
  BY <1>1, Zenon DEF OverflowAfter, PaneOK

(* The last lines of the buffer and the new ones are at most LineCap.      *)
LEMMA Kept ==
    ASSUME NEW all \in Seq(LineWidths)
    PROVE  LET excess == Len(all) - LineCap
               kept == IF excess > 0 THEN SubSeq(all, excess + 1, Len(all)) ELSE all
           IN kept \in Seq(LineWidths) /\ Len(kept) =< LineCap
BY Sizes

LEMMA Batch ==
    ASSUME NEW n \in 1..MaxBatch, NEW ls \in [1..n -> LineWidths],
           lines \in Seq(LineWidths)
    PROVE  /\ ls \in Seq(LineWidths)
           /\ lines \o ls \in Seq(LineWidths)
           /\ Len(lines \o ls) = Len(lines) + Len(ls)
           /\ \A i \in 1..Len(lines) : (lines \o ls)[i] = lines[i]
<1>1. ls \in Seq(LineWidths)
  BY Sizes
<1> QED
  BY <1>1

LEMMA EmptyBuffer == <<>> \in Seq(LineWidths) /\ Len(<<>>) =< LineCap
BY Sizes

LEMMA PaneNext == ASSUME PaneOK, [Next]_vars PROVE PaneOK'
<1>1. CASE LineStep
  <2>0. PICK n \in 1..MaxBatch : \E ls \in [1..n -> LineWidths] : HandleLogLinesAvailable(ls)
    BY <1>1 DEF LineStep
  <2>1. PICK ls \in [1..n -> LineWidths] : HandleLogLinesAvailable(ls)
    BY <2>0
  <2> DEFINE all == lines \o ls
             excess == Len(all) - LineCap
             kept == IF excess > 0 THEN SubSeq(all, excess + 1, Len(all)) ELSE all
  <2>2. /\ lines' = kept
        /\ prevOverflow' = OverflowAfter(kept, excess > 0)
        /\ UNCHANGED wrap
    BY <2>1, Zenon DEF HandleLogLinesAvailable
  <2>3. kept \in Seq(LineWidths) /\ Len(kept) =< LineCap
    BY Batch, Kept DEF PaneOK
  <2>4. prevOverflow' \in BOOLEAN
    BY <2>2, Flags, Zenon
  <2>5. wrap' \in BOOLEAN
    BY <2>2, Zenon DEF PaneOK
  <2> HIDE DEF kept
  <2> QED
    BY <2>2, <2>3, <2>4, <2>5 DEF PaneOK
<1>2. CASE HandleToggleLogWrap
  <2>1. wrap' \in BOOLEAN /\ prevOverflow' \in BOOLEAN
    BY <1>2, Flags, Zenon DEF HandleToggleLogWrap
  <2>2. lines' = lines
    BY <1>2, Zenon DEF HandleToggleLogWrap
  <2> QED
    BY <2>1, <2>2 DEF PaneOK
<1>3. CASE ResizeStep
  <2>1. prevOverflow' \in BOOLEAN
    BY <1>3, Flags, Zenon DEF ResizeStep, OnWindowResize, PaneOK
  <2>2. UNCHANGED <<lines, wrap>>
    BY <1>3, Zenon DEF ResizeStep, OnWindowResize
  <2> QED
    BY <2>1, <2>2 DEF PaneOK
<1>4. CASE ClearStep
  <2>1. PICK s \in Services : HandleClearLogBuffer(s)
    BY <1>4 DEF ClearStep
  <2>2. CASE s = Own
    <3>1. lines' = <<>> /\ prevOverflow' = FALSE /\ wrap' = wrap
      BY <2>1, <2>2, Zenon DEF HandleClearLogBuffer
    <3> QED
      BY <3>1, EmptyBuffer, Zenon DEF PaneOK
  <2>3. CASE s # Own
    BY <2>1, <2>3 DEF HandleClearLogBuffer, PaneOK
  <2> QED
    BY <2>2, <2>3
<1>5. CASE ReportStep
  <2>1. prevOverflow' \in BOOLEAN
    BY <1>5, Flags, Zenon DEF ReportStep, HandleReportWrapStatus, PaneOK
  <2>2. UNCHANGED <<lines, wrap>>
    BY <1>5, Zenon DEF ReportStep, HandleReportWrapStatus
  <2> QED
    BY <2>1, <2>2 DEF PaneOK
<1>6. CASE FrameStep \/ ScrollStep \/ KeyStep \/ SelectedStep \/ StatusStep \/ ContextStep
  <2>1. UNCHANGED <<lines, wrap, prevOverflow>>
    BY <1>6, Zenon DEF pane, FrameStep, HandleFrameHeight, ScrollStep, Scroll, KeyStep,
         PressWrap, PressClear, Select, SelectedStep, HandleServiceSelected,
         StatusStep, HandleLogWrapStatus, ContextStep, HandleTopbarContext
  <2> QED
    BY <2>1 DEF PaneOK
<1>7. CASE UNCHANGED vars
  BY <1>7 DEF vars, pane, PaneOK
<1> QED
  BY <1>1, <1>2, <1>3, <1>4, <1>5, <1>6, <1>7, Steps

-----------------------------------------------------------------------------
(* SIZE, BADGE AND HISTORY                                                 *)

LEMMA SizeNext == ASSUME SizeOK, [Next]_vars PROVE SizeOK'
<1> USE DEF SizeOK, size
<1>1. CASE ResizeStep
  BY <1>1 DEF ResizeStep, OnWindowResize
<1>2. CASE FrameStep
  BY <1>2, Sizes DEF FrameStep, HandleFrameHeight
<1>3. CASE LineStep \/ HandleToggleLogWrap \/ ScrollStep \/ KeyStep \/ SelectedStep
           \/ ClearStep \/ ReportStep \/ StatusStep \/ ContextStep
  <2>1. UNCHANGED size
    BY <1>3, Zenon DEF LineStep, HandleLogLinesAvailable, HandleToggleLogWrap, ScrollStep,
         Scroll, KeyStep, PressWrap, PressClear, Select, SelectedStep,
         HandleServiceSelected, ClearStep, HandleClearLogBuffer, ReportStep,
         HandleReportWrapStatus, StatusStep, HandleLogWrapStatus, ContextStep,
         HandleTopbarContext
  <2> QED
    BY <2>1
<1>4. CASE UNCHANGED vars
  BY <1>4 DEF vars
<1> QED
  BY <1>1, <1>2, <1>3, <1>4, Steps

LEMMA BarNext == ASSUME BarOK, [Next]_vars PROVE BarOK'
<1>1. CASE SelectedStep
  <2>1. selectedName' \in Services /\ hostSelected' \in BOOLEAN
    BY <1>1, Zenon DEF SelectedStep, HandleServiceSelected
  <2>2. UNCHANGED <<topbarService, badge>>
    BY <1>1, Zenon DEF SelectedStep, HandleServiceSelected, bar
  <2> QED
    BY <2>1, <2>2 DEF BarOK
<1>2. CASE StatusStep
  <2>0. PICK s \in Services : \E m \in Statuses(s) : HandleLogWrapStatus(m)
    BY <1>2 DEF StatusStep
  <2>1. PICK m \in Statuses(s) : HandleLogWrapStatus(m)
    BY <2>0
  <2>2. m.svc = Own => m.is \in Badges
    BY <2>1 DEF Statuses, Status, Badges
  <2>3. badge' \in Badges
    BY <2>1, <2>2, Zenon DEF HandleLogWrapStatus, BarOK
  <2>4. UNCHANGED <<selectedName, hostSelected, topbarService>>
    BY <2>1, Zenon DEF HandleLogWrapStatus, selection
  <2> QED
    BY <2>3, <2>4 DEF BarOK
<1>3. CASE ContextStep
  <2>1. topbarService' \in Services \cup {None} /\ badge' \in {badge, Off}
    BY <1>3 DEF ContextStep, HandleTopbarContext
  <2>2. UNCHANGED <<selectedName, hostSelected>>
    BY <1>3, Zenon DEF ContextStep, HandleTopbarContext, selection
  <2> QED
    BY <2>1, <2>2, Zenon DEF BarOK, Badges
<1>4. CASE LineStep \/ HandleToggleLogWrap \/ FrameStep \/ ResizeStep \/ ScrollStep
           \/ KeyStep \/ ClearStep \/ ReportStep
  <2>1. UNCHANGED <<bar, selection>>
    BY <1>4, Zenon DEF LineStep, HandleLogLinesAvailable, HandleToggleLogWrap, FrameStep,
         HandleFrameHeight, ResizeStep, OnWindowResize, ScrollStep, Scroll, KeyStep,
         PressWrap, PressClear, Select, ClearStep, HandleClearLogBuffer, ReportStep,
         HandleReportWrapStatus
  <2> QED
    BY <2>1 DEF BarOK, bar, selection
<1>5. CASE UNCHANGED vars
  BY <1>5 DEF BarOK, vars, bar, selection
<1> QED
  BY <1>1, <1>2, <1>3, <1>4, <1>5, Steps

LEMMA HistoryNext == ASSUME HistoryOK, [Next]_vars PROVE HistoryOK'
<1> USE DEF HistoryOK, history
<1>1. CASE FrameStep
  BY <1>1, Zenon DEF FrameStep, HandleFrameHeight
<1>2. CASE ScrollStep
  <2>1. PICK y \in 0..Bottom : away' = (y < Bottom)
    BY <1>2, Zenon DEF ScrollStep, Scroll
  <2>2. away' \in BOOLEAN
    BY <2>1, SMT
  <2>3. raced' = raced /\ cleared' = cleared
    BY <1>2, Zenon DEF ScrollStep, Scroll
  <2> QED
    BY <2>2, <2>3, Zenon
<1>3. CASE SelectedStep
  BY <1>3, Zenon DEF SelectedStep, HandleServiceSelected
<1>4. CASE ClearStep
  BY <1>4, Zenon DEF ClearStep, HandleClearLogBuffer
<1>5. CASE StatusStep
  BY <1>5, Zenon DEF StatusStep, HandleLogWrapStatus
<1>6. CASE ContextStep
  BY <1>6, Zenon DEF ContextStep, HandleTopbarContext
<1>7. CASE LineStep \/ HandleToggleLogWrap \/ ResizeStep \/ KeyStep \/ ReportStep
  <2>1. UNCHANGED history
    BY <1>7, Zenon DEF LineStep, HandleLogLinesAvailable, HandleToggleLogWrap, ResizeStep,
         OnWindowResize, KeyStep, PressWrap, PressClear, Select, ReportStep,
         HandleReportWrapStatus
  <2> QED
    BY <2>1
<1>8. CASE UNCHANGED vars
  BY <1>8 DEF vars
<1> QED
  BY <1>1, <1>2, <1>3, <1>4, <1>5, <1>6, <1>7, <1>8, Steps

LEMMA InitParts == Init => PaneOK /\ SizeOK /\ BarOK /\ MsgsOK /\ HistoryOK
<1> SUFFICES ASSUME Init PROVE PaneOK /\ SizeOK /\ BarOK /\ MsgsOK /\ HistoryOK
  OBVIOUS
<1>1. PaneOK
  <2>1. lines = <<>> /\ wrap = FALSE /\ prevOverflow = FALSE
    BY Zenon DEF Init
  <2> QED
    BY <2>1, EmptyBuffer, Zenon DEF PaneOK
<1>2. SizeOK
  BY DEF Init, SizeOK
<1>3. BarOK
  BY OwnService DEF Init, BarOK, Badges
<1>4. MsgsOK
  BY OneIsNat DEF Init, MsgsOK
<1>5. HistoryOK
  BY Zenon DEF Init, HistoryOK
<1> QED
  BY <1>1, <1>2, <1>3, <1>4, <1>5

(* Whatever comes through lineCh and at whatever speed, the buffer holds   *)
(* LineCap lines at most; and no message is handled that was not sent.     *)
THEOREM BufferBounded == Spec => []TypeOK
<1> DEFINE Inv == PaneOK /\ SizeOK /\ BarOK /\ MsgsOK /\ HistoryOK
<1>1. Init => Inv
  BY InitParts
<1>2. Inv /\ [Next]_vars => Inv'
  BY PaneNext, SizeNext, BarNext, MsgsNext, HistoryNext
<1>3. Inv => TypeOK
  BY Parts
<1> QED
  BY <1>1, <1>2, <1>3, PTL DEF Spec

-----------------------------------------------------------------------------
(* THE FLAG IS EXACT                                                       *)

(* Lines added to a buffer with a cut-off line leave it with one.          *)
LEMMA StillOver ==
    ASSUME PaneOK, NEW n \in 1..MaxBatch, NEW ls \in [1..n -> LineWidths], NEW w,
           HasOverflow(lines, FALSE, w)
    PROVE  HasOverflow(lines \o ls, FALSE, w)
<1>1. PICK i \in 1..Len(lines) : lines[i] > w
  BY DEF HasOverflow
<1>2. i \in 1..Len(lines \o ls) /\ (lines \o ls)[i] = lines[i]
  BY Batch DEF PaneOK
<1> QED
  BY <1>1, <1>2 DEF HasOverflow

LEMMA WrappedFits == \A ls, w : HasOverflow(ls, TRUE, w) = FALSE
BY DEF HasOverflow

LEMMA EmptyFits == \A wr, w : HasOverflow(<<>>, wr, w) = FALSE
BY DEF HasOverflow

LEMMA FlagNext ==
    ASSUME PaneOK, OverflowKnown, [Next]_vars PROVE OverflowKnown'
<1> DEFINE width == ViewWidth(termW)
<1>1. CASE LineStep
  <2>0. PICK n \in 1..MaxBatch : \E ls \in [1..n -> LineWidths] : HandleLogLinesAvailable(ls)
    BY <1>1 DEF LineStep
  <2>1. PICK ls \in [1..n -> LineWidths] : HandleLogLinesAvailable(ls)
    BY <2>0
  <2> DEFINE all == lines \o ls
             excess == Len(all) - LineCap
             kept == IF excess > 0 THEN SubSeq(all, excess + 1, Len(all)) ELSE all
  <2>2. /\ lines' = kept
        /\ prevOverflow' = OverflowAfter(kept, excess > 0)
        /\ UNCHANGED <<wrap, termW>>
    BY <2>1, Zenon DEF HandleLogLinesAvailable, size
  <2>3. width' = width
    BY <2>2 DEF ViewWidth
  <2>4. CASE wrap
    BY <2>2, <2>3, <2>4, WrappedFits, Zenon DEF OverflowKnown, OverflowAfter, PaneOK
  <2>5. CASE ~wrap /\ prevOverflow /\ ~(excess > 0)
    <3>1. kept = all
      BY <2>5
    <3>2. HasOverflow(lines, FALSE, width)
      BY <2>5, Zenon DEF OverflowKnown, PaneOK
    <3>3. HasOverflow(all, FALSE, width)
      BY <3>2, StillOver
    <3>4. prevOverflow' = TRUE
      BY <2>2, <2>5, Zenon DEF OverflowAfter, PaneOK
    <3>5. wrap' = FALSE /\ lines' = all
      BY <2>2, <2>5, <3>1, Zenon DEF PaneOK
    <3> HIDE DEF all, width
    <3> QED
      BY <2>3, <3>3, <3>4, <3>5, Flags, Zenon DEF OverflowKnown, width
  <2>6. CASE ~wrap /\ ~(prevOverflow /\ ~(excess > 0))
    <3>1. wrap = FALSE
      BY <2>6, Zenon DEF PaneOK
    <3> HIDE DEF kept, excess
    <3> QED
      BY <2>2, <2>3, <2>6, <3>1, Zenon DEF OverflowKnown, OverflowAfter
  <2> QED
    BY <2>4, <2>5, <2>6, Zenon
<1>2. CASE HandleToggleLogWrap
  <2>1. /\ prevOverflow' = HasOverflow(lines, wrap', width)
        /\ UNCHANGED <<lines, termW>>
    BY <1>2, Zenon DEF HandleToggleLogWrap, size
  <2> QED
    BY <2>1, Zenon DEF OverflowKnown
<1>3. CASE ResizeStep
  <2>1. PICK w \in TermWidths, h \in TermHeights : OnWindowResize(w, h)
    BY <1>3 DEF ResizeStep
  <2>2. /\ prevOverflow' = IF wrap THEN prevOverflow ELSE HasOverflow(lines, wrap, ViewWidth(w))
        /\ termW' = w
        /\ UNCHANGED <<lines, wrap>>
    BY <2>1, Zenon DEF OnWindowResize
  <2>3. CASE wrap
    <3>1. wrap = TRUE
      BY <2>3, Zenon DEF PaneOK
    <3> QED
      BY <2>2, <3>1, WrappedFits, Zenon DEF OverflowKnown
  <2>4. CASE ~wrap
    BY <2>2, <2>4, Zenon DEF OverflowKnown
  <2> QED
    BY <2>3, <2>4
<1>4. CASE ClearStep
  <2>1. PICK s \in Services : HandleClearLogBuffer(s)
    BY <1>4 DEF ClearStep
  <2>2. UNCHANGED <<wrap, termW>>
    BY <2>1, Zenon DEF HandleClearLogBuffer, size
  <2>3. CASE s = Own
    <3>1. lines' = <<>> /\ prevOverflow' = FALSE
      BY <2>1, <2>3, Zenon DEF HandleClearLogBuffer
    <3> QED
      BY <3>1, EmptyFits, Zenon DEF OverflowKnown
  <2>4. CASE s # Own
    <3>1. UNCHANGED <<lines, prevOverflow>>
      BY <2>1, <2>4, Zenon DEF HandleClearLogBuffer
    <3> QED
      BY <2>2, <3>1, Zenon DEF OverflowKnown
  <2> QED
    BY <2>3, <2>4
<1>5. CASE ReportStep
  <2>1. PICK s \in Services : HandleReportWrapStatus(s)
    BY <1>5 DEF ReportStep
  <2>2. UNCHANGED <<lines, wrap, termW>>
    BY <2>1, Zenon DEF HandleReportWrapStatus, size
  <2>3. prevOverflow' \in {prevOverflow, OverflowAfter(lines, FALSE)}
    BY <2>1, Zenon DEF HandleReportWrapStatus
  <2>4. OverflowAfter(lines, FALSE) = prevOverflow
    BY Zenon DEF OverflowAfter, OverflowKnown, PaneOK
  <2> QED
    BY <2>2, <2>3, <2>4, Zenon DEF OverflowKnown
<1>6. CASE FrameStep \/ ScrollStep \/ KeyStep \/ SelectedStep \/ StatusStep \/ ContextStep
  <2>1. UNCHANGED <<lines, wrap, prevOverflow, termW>>
    BY <1>6, Zenon DEF pane, size, FrameStep, HandleFrameHeight, ScrollStep, Scroll, KeyStep,
         PressWrap, PressClear, Select, SelectedStep, HandleServiceSelected,
         StatusStep, HandleLogWrapStatus, ContextStep, HandleTopbarContext
  <2> QED
    BY <2>1, Zenon DEF OverflowKnown
<1>7. CASE UNCHANGED vars
  BY <1>7, Zenon DEF vars, pane, size, OverflowKnown
<1> QED
  BY <1>1, <1>2, <1>3, <1>4, <1>5, <1>6, <1>7, Steps

(* The overflow flag, which the pane keeps instead of looking through its  *)
(* buffer, is up exactly when a line is cut off, for any cap and any sizes *)
(* of batches and terminal.                                                *)
THEOREM OverflowExact == Spec => []OverflowKnown
<1>1. Init => PaneOK /\ OverflowKnown
  <2> SUFFICES ASSUME Init PROVE OverflowKnown
    BY InitParts
  <2>1. lines = <<>> /\ prevOverflow = FALSE
    BY Zenon DEF Init
  <2> QED
    BY <2>1, EmptyFits, Zenon DEF OverflowKnown
<1>2. PaneOK /\ OverflowKnown /\ [Next]_vars => (PaneOK /\ OverflowKnown)'
  BY PaneNext, FlagNext
<1> QED
  BY <1>1, <1>2, PTL DEF Spec

-----------------------------------------------------------------------------
(* ROWS                                                                    *)

LEMMA LeastNat ==
    ASSUME NEW T \in SUBSET Nat, T # {}
    PROVE  \E x \in T : \A y \in T : x =< y
<1>1. \E x \in T : \A y \in T : ~ (<<y, x>> \in OpToRel(<,Nat))
  BY NatLessThanWellFounded, WFMin, Zenon
<1>2. \A x, y \in T : y < x => <<y, x>> \in OpToRel(<,Nat)
  BY DEF OpToRel
<1>3. PICK x \in T : \A y \in T : ~ (<<y, x>> \in OpToRel(<,Nat))
  BY <1>1
<1>4. \A y \in T : ~(y < x)
  BY <1>2, <1>3, Zenon
<1> QED
  BY <1>4

(* The rows above each line, as RowsOf defines them: by induction on the   *)
(* number of lines, told as a least counterexample.                        *)
IsRows(f, ls, w, m) == f = [n \in 0..m |-> IF n = 0 THEN 0 ELSE f[n - 1] + Rows(ls[n], w)]

LEMMA RowsExist == ASSUME NEW ls, NEW w, NEW k \in Nat PROVE \E f : IsRows(f, ls, w, k)
<1> DEFINE Bad == {n \in Nat : ~ \E f : IsRows(f, ls, w, n)}
<1> SUFFICES ASSUME Bad # {} PROVE FALSE
  OBVIOUS
<1>1. PICK n \in Bad : \A m \in Bad : n =< m
  BY LeastNat
<1>2. CASE n = 0
  <2> DEFINE f == [i \in 0..0 |-> 0]
  <2>1. IsRows(f, ls, w, 0)
    BY DEF IsRows
  <2> QED BY <1>2, <2>1
<1>3. CASE n # 0
  <2>1. n - 1 \in Nat /\ n - 1 \notin Bad /\ n \in Nat
    BY <1>1, <1>3
  <2>2. PICK g : IsRows(g, ls, w, n - 1)
    BY <2>1
  <2> DEFINE f == [i \in 0..n |-> IF i = n THEN g[n - 1] + Rows(ls[n], w) ELSE g[i]]
             h == [i \in 0..n |-> IF i = 0 THEN 0 ELSE f[i - 1] + Rows(ls[i], w)]
  <2>3. \A i \in 0..(n-1) : g[i] = IF i = 0 THEN 0 ELSE g[i - 1] + Rows(ls[i], w)
    BY <2>2, Zenon DEF IsRows
  <2>4. ASSUME NEW i \in 0..n PROVE f[i] = h[i]
    <3>1. CASE i = n
      BY <2>1, <3>1, <1>3
    <3>2. CASE i # n
      <4>1. i \in 0..(n-1) /\ f[i] = g[i]
        BY <2>1, <3>2
      <4>2. i # 0 => f[i - 1] = g[i - 1]
        BY <2>1, <4>1
      <4> QED BY <2>3, <4>1, <4>2
    <3> QED BY <3>1, <3>2
  <2>5. f = h
    BY <2>4, Zenon
  <2>6. IsRows(f, ls, w, n)
    BY <2>5, Zenon DEF IsRows
  <2> QED BY <2>6
<1> QED BY <1>2, <1>3

LEMMA RowsDef == ASSUME NEW ls, NEW w, Len(ls) \in Nat PROVE IsRows(RowsOf(ls, w), ls, w, Len(ls))
<1>0. PICK g : IsRows(g, ls, w, Len(ls))
  BY RowsExist
<1>1. \E f : f = [n \in 0..Len(ls) |-> IF n = 0 THEN 0 ELSE f[n - 1] + Rows(ls[n], w)]
  BY <1>0, Zenon DEF IsRows
<1>2. RowsOf(ls, w) = [n \in 0..Len(ls) |-> IF n = 0 THEN 0 ELSE RowsOf(ls, w)[n - 1] + Rows(ls[n], w)]
  BY <1>1 DEF RowsOf
<1> QED
  BY <1>2, Zenon DEF IsRows

LEMMA RowsNat == ASSUME NEW L \in SUBSET Nat, NEW ls \in Seq(L), NEW w \in Int, NEW n \in 0..Len(ls)
PROVE RowsOf(ls, w)[n] \in Nat
<1> DEFINE f == RowsOf(ls, w)
           Bad == {m \in 0..Len(ls) : f[m] \notin Nat}
<1>1. f = [m \in 0..Len(ls) |-> IF m = 0 THEN 0 ELSE f[m - 1] + Rows(ls[m], w)]
  <2>1. IsRows(f, ls, w, Len(ls))
    BY RowsDef
  <2> QED
    BY <2>1, Zenon DEF IsRows
<1> HIDE DEF f
<1> SUFFICES ASSUME Bad # {} PROVE FALSE
  BY DEF f
<1>2. PICK m \in Bad : \A i \in Bad : m =< i
  <2>1. Bad \in SUBSET Nat
    OBVIOUS
  <2> QED
    BY <2>1, LeastNat, Zenon
<1>3. f[m] = IF m = 0 THEN 0 ELSE f[m - 1] + Rows(ls[m], w)
  BY <1>1
<1>4. CASE m = 0
  BY <1>3, <1>4
<1>5. CASE m # 0
  <2>1. m - 1 \in 0..Len(ls) /\ f[m - 1] \in Nat
    BY <1>2, <1>5
  <2>2. ls[m] \in Nat
    <3>1. m \in 1..Len(ls)
      BY <1>2, <1>5
    <3>2. ls[m] \in L
      BY <3>1
    <3> QED
      BY <3>2
  <2>3. Rows(ls[m], w) \in Nat
    <3>1. Bigger(w, 1) \in Nat \ {0}
      BY DEF Bigger
    <3>2. (ls[m] + Bigger(w, 1) - 1) \div Bigger(w, 1) \in Int
      BY <2>2, <3>1
    <3> QED
      BY <3>2 DEF Rows, Bigger
  <2> QED
    BY <1>3, <1>5, <2>1, <2>3
<1> QED
  BY <1>4, <1>5

LEMMA OffsetsAreNumbers ==
    ASSUME NEW ls \in Seq(LineWidths), NEW wr \in BOOLEAN, NEW w \in Int, NEW h \in Int
    PROVE  MaxYOffset(ls, wr, w, h) \in Nat
<1>1. Len(ls) \in Nat
  OBVIOUS
<1>2. RowsOf(ls, w)[Len(ls)] \in Nat
  BY <1>1, RowsNat, Sizes
<1>3. TotalRows(ls, wr, w) \in Nat
  BY <1>1, <1>2 DEF TotalRows
<1> QED
  BY <1>3 DEF MaxYOffset, Bigger

LEMMA ViewIsNumbers ==
    ASSUME NEW w \in Nat, NEW h \in Nat, NEW fh \in Nat
    PROVE  ViewWidth(w) \in Nat /\ ViewHeight(h, fh) \in Nat
BY Sizes DEF ViewWidth, ViewHeight, Bigger

(* An empty buffer has no rows below the view.                             *)
LEMMA EmptyEnds ==
    ASSUME NEW wr \in BOOLEAN, NEW w \in Int, NEW h \in Nat
    PROVE  MaxYOffset(<<>>, wr, w, h) = 0
<1>1. Len(<<>>) = 0
  OBVIOUS
<1>2. IsRows(RowsOf(<<>>, w), <<>>, w, 0)
  BY <1>1, RowsDef
<1>3. RowsOf(<<>>, w)[0] = 0
  BY <1>2 DEF IsRows
<1>4. TotalRows(<<>>, wr, w) = 0
  BY <1>1, <1>3 DEF TotalRows
<1> QED
  BY <1>4 DEF MaxYOffset, Bigger

LEMMA BottomIsNumber ==
    ASSUME PaneOK, SizeOK PROVE Bottom \in Nat
<1>1. ViewWidth(termW) \in Nat /\ ViewHeight(rawH, frameHeight) \in Nat
  BY ViewIsNumbers, Sizes DEF SizeOK
<1> QED
  BY <1>1, OffsetsAreNumbers DEF Bottom, PaneOK

-----------------------------------------------------------------------------
(* THE TAIL IS FOLLOWED                                                    *)

TailInv == PaneOK /\ SizeOK /\ HistoryOK /\ FollowsTail

(* A step that goes to the bottom there then is, if it was at the bottom.  *)
LEMMA ToTheEnd ==
    ASSUME FollowsTail, UNCHANGED away, AtBottom => yOffset' = Bottom', Bottom' \in Nat
    PROVE  FollowsTail'
BY DEF FollowsTail, AtBottom

LEMMA TailNext ==
    ASSUME TailInv, [Next]_vars PROVE FollowsTail'
<1>0. PaneOK' /\ SizeOK' /\ Bottom \in Nat /\ Bottom' \in Nat
  <2>1. PaneOK' /\ SizeOK'
    BY PaneNext, SizeNext DEF TailInv
  <2>2. ViewWidth(termW') \in Nat /\ ViewHeight(rawH', frameHeight') \in Nat
    BY <2>1, ViewIsNumbers, Sizes DEF SizeOK
  <2>3. Bottom' \in Nat
    BY <2>1, <2>2, OffsetsAreNumbers DEF Bottom, PaneOK
  <2> QED
    BY <2>1, <2>3, BottomIsNumber DEF TailInv
<1> USE DEF TailInv
<1>1. CASE LineStep
  <2>0. PICK n \in 1..MaxBatch : \E ls \in [1..n -> LineWidths] : HandleLogLinesAvailable(ls)
    BY <1>1 DEF LineStep
  <2>1. PICK ls \in [1..n -> LineWidths] : HandleLogLinesAvailable(ls)
    BY <2>0
  <2>2. AtBottom => yOffset' = Bottom'
    BY <2>1, Zenon DEF HandleLogLinesAvailable, Bottom, size
  <2>3. UNCHANGED away
    BY <2>1, Zenon DEF HandleLogLinesAvailable, history
  <2> QED
    BY <1>0, <2>2, <2>3, ToTheEnd
<1>2. CASE HandleToggleLogWrap
  <2>1. AtBottom => yOffset' = Bottom'
    BY <1>2, Zenon DEF HandleToggleLogWrap, Bottom, size
  <2>2. UNCHANGED away
    BY <1>2, Zenon DEF HandleToggleLogWrap, history
  <2> QED
    BY <1>0, <2>1, <2>2, ToTheEnd
<1>3. CASE ResizeStep
  <2>1. AtBottom => yOffset' = Bottom'
    BY <1>3, Zenon DEF ResizeStep, OnWindowResize, Bottom
  <2>2. UNCHANGED away
    BY <1>3, Zenon DEF ResizeStep, OnWindowResize, history
  <2> QED
    BY <1>0, <2>1, <2>2, ToTheEnd
<1>4. CASE ClearStep
  <2>1. PICK s \in Services : HandleClearLogBuffer(s)
    BY <1>4 DEF ClearStep
  <2>2. CASE s = Own
    <3>1. lines' = <<>> /\ yOffset' = 0
      BY <2>1, <2>2, Zenon DEF HandleClearLogBuffer
    <3>2. Bottom' = 0
      <4>1. ViewWidth(termW') \in Nat /\ ViewHeight(rawH', frameHeight') \in Nat
        BY <1>0, ViewIsNumbers, Sizes DEF SizeOK
      <4>2. MaxYOffset(<<>>, wrap', ViewWidth(termW'), ViewHeight(rawH', frameHeight')) = 0
        BY <1>0, <4>1, EmptyEnds DEF PaneOK
      <4> QED
        BY <3>1, <4>2, Zenon DEF Bottom
    <3> QED
      BY <3>1, <3>2 DEF FollowsTail, AtBottom
  <2>3. CASE s # Own
    <3>1. UNCHANGED <<lines, wrap, yOffset, size, away>>
      BY <2>1, <2>3, Zenon DEF HandleClearLogBuffer
    <3> QED
      BY <3>1 DEF FollowsTail, AtBottom, Bottom, size
  <2> QED
    BY <2>2, <2>3
<1>5. CASE FrameStep
  <2>1. away' = (away \/ ~AtBottom')
    BY <1>5, Zenon DEF FrameStep, HandleFrameHeight
  <2> QED
    BY <2>1, Zenon DEF FollowsTail
<1>6. CASE ScrollStep
  <2>1. PICK y \in 0..Bottom : Scroll(y)
    BY <1>6 DEF ScrollStep
  <2>2. yOffset' = y /\ away' = (y < Bottom) /\ UNCHANGED <<lines, wrap, size>>
    BY <2>1, Zenon DEF Scroll
  <2>3. Bottom' = Bottom
    BY <2>2 DEF Bottom, size
  <2>4. ~(y < Bottom) => y >= Bottom
    BY <1>0
  <2> QED
    BY <2>2, <2>3, <2>4, Zenon DEF FollowsTail, AtBottom
<1>7. CASE KeyStep \/ SelectedStep \/ ReportStep \/ StatusStep \/ ContextStep
  <2>1. UNCHANGED <<lines, wrap, yOffset, size, away>>
    BY <1>7, Zenon DEF pane, history, KeyStep, PressWrap, PressClear, Select, SelectedStep,
         HandleServiceSelected, ReportStep, HandleReportWrapStatus, StatusStep,
         HandleLogWrapStatus, ContextStep, HandleTopbarContext
  <2> QED
    BY <2>1 DEF FollowsTail, AtBottom, Bottom, size
<1>8. CASE UNCHANGED vars
  BY <1>8 DEF vars, pane, size, history, FollowsTail, AtBottom, Bottom
<1> QED
  BY <1>1, <1>2, <1>3, <1>4, <1>5, <1>6, <1>7, <1>8, Steps

(* Who has not left the end of the log is kept at its end, for any cap and *)
(* batches and sizes, wrapped or not: it is as many rows down as the lines *)
(* take, less the height of the view (logpane.go:213-311).                 *)
THEOREM TailFollowed == Spec => []FollowsTail
<1>1. Init => TailInv
  <2> SUFFICES ASSUME Init PROVE TailInv
    OBVIOUS
  <2>1. PaneOK /\ SizeOK /\ HistoryOK
    BY InitParts
  <2>2. lines = <<>> /\ yOffset = 0
    BY Zenon DEF Init
  <2>3. ViewWidth(termW) \in Nat /\ ViewHeight(rawH, frameHeight) \in Nat
    BY <2>1, ViewIsNumbers, Sizes DEF SizeOK
  <2>4. Bottom = 0
    BY <2>1, <2>2, <2>3, EmptyEnds DEF Bottom, PaneOK
  <2> QED
    BY <2>1, <2>2, <2>4 DEF TailInv, FollowsTail, AtBottom
<1>2. TailInv /\ [Next]_vars => TailInv'
  BY PaneNext, SizeNext, HistoryNext, TailNext DEF TailInv
<1>3. TailInv => FollowsTail
  BY DEF TailInv
<1> QED
  BY <1>1, <1>2, <1>3, PTL DEF Spec

-----------------------------------------------------------------------------
(* THE BADGE TELLS THE TRUTH                                               *)

Truth == [on |-> wrap, over |-> prevOverflow]

(* m is under way, once, and nothing else of M is.                         *)
Only(m, M) == msgs[m] = 1 /\ \A n \in M \ {m} : msgs[n] = 0

(* The topbar's context follows the selection: contexts are either all     *)
(* handled or the last to be handled is the selected service's.            *)
ContextFollows ==
    /\ Silent(Contexts) => topbarService = selectedName
    /\ \A s \in Services \cup {None} : Only(Context(s), Contexts) => s = selectedName

(* A context that makes the topbar show this service is followed by news   *)
(* of its pane.                                                            *)
NewsFollows == msgs[Context(Own)] > 0 => ~Silent(Statuses(Own) \cup {Report(Own)})

(* The last report under way is the truth; if there is none and none was   *)
(* asked for, the badge is.                                                *)
LastIsTrue == \A m \in Statuses(Own) : Only(m, Statuses(Own)) => m.is = Truth
BadgeIsTrue ==
    topbarService = Own /\ Silent(Statuses(Own) \cup {Report(Own)}) => badge = Truth

BadgeInv ==
    ~raced => /\ ContextFollows /\ NewsFollows
              /\ ~cleared => LastIsTrue /\ BadgeIsTrue

Watched == BadgeNews \cup {Report(Own)}

LEMMA NewsKinds ==
    /\ \A m \in Contexts : m.kind = "TopbarContext"
    /\ \A s : \A m \in Statuses(s) : m.kind = "LogWrapStatus" /\ m.svc = s
    /\ Toggle.kind = "ToggleLogWrap"
    /\ \A s : Selected(s).kind = "ServiceSelected" /\ Clear(s).kind = "ClearLogBuffer"
    /\ \A s : Report(s).kind = "ReportWrapStatus" /\ Report(s).svc = s
    /\ \A s : Context(s).kind = "TopbarContext" /\ Context(s).svc = s
<1>1. \A m \in Contexts : m.kind = "TopbarContext"
  BY DEF Contexts, Context
<1>2. \A s : \A m \in Statuses(s) : m.kind = "LogWrapStatus" /\ m.svc = s
  BY DEF Statuses, Status
<1> QED
  BY <1>1, <1>2 DEF Toggle, Selected, Clear, Report, Context

LEMMA WatchedAreMessages ==
    /\ Watched \subseteq Messages
    /\ Contexts \subseteq Watched /\ Statuses(Own) \subseteq Watched /\ Report(Own) \in Watched
    /\ \A s \in Services \cup {None} : Context(s) \in Contexts
<1>1. Report(Own) \in Messages /\ Statuses(Own) \subseteq Messages
  BY OwnService DEF Messages
<1>2. Contexts \subseteq Messages
  BY Zenon DEF Messages
<1> QED
  BY <1>1, <1>2, Zenon DEF Watched, BadgeNews, Contexts

(* Messages that are not watched come and go without notice.               *)
LEMMA SentAside ==
    ASSUME MsgsOK, NEW S, S \cap Watched = {}, Send(S)
    PROVE  \A m \in Watched : msgs'[m] = msgs[m]
BY WatchedAreMessages DEF Send, One, MsgsOK

LEMMA ReceivedAside ==
    ASSUME MsgsOK, NEW M, M \subseteq Messages, NEW r, r \notin M, NEW S, Receive(r, S)
    PROVE  \A m \in M : msgs'[m] = msgs[m] + One(S, m)
<1>1. ASSUME NEW m \in M PROVE msgs'[m] = msgs[m] + One(S, m)
  <2>1. m \in Messages /\ m # r
    OBVIOUS
  <2>2. msgs'[m] = msgs[m] - One({r}, m) + One(S, m)
    BY <2>1, Zenon DEF Receive
  <2>3. One({r}, m) = 0 /\ One(S, m) \in 0..1
    BY <2>1, OneIsNat DEF One
  <2> QED
    BY <2>1, <2>2, <2>3 DEF MsgsOK
<1> QED
  BY <1>1

(* A step that no watched message comes or goes with, and that changes     *)
(* neither truth nor what the topbar shows of this service.                *)
LEMMA Aside ==
    ASSUME BadgeInv, \A m \in Watched : msgs'[m] = msgs[m],
           UNCHANGED <<topbarService, selectedName>>, raced => raced',
           badge' = badge \/ topbarService # Own,
           cleared => cleared', (wrap' = wrap /\ prevOverflow' = prevOverflow) \/ cleared'
    PROVE  BadgeInv'
<1>1. ASSUME NEW M \in SUBSET Watched
      PROVE  /\ Silent(M)' <=> Silent(M)
             /\ \A m \in M : Only(m, M)' <=> Only(m, M)
  BY DEF Silent, Only
<1>2. Contexts \in SUBSET Watched /\ Statuses(Own) \in SUBSET Watched
      /\ Statuses(Own) \cup {Report(Own)} \in SUBSET Watched /\ Context(Own) \in Watched
      /\ \A s \in Services \cup {None} : Context(s) \in Contexts
  BY WatchedAreMessages, OwnService
<1> SUFFICES ASSUME ~raced' PROVE ContextFollows' /\ NewsFollows'
                                  /\ (~cleared' => LastIsTrue' /\ BadgeIsTrue')
  BY Zenon DEF BadgeInv
<1>3. ContextFollows /\ NewsFollows /\ (~cleared => LastIsTrue /\ BadgeIsTrue)
  BY Zenon DEF BadgeInv
<1>4. ContextFollows'
  BY <1>1, <1>2, <1>3, Zenon DEF ContextFollows
<1>5. NewsFollows'
  <2>1. msgs'[Context(Own)] = msgs[Context(Own)]
    BY <1>2, Zenon
  <2> QED
    BY <1>1, <1>2, <1>3, <2>1, Zenon DEF NewsFollows
<1>6. ASSUME ~cleared' PROVE LastIsTrue' /\ BadgeIsTrue'
  <2>0. wrap' = wrap /\ prevOverflow' = prevOverflow
    BY <1>6, Zenon
  <2>1. Truth' = Truth /\ ~cleared
    BY <1>6, <2>0, Zenon DEF Truth
  <2>2. LastIsTrue'
    BY <1>1, <1>2, <1>3, <2>1, Zenon DEF LastIsTrue
  <2>3. BadgeIsTrue'
    BY <1>1, <1>2, <1>3, <2>1, Zenon DEF BadgeIsTrue
  <2> QED
    BY <2>2, <2>3
<1> QED
  BY <1>4, <1>5, <1>6

(* A step with which the pane reports the truth.                           *)
LEMMA Reported ==
    ASSUME MsgsOK, BadgeInv, Status(Own, Truth') \in Statuses(Own),
           \A m \in BadgeNews : msgs'[m] = msgs[m] + One({Status(Own, Truth')}, m),
           UNCHANGED <<topbarService, selectedName>>, raced => raced'
    PROVE  BadgeInv'
<1> DEFINE news == Status(Own, Truth')
<1> SUFFICES ASSUME ~raced' PROVE ContextFollows' /\ NewsFollows' /\ LastIsTrue' /\ BadgeIsTrue'
  BY Zenon DEF BadgeInv
<1>1. ContextFollows
  BY Zenon DEF BadgeInv
<1>2. \A m \in Contexts : msgs'[m] = msgs[m]
  BY NewsKinds, WatchedAreMessages DEF MsgsOK, One, BadgeNews
<1>3. msgs'[news] > 0
  <2>1. news \in BadgeNews /\ news \in Messages
    BY WatchedAreMessages DEF BadgeNews
  <2>2. msgs'[news] = msgs[news] + 1
    BY <2>1 DEF One
  <2> QED
    BY <2>1, <2>2 DEF MsgsOK
<1> HIDE DEF news
<1>4. ContextFollows'
  <2>1. Silent(Contexts)' <=> Silent(Contexts)
    BY <1>2, Zenon DEF Silent
  <2>2. \A s \in Services \cup {None} : Only(Context(s), Contexts)' <=> Only(Context(s), Contexts)
    BY <1>2, WatchedAreMessages, Zenon DEF Only
  <2> QED
    BY <1>1, <2>1, <2>2, Zenon DEF ContextFollows
<1>5. ~Silent(Statuses(Own) \cup {Report(Own)})'
  BY <1>3 DEF Silent, news
<1>6. NewsFollows' /\ BadgeIsTrue'
  BY <1>5, Zenon DEF NewsFollows, BadgeIsTrue
<1>7. LastIsTrue'
  <2>1. ASSUME NEW m \in Statuses(Own), Only(m, Statuses(Own))' PROVE m = news
    BY <1>3, <2>1 DEF Only, news
  <2>2. news.is = Truth'
    BY DEF news, Status
  <2> QED
    BY <2>1, <2>2, Zenon DEF LastIsTrue
<1> QED
  BY <1>4, <1>6, <1>7

LEMMA SelectedKeeps ==
    ASSUME MsgsOK, BadgeInv, NEW s \in Services, HandleServiceSelected(s) PROVE BadgeInv'
<1> DEFINE sent == {Context(s), Report(s)}
           reset == s = Own /\ Silent(BadgeNews \cup {Report(Own)})
<1> SUFFICES ASSUME ~raced' PROVE ContextFollows' /\ NewsFollows'
                                  /\ (~cleared' => LastIsTrue' /\ BadgeIsTrue')
  BY Zenon DEF BadgeInv
<1>1. /\ Receive(Selected(s), sent) /\ selectedName' = s
      /\ reset \/ (raced' = raced /\ cleared' = cleared)
      /\ UNCHANGED <<pane, bar>>
  BY Zenon DEF HandleServiceSelected
<1>2. \A m \in Watched : msgs[m] \in Nat /\ msgs'[m] = msgs[m] + One(sent, m)
  <2>1. Selected(s) \notin Watched
    BY NewsKinds DEF Watched, BadgeNews
  <2> QED
    BY <1>1, <2>1, ReceivedAside, WatchedAreMessages DEF MsgsOK
<1>3. Context(s) \in Contexts /\ Context(Own) \in Contexts /\ msgs'[Context(s)] > 0
  <2>1. Context(s) \in Contexts /\ Context(Own) \in Contexts
    BY WatchedAreMessages, OwnService
  <2>2. Context(s) \in Watched /\ One(sent, Context(s)) = 1
    BY <2>1, WatchedAreMessages DEF One
  <2> QED
    BY <1>2, <2>1, <2>2
<1>4. \A m \in Statuses(Own) : msgs'[m] = msgs[m]
  <2>1. \A m \in Statuses(Own) : m \in Watched /\ One(sent, m) = 0
    BY NewsKinds, WatchedAreMessages DEF One
  <2> QED
    BY <1>2, <2>1
<1>5. ContextFollows'
  <2>1. ASSUME NEW t \in Services \cup {None}, Only(Context(t), Contexts)' PROVE t = s
    <3>1. Context(s) = Context(t)
      BY <1>3, <2>1 DEF Only
    <3> QED
      BY <3>1 DEF Context
  <2>2. ~Silent(Contexts)'
    BY <1>3 DEF Silent
  <2> QED
    BY <1>1, <2>1, <2>2, Zenon DEF ContextFollows
<1>6. s = Own => ~Silent(Statuses(Own) \cup {Report(Own)})'
  <2>1. s = Own => msgs'[Report(Own)] > 0
    BY <1>2, WatchedAreMessages DEF One
  <2> QED
    BY <2>1 DEF Silent
<1>7. ASSUME s # Own
      PROVE  /\ ContextFollows /\ NewsFollows /\ (~cleared => LastIsTrue /\ BadgeIsTrue)
             /\ cleared' = cleared
             /\ msgs'[Context(Own)] = msgs[Context(Own)] /\ msgs'[Report(Own)] = msgs[Report(Own)]
  <2>0. raced' = raced /\ cleared' = cleared
    BY <1>1, <1>7, Zenon
  <2>1. ~raced /\ cleared' = cleared
    BY <2>0, Zenon
  <2>2. One(sent, Context(Own)) = 0 /\ One(sent, Report(Own)) = 0
    BY <1>7 DEF One, Context, Report
  <2>3. Context(Own) \in Watched /\ Report(Own) \in Watched
    BY <1>3, WatchedAreMessages
  <2> QED
    BY <1>2, <2>1, <2>2, <2>3 DEF BadgeInv
<1>8. s # Own => (Silent(Statuses(Own) \cup {Report(Own)})' <=> Silent(Statuses(Own) \cup {Report(Own)}))
  BY <1>4, <1>7, Zenon DEF Silent
<1>9. NewsFollows'
  BY <1>6, <1>7, <1>8, Zenon DEF NewsFollows
<1>10. UNCHANGED <<topbarService, badge, wrap, prevOverflow>>
  BY <1>1 DEF pane, bar
<1>11. ASSUME ~cleared' PROVE LastIsTrue' /\ BadgeIsTrue'
  <2>1. CASE reset
    <3>1. \A m \in Statuses(Own) : ~(msgs'[m] = 1)
      BY <1>4, <2>1 DEF Silent, BadgeNews
    <3> QED
      BY <1>6, <2>1, <3>1, Zenon DEF LastIsTrue, BadgeIsTrue, Only
  <2>2. CASE ~reset
    <3>0. raced' = raced /\ cleared' = cleared
      BY <1>1, <2>2, Zenon
    <3>1. (~cleared => LastIsTrue /\ BadgeIsTrue) /\ ~cleared
      BY <1>11, <3>0, Zenon DEF BadgeInv
    <3>2. \A m \in Statuses(Own) : Only(m, Statuses(Own))' <=> Only(m, Statuses(Own))
      BY <1>4, Zenon DEF Only
    <3>3. Truth' = Truth /\ topbarService' = topbarService /\ badge' = badge
      BY <1>10 DEF Truth
    <3>4. LastIsTrue'
      BY <3>1, <3>2, <3>3, Zenon DEF LastIsTrue
    <3>5. BadgeIsTrue'
      BY <1>6, <1>8, <3>1, <3>3, Zenon DEF BadgeIsTrue
    <3> QED
      BY <3>4, <3>5
  <2> QED
    BY <2>1, <2>2
<1> QED
  BY <1>5, <1>9, <1>11

(* Nothing of M but r is under way, once, if r overtakes nothing of M.     *)
LEMMA Alone ==
    ASSUME MsgsOK, NEW M, M \subseteq Messages, NEW r \in M, msgs[r] > 0, ~Overtakes(r, M)
    PROVE  Only(r, M)
<1>1. ASSUME NEW m \in M PROVE msgs[m] \in Nat /\ ~(msgs[m] > One({r}, m))
  BY <1>1 DEF Overtakes, MsgsOK
<1>2. msgs[r] = 1
  BY <1>1 DEF One
<1>3. ASSUME NEW m \in M \ {r} PROVE msgs[m] = 0
  BY <1>1, <1>3 DEF One
<1> QED
  BY <1>2, <1>3 DEF Only

LEMMA Taken ==
    ASSUME MsgsOK, NEW r \in Messages, Receive(r, {})
    PROVE  \A m \in Messages : msgs'[m] = IF m = r THEN msgs[m] - 1 ELSE msgs[m]
<1>1. ASSUME NEW m \in Messages PROVE msgs'[m] = IF m = r THEN msgs[m] - 1 ELSE msgs[m]
  <2>1. msgs'[m] = msgs[m] - One({r}, m) + One({}, m) /\ msgs[m] \in Nat
    BY DEF Receive, MsgsOK
  <2>2. One({}, m) = 0 /\ One({r}, m) = IF m = r THEN 1 ELSE 0
    BY DEF One
  <2> QED
    BY <2>1, <2>2
<1> QED
  BY <1>1

LEMMA ContextKeeps ==
    ASSUME MsgsOK, BadgeInv, NEW s \in Services \cup {None}, HandleTopbarContext(s)
    PROVE  BadgeInv'
<1> SUFFICES ASSUME ~raced' PROVE ContextFollows' /\ NewsFollows'
                                  /\ (~cleared' => LastIsTrue' /\ BadgeIsTrue')
  BY Zenon DEF BadgeInv
<1>1. /\ Receive(Context(s), {}) /\ topbarService' = s
      /\ badge' = IF s = topbarService THEN badge ELSE Off
      /\ raced' = (raced \/ Overtakes(Context(s), Contexts))
      /\ UNCHANGED <<pane, selection, cleared>>
  BY Zenon DEF HandleTopbarContext
<1>2. ~raced /\ ~Overtakes(Context(s), Contexts)
  BY <1>1, Zenon
<1>3. ContextFollows /\ NewsFollows /\ (~cleared => LastIsTrue /\ BadgeIsTrue)
  BY <1>2, Zenon DEF BadgeInv
<1>4. Context(s) \in Contexts /\ Context(s) \in Messages /\ Contexts \subseteq Messages
  BY WatchedAreMessages
<1>5. msgs[Context(s)] > 0 /\ Only(Context(s), Contexts)
  <2>1. msgs[Context(s)] > 0
    BY <1>1, Zenon DEF Receive
  <2> QED
    BY <1>2, <1>4, <2>1, Alone
<1>6. s = selectedName
  BY <1>3, <1>5, Zenon DEF ContextFollows
<1>7. \A m \in Messages : msgs'[m] = IF m = Context(s) THEN msgs[m] - 1 ELSE msgs[m]
  BY <1>1, <1>4, Taken
<1>8. \A m \in Contexts : msgs'[m] = 0
  BY <1>4, <1>5, <1>7 DEF Only
<1>9. \A m \in Statuses(Own) \cup {Report(Own)} : msgs'[m] = msgs[m]
  <2>1. \A m \in Statuses(Own) \cup {Report(Own)} : m \in Messages /\ m # Context(s)
    BY NewsKinds, WatchedAreMessages
  <2> QED
    BY <1>7, <2>1, Zenon
<1>10. UNCHANGED <<wrap, prevOverflow, selectedName>>
  BY <1>1 DEF pane, selection
<1>11. ContextFollows'
  <2>1. \A t \in Services \cup {None} : ~Only(Context(t), Contexts)'
    BY <1>8, WatchedAreMessages DEF Only
  <2>2. topbarService' = selectedName'
    BY <1>1, <1>6, <1>10
  <2> QED
    BY <2>1, <2>2, Zenon DEF ContextFollows
<1>12. NewsFollows'
  BY <1>8, WatchedAreMessages, OwnService DEF NewsFollows
<1>13. ASSUME ~cleared' PROVE LastIsTrue' /\ BadgeIsTrue'
  <2>1. LastIsTrue /\ BadgeIsTrue /\ Truth' = Truth
    BY <1>1, <1>3, <1>10, <1>13 DEF Truth
  <2>2. \A m \in Statuses(Own) : Only(m, Statuses(Own))' <=> Only(m, Statuses(Own))
    BY <1>9, Zenon DEF Only
  <2>3. Silent(Statuses(Own) \cup {Report(Own)})' <=> Silent(Statuses(Own) \cup {Report(Own)})
    BY <1>9, Zenon DEF Silent
  <2>4. LastIsTrue'
    BY <2>1, <2>2, Zenon DEF LastIsTrue
  <2>5. CASE s = topbarService
    BY <1>1, <2>1, <2>3, <2>4, <2>5, Zenon DEF BadgeIsTrue
  <2>6. CASE s # topbarService
    <3>1. s = Own => ~Silent(Statuses(Own) \cup {Report(Own)})
      BY <1>3, <1>5, Zenon DEF NewsFollows
    <3> QED
      BY <1>1, <2>3, <2>4, <3>1, Zenon DEF BadgeIsTrue
  <2> QED
    BY <2>4, <2>5, <2>6
<1> QED
  BY <1>11, <1>12, <1>13

LEMMA StatusKeeps ==
    ASSUME MsgsOK, BadgeInv, NEW s \in Services, NEW m \in Statuses(s), HandleLogWrapStatus(m)
    PROVE  BadgeInv'
<1>1. /\ Receive(m, {}) /\ topbarService' = topbarService
      /\ badge' \in IF m.svc # topbarService THEN {badge}
                    ELSE IF m.svc = Own THEN {m.is} ELSE Badges
      /\ raced' = (raced \/ (m.svc = Own /\ Overtakes(m, BadgeNews)))
      /\ UNCHANGED <<pane, selection, cleared>>
  BY Zenon DEF HandleLogWrapStatus
<1>2. m.svc = s /\ m.kind = "LogWrapStatus"
  BY NewsKinds
<1>3. UNCHANGED <<wrap, prevOverflow, selectedName, cleared>>
  BY <1>1 DEF pane, selection
<1>4. CASE s # Own
  <2>1. m \notin Watched
    BY <1>2, <1>4, NewsKinds DEF Watched, BadgeNews
  <2>2. \A n \in Watched : msgs'[n] = msgs[n]
    <3>1. \A n \in Watched : msgs'[n] = msgs[n] + One({}, n)
      BY <1>1, <2>1, ReceivedAside, WatchedAreMessages
    <3> QED
      BY <3>1, WatchedAreMessages DEF One, MsgsOK
  <2>3. raced => raced'
    BY <1>1, Zenon
  <2>4. badge' = badge \/ topbarService # Own
    BY <1>1, <1>2, <1>4, Zenon
  <2> QED
    BY <1>1, <1>3, <2>2, <2>3, <2>4, Aside
<1>5. CASE s = Own
  <2> SUFFICES ASSUME ~raced' PROVE ContextFollows' /\ NewsFollows'
                                    /\ (~cleared' => LastIsTrue' /\ BadgeIsTrue')
    BY Zenon DEF BadgeInv
  <2>1. ~raced /\ ~Overtakes(m, BadgeNews)
    BY <1>1, <1>2, <1>5, Zenon
  <2>2. ContextFollows /\ (~cleared => LastIsTrue /\ BadgeIsTrue)
    BY <2>1, Zenon DEF BadgeInv
  <2>3. /\ m \in BadgeNews /\ BadgeNews \subseteq Messages
        /\ Contexts \subseteq BadgeNews /\ Statuses(Own) \subseteq BadgeNews
    BY <1>5, WatchedAreMessages DEF BadgeNews, Watched
  <2>4. Only(m, BadgeNews)
    <3>1. msgs[m] > 0
      BY <1>1, Zenon DEF Receive
    <3> QED
      BY <2>1, <2>3, <3>1, Alone
  <2>5. \A n \in BadgeNews : msgs'[n] = 0
    BY <1>1, <2>3, <2>4, Taken DEF Only
  <2>6. Silent(Contexts)
    BY <2>3, <2>4, <1>2, NewsKinds DEF Silent, Only
  <2>7. ContextFollows'
    <3>1. \A t \in Services \cup {None} : ~Only(Context(t), Contexts)'
      BY <2>3, <2>5, WatchedAreMessages DEF Only
    <3>2. topbarService' = selectedName'
      BY <1>1, <1>3, <2>2, <2>6 DEF ContextFollows
    <3> QED
      BY <3>1, <3>2, Zenon DEF ContextFollows
  <2>8. NewsFollows'
    BY <2>3, <2>5, WatchedAreMessages, OwnService DEF NewsFollows
  <2>9. ASSUME ~cleared' PROVE LastIsTrue' /\ BadgeIsTrue'
    <3>1. LastIsTrue /\ Truth' = Truth
      BY <1>3, <2>2, <2>9 DEF Truth
    <3>2. Only(m, Statuses(Own))
      BY <2>3, <2>4, Zenon DEF Only
    <3>3. m.is = Truth'
      BY <1>5, <3>1, <3>2, Zenon DEF LastIsTrue
    <3>4. LastIsTrue'
      BY <2>3, <2>5 DEF LastIsTrue, Only
    <3>5. BadgeIsTrue'
      BY <1>1, <1>2, <1>5, <3>3, Zenon DEF BadgeIsTrue
    <3> QED
      BY <3>4, <3>5
  <2> QED
    BY <2>7, <2>8, <2>9
<1> QED
  BY <1>4, <1>5

(* While lines are wrapped none is cut off.                                *)
LEMMA TruthTold ==
    ASSUME NEW wr \in BOOLEAN, NEW ls, NEW w
    PROVE  Status(Own, [on |-> wr, over |-> HasOverflow(ls, wr, w)]) \in Statuses(Own)
<1> DEFINE over == HasOverflow(ls, wr, w)
<1>1. over \in BOOLEAN /\ (wr = TRUE => over = FALSE)
  BY WrappedFits, Flags, Zenon
<1> HIDE DEF over
<1>2. [on |-> wr, over |-> over] \in Badges
  BY <1>1 DEF Badges, Off
<1> QED
  BY <1>2 DEF Statuses, over

(* The reports of a change are of this pane, and true.                     *)
LEMMA ChangesKeep ==
    ASSUME MsgsOK, PaneOK, BadgeInv, Send(ChangeOf(prevOverflow')), prevOverflow' \in BOOLEAN,
           OverflowKnown', UNCHANGED <<wrap, topbarService, badge, selectedName, raced, cleared>>
    PROVE  BadgeInv'
<1>1. CASE prevOverflow' = prevOverflow
  <2>1. ChangeOf(prevOverflow') \cap Watched = {}
    BY <1>1 DEF ChangeOf
  <2> QED
    BY <1>1, <2>1, SentAside, Aside
<1>2. CASE prevOverflow' # prevOverflow
  <2>1. ChangeOf(prevOverflow') = {Status(Own, Truth')}
    BY <1>2 DEF ChangeOf, Truth
  <2>2. \A m \in BadgeNews : msgs'[m] = msgs[m] + One({Status(Own, Truth')}, m)
    BY <2>1, WatchedAreMessages DEF Send, Watched
  <2>3. Status(Own, Truth') \in Statuses(Own)
    <3>1. wrap' \in BOOLEAN /\ prevOverflow' = HasOverflow(lines', wrap', ViewWidth(termW'))
      BY DEF PaneOK, OverflowKnown
    <3>2. Truth' = [on |-> wrap', over |-> HasOverflow(lines', wrap', ViewWidth(termW'))]
      BY <3>1, Zenon DEF Truth
    <3> QED
      BY <3>1, <3>2, TruthTold
  <2> QED
    BY <2>2, <2>3, Reported
<1> QED
  BY <1>1, <1>2

LEMMA BadgeNext ==
    ASSUME MsgsOK, PaneOK, BadgeInv, OverflowKnown, [Next]_vars PROVE BadgeInv'
<1> OverflowKnown' /\ prevOverflow' \in BOOLEAN /\ wrap' \in BOOLEAN
  BY FlagNext, PaneNext DEF PaneOK
<1> Watched \subseteq Messages /\ BadgeNews \subseteq Watched
  BY WatchedAreMessages DEF Watched
<1>1. CASE LineStep \/ ResizeStep
  <2>1. /\ Send(ChangeOf(prevOverflow'))
        /\ UNCHANGED <<wrap, bar, selection, history>>
    BY <1>1, Zenon DEF LineStep, HandleLogLinesAvailable, ResizeStep, OnWindowResize
  <2>2. UNCHANGED <<topbarService, badge, selectedName, raced, cleared>>
    BY <2>1 DEF bar, selection, history
  <2> QED
    BY <2>1, <2>2, ChangesKeep
<1>2. CASE HandleToggleLogWrap
  <2> DEFINE others == {Status(s, Off) : s \in Services \ {Own}}
             own == {Status(Own, Truth')}
  <2>1. /\ Receive(Toggle, own \cup others)
        /\ UNCHANGED <<bar, selection, history>>
    BY <1>2, Zenon DEF HandleToggleLogWrap, Truth
  <2>2. \A m \in BadgeNews : m \notin others
    BY NewsKinds DEF BadgeNews, Status
  <2>3. Toggle \notin BadgeNews
    BY NewsKinds DEF BadgeNews
  <2>4. \A m \in BadgeNews : msgs'[m] = msgs[m] + One(own, m)
    <3>1. \A m \in BadgeNews : msgs'[m] = msgs[m] + One(own \cup others, m)
      BY <2>1, <2>3, ReceivedAside
    <3> HIDE DEF own, others
    <3> QED
      BY <2>2, <3>1 DEF One
  <2>5. Status(Own, Truth') \in Statuses(Own)
    <3>1. Truth' = [on |-> wrap', over |-> HasOverflow(lines', wrap', ViewWidth(termW'))]
      BY Zenon DEF Truth, OverflowKnown
    <3> QED
      BY <3>1, TruthTold
  <2>6. UNCHANGED <<topbarService, selectedName>> /\ (raced => raced')
    BY <2>1 DEF bar, selection, history
  <2> QED
    BY <2>4, <2>5, <2>6, Reported
<1>3. CASE ReportStep
  <2>1. PICK s \in Services : HandleReportWrapStatus(s)
    BY <1>3 DEF ReportStep
  <2>2. UNCHANGED <<topbarService, badge, selectedName, raced, cleared, wrap>>
    BY <2>1 DEF HandleReportWrapStatus, bar, selection, history
  <2>3. CASE s = Own
    <3>1. Receive(Report(Own), {Status(Own, [on |-> wrap, over |-> ~wrap /\ prevOverflow'])})
      BY <2>1, <2>3, Zenon DEF HandleReportWrapStatus
    <3>2. (~wrap /\ prevOverflow') = prevOverflow'
      <4>1. wrap' = TRUE => prevOverflow' = FALSE
        BY WrappedFits, Zenon DEF OverflowKnown
      <4> QED
        BY <2>2, <4>1
    <3>3. Receive(Report(Own), {Status(Own, Truth')})
      BY <2>2, <3>1, <3>2, Zenon DEF Truth
    <3>4. Report(Own) \notin BadgeNews
      BY NewsKinds DEF BadgeNews
    <3>5. \A m \in BadgeNews : msgs'[m] = msgs[m] + One({Status(Own, Truth')}, m)
      BY <3>3, <3>4, ReceivedAside
    <3>6. Status(Own, Truth') \in Statuses(Own)
      <4>1. Truth' = [on |-> wrap', over |-> HasOverflow(lines', wrap', ViewWidth(termW'))]
        BY Zenon DEF Truth, OverflowKnown
      <4> QED
        BY <4>1, TruthTold
    <3> QED
      BY <2>2, <3>5, <3>6, Reported
  <2>4. CASE s # Own
    <3>1. Receive(Report(s), {Status(s, Off)}) /\ prevOverflow' = prevOverflow
      BY <2>1, <2>4, Zenon DEF HandleReportWrapStatus
    <3>2. Report(s) \notin Watched /\ Status(s, Off) \notin Watched
      BY <2>4, NewsKinds DEF Watched, BadgeNews, Status
    <3>3. \A m \in Watched : msgs'[m] = msgs[m] + One({Status(s, Off)}, m)
      BY <3>1, <3>2, ReceivedAside
    <3>4. \A m \in Watched : msgs'[m] = msgs[m]
      BY <3>2, <3>3 DEF One, MsgsOK
    <3> QED
      BY <2>2, <3>1, <3>4, Aside
  <2> QED
    BY <2>3, <2>4
<1>4. CASE ClearStep
  <2>1. PICK s \in Services : HandleClearLogBuffer(s)
    BY <1>4 DEF ClearStep
  <2>2. Receive(Clear(s), {}) /\ UNCHANGED <<wrap, bar, selection, raced>>
    BY <2>1, Zenon DEF HandleClearLogBuffer
  <2>3. UNCHANGED <<topbarService, badge, selectedName, raced, wrap>>
    BY <2>2 DEF bar, selection
  <2>4. Clear(s) \notin Watched
    BY NewsKinds DEF Watched, BadgeNews
  <2>5. \A m \in Watched : msgs'[m] = msgs[m] + One({}, m)
    BY <2>2, <2>4, ReceivedAside
  <2>6. \A m \in Watched : msgs'[m] = msgs[m]
    BY <2>5 DEF One, MsgsOK
  <2>7. (cleared => cleared') /\ (prevOverflow' = prevOverflow \/ cleared')
    BY <2>1, Zenon DEF HandleClearLogBuffer, PaneOK
  <2> QED
    BY <2>3, <2>6, <2>7, Aside
<1>5. CASE KeyStep
  <2>1. PICK S : /\ Send(S) /\ S \cap Watched = {}
                 /\ UNCHANGED <<pane, bar, selection, history>>
    <3>1. ASSUME NEW s PROVE {Toggle} \cap Watched = {} /\ {Clear(s)} \cap Watched = {}
                             /\ {Selected(s)} \cap Watched = {}
      BY NewsKinds DEF Watched, BadgeNews
    <3> QED
      BY <1>5, <3>1, Zenon DEF KeyStep, PressWrap, PressClear, Select
  <2>2. UNCHANGED <<topbarService, badge, selectedName, raced, cleared, wrap, prevOverflow>>
    BY <2>1 DEF pane, bar, selection, history
  <2> QED
    BY <2>1, <2>2, SentAside, Aside
<1>6. CASE FrameStep \/ ScrollStep
  <2>1. UNCHANGED <<wrap, prevOverflow, bar, selection, msgs, raced, cleared>>
    BY <1>6, Zenon DEF FrameStep, HandleFrameHeight, ScrollStep, Scroll, pane
  <2>2. UNCHANGED <<topbarService, badge, selectedName>>
    BY <2>1 DEF bar, selection
  <2> QED
    BY <2>1, <2>2, Aside
<1>7. CASE SelectedStep
  BY <1>7, SelectedKeeps DEF SelectedStep
<1>8. CASE StatusStep
  BY <1>8, StatusKeeps DEF StatusStep
<1>9. CASE ContextStep
  BY <1>9, ContextKeeps DEF ContextStep
<1>10. CASE UNCHANGED vars
  <2>1. UNCHANGED <<wrap, prevOverflow, topbarService, badge, selectedName, msgs, raced, cleared>>
    BY <1>10 DEF vars, pane, bar, selection, history
  <2> QED
    BY <2>1, Aside
<1> QED
  BY <1>1, <1>2, <1>3, <1>4, <1>5, <1>6, <1>7, <1>8, <1>9, <1>10, Steps

(* The badge tells the truth about the selected service once its news has  *)
(* been handled, unless two were handled in the wrong order or the buffer  *)
(* was cleared, whatever was selected, wrapped and resized in between      *)
(* (topbar.go:96-154, dashboard.go:403-422).                               *)
THEOREM BadgeHonest == Spec => []BadgeTrue
<1> DEFINE Inv == MsgsOK /\ PaneOK /\ OverflowKnown /\ BadgeInv
<1>1. Init => Inv
  <2> SUFFICES ASSUME Init PROVE Inv
    OBVIOUS
  <2>1. raced = TRUE /\ lines = <<>> /\ prevOverflow = FALSE
    BY Zenon DEF Init
  <2> QED
    BY <2>1, InitParts, EmptyFits, Zenon DEF BadgeInv, OverflowKnown
<1>2. Inv /\ [Next]_vars => Inv'
  BY MsgsNext, PaneNext, FlagNext, BadgeNext
<1>3. Inv => BadgeTrue
  <2> SUFFICES ASSUME Inv, Silent(BadgeNews \cup {Report(Own)}), selectedName = Own,
                      ~raced, ~cleared
               PROVE  topbarService = Own /\ badge = Truth
    BY Zenon DEF BadgeTrue, Truth
  <2>1. ContextFollows /\ BadgeIsTrue
    BY Zenon DEF BadgeInv
  <2>2. Silent(Contexts) /\ Silent(Statuses(Own) \cup {Report(Own)})
    BY Zenon DEF Silent, BadgeNews
  <2> QED
    BY <2>1, <2>2, Zenon DEF ContextFollows, BadgeIsTrue
<1> QED
  BY <1>1, <1>2, <1>3, PTL DEF Spec

-----------------------------------------------------------------------------
(***************************************************************************)
(* THE HOSTS OF THE STREAMS                                                *)
(*                                                                         *)
(* The service hosts of LogHosts.  A host knows of its stream by a flag,   *)
(* streamerStarted, which it sets and clears beside the calls that open    *)
(* and close the stream: were the two ever to disagree, a poll or a tick   *)
(* would open a second stream or leave one open for good.                  *)
(***************************************************************************)

(* A host's flag is set as long as its stream is not closed, ended, failed *)
(* and silent streams included.                                            *)
FlagsMatch == \A s \in Hosts : started[s] <=> stream[s] # "closed"

HostsInv == HostsTypeOK /\ FlagsMatch

LEMMA StreamsSet ==
    ASSUME HostsInv, NEW C, NEW S, SetStreams(C, S)
    PROVE  /\ started' \in [Hosts -> BOOLEAN]
           /\ stream' \in [Hosts -> StreamStates]
           /\ FlagsMatch'
<1>1. ASSUME NEW s \in Hosts
      PROVE  /\ started'[s] = (s \in S \/ (started[s] /\ s \notin C))
             /\ stream'[s] = IF s \in S THEN "connect"
                             ELSE IF s \in C THEN "closed" ELSE stream[s]
  BY Zenon DEF SetStreams
<1>2. ASSUME NEW s \in Hosts
      PROVE  started'[s] <=> stream'[s] # "closed"
  <2>1. started[s] <=> stream[s] # "closed"
    BY DEF HostsInv, FlagsMatch
  <2>2. CASE s \in S
    BY <1>1, <2>2
  <2>3. CASE s \notin S /\ s \in C
    <3>1. stream'[s] = "closed" /\ ~started'[s]
      BY <1>1, <2>3, Zenon
    <3> QED
      BY <3>1
  <2>4. CASE s \notin S /\ s \notin C
    <3>1. stream'[s] = stream[s] /\ (started'[s] <=> started[s])
      BY <1>1, <2>4, Zenon
    <3> QED
      BY <2>1, <3>1, Zenon
  <2> QED
    BY <2>2, <2>3, <2>4
<1>3. started' \in [Hosts -> BOOLEAN]
  BY Zenon DEF SetStreams
<1>4. stream' \in [Hosts -> StreamStates]
  BY DEF SetStreams, HostsInv, HostsTypeOK, StreamStates
<1> QED
  BY <1>2, <1>3, <1>4, Zenon DEF FlagsMatch

(* A reader moves the stream it reads to a state that is not "closed",     *)
(* from one that is not.                                                   *)
LEMMA ReaderMoves ==
    ASSUME HostsInv, NEW s \in Hosts, stream[s] # "closed",
           NEW to \in StreamStates \ {"closed"},
           stream' = [stream EXCEPT ![s] = to], UNCHANGED started
    PROVE  /\ stream' \in [Hosts -> StreamStates]
           /\ FlagsMatch'
<1>1. stream \in [Hosts -> StreamStates]
  BY DEF HostsInv, HostsTypeOK
<1>2. stream' \in [Hosts -> StreamStates]
  BY <1>1
<1>3. ASSUME NEW t \in Hosts PROVE (stream'[t] # "closed") <=> (stream[t] # "closed")
  BY <1>1
<1>4. ASSUME NEW t \in Hosts PROVE started'[t] <=> stream'[t] # "closed"
  BY <1>3, Zenon DEF HostsInv, FlagsMatch
<1> QED
  BY <1>2, <1>4, Zenon DEF FlagsMatch

(* The parts of the invariant that no stream is in.                        *)
Around ==
    /\ cont \in [Hosts -> ContStates]
    /\ changes \in 0..MaxChanges /\ errors \in 0..MaxErrors
    /\ poll \in [Hosts -> ContStates] \cup {NoPoll}
    /\ failed \in [Hosts \X Kinds -> Nat]
    /\ ticks \in Nat

StreamsInv ==
    /\ started \in [Hosts -> BOOLEAN]
    /\ stream \in [Hosts -> StreamStates]
    /\ FlagsMatch

LEMMA InTwo == HostsInv <=> Around /\ StreamsInv
BY Zenon DEF HostsInv, HostsTypeOK, Around, StreamsInv

LEMMA InitHosts ==
    ASSUME HostsInit
    PROVE  Around /\ StreamsInv
<1>1. started = [s \in Hosts |-> FALSE]
  BY Zenon DEF HostsInit
<1>2. stream = [s \in Hosts |-> "closed"]
  BY DEF HostsInit
<1>3. started \in [Hosts -> BOOLEAN]
  BY <1>1, Zenon
<1>4. stream \in [Hosts -> StreamStates]
  BY <1>2 DEF StreamStates
<1>5. \A s \in Hosts : ~started[s]
  BY <1>1, Zenon
<1>6. \A s \in Hosts : stream[s] = "closed"
  BY <1>2
<1>7. Around
  BY Bounds DEF HostsInit, Around, ContStates
<1> QED
  BY <1>3, <1>4, <1>5, <1>6, <1>7, Zenon DEF StreamsInv, FlagsMatch

(* Every failure and every tick on its way stays counted.                  *)
LEMMA FailureCounted ==
    ASSUME failed \in [Hosts \X Kinds -> Nat],
           NEW s \in Hosts, NEW k \in Kinds
    PROVE  /\ [failed EXCEPT ![<<s, k>>] = @ + 1] \in [Hosts \X Kinds -> Nat]
           /\ failed[<<s, k>>] > 0 =>
                 [failed EXCEPT ![<<s, k>>] = @ - 1] \in [Hosts \X Kinds -> Nat]
<1>1. failed[<<s, k>>] \in Nat
  OBVIOUS
<1> QED
  BY <1>1

(* What containers and readers do.                                         *)
LEMMA WorldSteps ==
    ASSUME Around, StreamsInv, NEW s \in Hosts,
           \/ Up(s) \/ Stop(s) \/ Down(s)
           \/ Connect(s) \/ EndOfStream(s)
           \/ ConnectionFails(s) \/ Deliver(s)
    PROVE  Around' /\ StreamsInv'
<1> USE Bounds
<1>a. HostsInv
  BY InTwo
<1>b. stream \in [Hosts -> StreamStates]
  BY DEF StreamsInv
<1>1. ASSUME UNCHANGED <<started, stream>> PROVE StreamsInv'
  BY <1>1, Zenon DEF StreamsInv, FlagsMatch
<1>2. ASSUME NEW to \in StreamStates \ {"closed"}, stream[s] # "closed",
             stream' = [stream EXCEPT ![s] = to], UNCHANGED started
      PROVE  StreamsInv'
  <2>1. started' \in [Hosts -> BOOLEAN]
    BY <1>2, Zenon DEF StreamsInv
  <2> QED
    BY <1>2, <2>1, <1>a, ReaderMoves, Zenon DEF StreamsInv
<1>3. ASSUME NEW from, NEW to \in ContStates, Change(s, from, to)
      PROVE  Around'
  BY <1>3 DEF Change, Around, NoPoll
<1>4. ASSUME NEW from, NEW to, Reach(s, from, to),
             errors' \in 0..MaxErrors
      PROVE  Around'
  BY <1>4 DEF Reach, docker, Around, NoPoll
<1>5. CASE Up(s) \/ Down(s)
  <2>1. UNCHANGED <<started, stream>>
    BY <1>5 DEF Up, Down, Change
  <2>2. Around'
    BY <1>5, <1>3 DEF Up, Down, ContStates
  <2> QED
    BY <2>1, <2>2, <1>1
<1>6. CASE Stop(s)
  <2>1. Around' /\ UNCHANGED started
    BY <1>6, <1>3 DEF Stop, ContStates, Change
  <2>2. CASE stream[s] = "tail"
    <3>1. stream' = [stream EXCEPT ![s] = "eof"]
      BY <1>6, <2>2 DEF Stop
    <3> QED
      BY <2>1, <2>2, <3>1, <1>2 DEF StreamStates
  <2>3. CASE stream[s] # "tail"
    <3>1. stream' = [stream EXCEPT ![s] = stream[s]]
      BY <1>6, <2>3 DEF Stop
    <3>2. stream' = stream
      BY <3>1, <1>b
    <3> QED
      BY <2>1, <3>2, <1>1
  <2> QED
    BY <2>2, <2>3
<1>7. ASSUME NEW from, "closed" \notin from, NEW to \in StreamStates \ {"closed"},
             Reach(s, from, to)
      PROVE  StreamsInv'
  <2>1. /\ stream[s] # "closed" /\ stream' = [stream EXCEPT ![s] = to]
        /\ UNCHANGED started
    BY <1>7 DEF Reach
  <2> QED
    BY <2>1, <1>2
<1>8. CASE Connect(s)
  <2>1. PICK to \in {"LogStreamContainerNotFound", "eof", "tail"} :
            Reach(s, {"connect"}, to)
    BY <1>8 DEF Connect
  <2>2. errors' \in 0..MaxErrors
    BY <1>8 DEF Connect, Around
  <2>3. to \in StreamStates \ {"closed"} /\ "closed" \notin {"connect"}
    BY DEF StreamStates, Kinds
  <2>4. Around'
    BY <2>1, <2>2, <1>4
  <2> QED
    BY <2>1, <2>3, <2>4, <1>7, Zenon
<1>9. CASE EndOfStream(s)
  <2>1. Reach(s, {"eof"}, "exited") /\ errors' \in 0..MaxErrors
    BY <1>9 DEF EndOfStream, Around
  <2>2. "exited" \in StreamStates \ {"closed"} /\ "closed" \notin {"eof"}
    BY DEF StreamStates
  <2>3. Around'
    BY <2>1, <1>4
  <2> QED
    BY <2>1, <2>2, <2>3, <1>7, Zenon
<1>10. CASE ConnectionFails(s)
  <2>1. /\ Reach(s, {"connect", "tail", "eof"}, "LogStreamError")
        /\ errors' \in 0..MaxErrors
    BY <1>10 DEF ConnectionFails, Around
  <2> QED
    BY <2>1, <1>4, <1>7 DEF StreamStates, Kinds
<1>11. CASE Deliver(s)
  <2>1. /\ stream[s] \in Kinds
        /\ failed' = [failed EXCEPT ![<<s, stream[s]>>] = @ + 1]
        /\ stream' = [stream EXCEPT ![s] = "exited"]
        /\ UNCHANGED <<cont, changes, errors, poll, started, ticks>>
    BY <1>11 DEF Deliver, docker
  <2>2. failed' \in [Hosts \X Kinds -> Nat]
    BY <2>1, FailureCounted DEF Around
  <2>3. Around'
    BY <2>1, <2>2 DEF Around, NoPoll
  <2> QED
    BY <2>1, <2>3, <1>2 DEF StreamStates, Kinds
<1> QED
  BY <1>5, <1>6, <1>8, <1>9, <1>10, <1>11


(* What the panel and its hosts do.                                        *)
LEMMA PanelSteps ==
    ASSUME Around, StreamsInv,
           \/ Ps \/ HandleServicesPolled \/ HandleRetryTick
           \/ \E s \in Hosts : HandleContainerNotFound(s) \/ HandleStreamError(s)
    PROVE  Around' /\ StreamsInv'
<1>a. HostsInv
  BY InTwo
<1>1. ASSUME NEW C, NEW S, SetStreams(C, S) PROVE StreamsInv'
  BY <1>1, <1>a, StreamsSet, Zenon DEF StreamsInv
<1>2. ASSUME NEW s \in Hosts, NEW k \in Kinds, Take(s, k), ticks' \in Nat
      PROVE  Around'
  <2>1. /\ failed[<<s, k>>] > 0
        /\ failed' = [failed EXCEPT ![<<s, k>>] = @ - 1]
        /\ UNCHANGED <<cont, changes, errors, poll>>
    BY <1>2 DEF Take, docker
  <2>2. failed' \in [Hosts \X Kinds -> Nat]
    BY <2>1, FailureCounted DEF Around
  <2> QED
    BY <1>2, <2>1, <2>2 DEF Around, NoPoll
<1>3. CASE Ps
  <2>1. poll' = cont /\ UNCHANGED <<cont, changes, errors, started, stream, failed, ticks>>
    BY <1>3 DEF Ps, docker, streams
  <2>2. Around'
    BY <2>1 DEF Around
  <2>3. StreamsInv'
    BY <2>1, Zenon DEF StreamsInv, FlagsMatch
  <2> QED
    BY <2>2, <2>3
<1>4. CASE HandleServicesPolled
  <2>1. \E C, S : SetStreams(C, S)
    BY <1>4, Zenon DEF HandleServicesPolled
  <2>2. poll' = NoPoll /\ UNCHANGED <<cont, changes, errors, failed, ticks>>
    BY <1>4 DEF HandleServicesPolled, docker
  <2>3. Around'
    BY <2>2 DEF Around, NoPoll
  <2> QED
    BY <2>1, <2>3, <1>1
<1>5. CASE HandleRetryTick
  <2>1. \E C, S : SetStreams(C, S)
    BY <1>5, Zenon DEF HandleRetryTick
  <2>2. /\ ticks > 0 /\ ticks' = ticks - 1
        /\ UNCHANGED <<cont, changes, errors, poll, failed>>
    BY <1>5 DEF HandleRetryTick, docker
  <2>3. Around'
    BY <2>2 DEF Around, NoPoll
  <2> QED
    BY <2>1, <2>3, <1>1
<1>6. ASSUME NEW s \in Hosts, HandleContainerNotFound(s)
      PROVE  Around' /\ StreamsInv'
  <2>1. /\ Take(s, "LogStreamContainerNotFound")
        /\ SetStreams(Hosts, {}) /\ ticks' = ticks
    BY <1>6 DEF HandleContainerNotFound
  <2> QED
    BY <2>1, <1>1, <1>2 DEF Around, Kinds
<1>7. ASSUME NEW s \in Hosts, HandleStreamError(s)
      PROVE  Around' /\ StreamsInv'
  <2>1. /\ Take(s, "LogStreamError") /\ SetStreams(Hosts, {})
        /\ ticks' = ticks + Cardinality(Hosts)
    BY <1>7 DEF HandleStreamError
  <2>2. Cardinality(Hosts) \in Nat
    BY HostsFinite, FS_CardinalityType
  <2>3. ticks' \in Nat
    BY <2>1, <2>2 DEF Around
  <2> QED
    BY <2>1, <2>3, <1>1, <1>2 DEF Kinds
<1> QED
  BY <1>3, <1>4, <1>5, <1>6, <1>7

LEMMA NextHosts ==
    ASSUME Around, StreamsInv,
           [HostsNext]_hostsVars
    PROVE  Around' /\ StreamsInv'
<1>1. CASE HostsNext
  BY <1>1, WorldSteps, PanelSteps, Zenon DEF HostsNext
<1>2. CASE UNCHANGED hostsVars
  <2>1. UNCHANGED <<cont, changes, errors, poll, started, stream, failed, ticks>>
    BY <1>2 DEF hostsVars, docker, streams
  <2>2. Around'
    BY <2>1 DEF Around, NoPoll
  <2>3. StreamsInv'
    BY <2>1, Zenon DEF StreamsInv, FlagsMatch
  <2> QED
    BY <2>2, <2>3
<1> QED
  BY <1>1, <1>2

(* In whatever order polls, failures of other hosts' streams and retry     *)
(* ticks come in, a host's streamerStarted says whether it has a stream    *)
(* to close, and every failure and tick that is handled was sent           *)
(* (servicehost.go:133-235).                                               *)
THEOREM FlagTellsStream == HostsSpec => [](HostsTypeOK /\ FlagsMatch)
<1>2. HostsInit => Around /\ StreamsInv
  BY InitHosts
<1>3. (Around /\ StreamsInv) /\ [HostsNext]_hostsVars => (Around /\ StreamsInv)'
  BY NextHosts
<1>4. Around /\ StreamsInv => HostsTypeOK /\ FlagsMatch
  BY InTwo, Zenon DEF HostsInv
<1> QED
  BY <1>2, <1>3, <1>4, PTL DEF HostsSpec

-----------------------------------------------------------------------------
(***************************************************************************)
(* EVERY HOST HAS A HOSTED STREAM                                          *)
(*                                                                         *)
(* For the host of one service h, whatever the others do: their failures   *)
(* close its stream, ticks that they armed open it again.                  *)
(***************************************************************************)
Has(h, o, s) == started[h] = o /\ Stage(h) = s

Stages ==
    \A h \in Hosts :
        /\ stream[h] = "closed" => Has(h, FALSE, "none")
        /\ stream[h] # "closed" => started[h] = TRUE
        /\ stream[h] = "exited" => Has(h, TRUE, "over")
        /\ stream[h] \in Kinds => Has(h, TRUE, stream[h])
        /\ stream[h] \in {"connect", "tail", "eof"} => Has(h, TRUE, "live")

LEMMA HostStage == HostsInv => Stages
<1> SUFFICES ASSUME HostsInv, NEW h \in Hosts
             PROVE  /\ stream[h] = "closed" => Has(h, FALSE, "none")
                    /\ stream[h] # "closed" => started[h] = TRUE
                    /\ stream[h] = "exited" => Has(h, TRUE, "over")
                    /\ stream[h] \in Kinds => Has(h, TRUE, stream[h])
                    /\ stream[h] \in {"connect", "tail", "eof"} => Has(h, TRUE, "live")
  BY DEF Stages
<1>1. started[h] \in BOOLEAN /\ stream[h] \in StreamStates
  BY DEF HostsInv, HostsTypeOK
<1>2. started[h] <=> stream[h] # "closed"
  BY DEF HostsInv, FlagsMatch
<1>3. "closed" \notin Kinds /\ "exited" \notin Kinds
      /\ {"connect", "tail", "eof"} \cap Kinds = {}
  BY DEF Kinds
<1>4. CASE stream[h] = "closed"
  BY <1>1, <1>2, <1>4, <1>3 DEF Stage, Has
<1>5. CASE stream[h] = "exited"
  BY <1>1, <1>2, <1>5, <1>3 DEF Stage, Has
<1>6. CASE stream[h] \in Kinds
  BY <1>1, <1>2, <1>6, <1>3 DEF Stage, Has
<1>7. CASE stream[h] \in {"connect", "tail", "eof"}
  BY <1>1, <1>2, <1>7, <1>3 DEF Stage, Has
<1> QED
  BY <1>1, <1>2, <1>4, <1>5, <1>6, <1>7

(* What a stream's own reader and what no stream does.                     *)
LEMMA HostWorld ==
    ASSUME HostsInv, HostsInv', NEW h \in Hosts, NEW s \in Hosts,
           \/ Up(s) \/ Stop(s) \/ Down(s)
           \/ Connect(s) \/ EndOfStream(s)
           \/ ConnectionFails(s) \/ Deliver(s)
    PROVE  [Hosted(h)!Next]_(Hosted(h)!vars)
<1>a. stream \in [Hosts -> StreamStates] /\ failed \in [Hosts \X Kinds -> Nat]
  BY DEF HostsInv, HostsTypeOK
<1>d. Stages /\ Stages'
  <2>1. (HostsInv => Stages)'
    BY HostStage, PTL
  <2> QED
    BY <2>1, HostStage
<1>b. UNCHANGED started
  BY DEF Up, Stop, Down, Change, Connect, EndOfStream,
         ConnectionFails, Reach, Deliver
<1>c. ASSUME stream'[h] = stream[h] PROVE Stage(h)' = Stage(h)
  BY <1>c DEF Stage
<1>1. CASE stream'[h] = stream[h] /\ \A k \in Kinds : failed'[h, k] = failed[h, k]
  <2>1. ReportedBy(h)' = ReportedBy(h)
    BY <1>1 DEF ReportedBy
  <2> QED
    BY <1>1, <1>b, <1>c, <2>1 DEF Hosted!vars
<1>2. ASSUME UNCHANGED failed PROVE ReportedBy(h)' = ReportedBy(h)
  BY <1>2 DEF ReportedBy
<1>3. CASE Up(s) \/ Down(s)
  <2>1. UNCHANGED <<stream, failed>>
    BY <1>3 DEF Up, Down, Change
  <2> QED
    BY <1>1, <2>1
<1>4. CASE /\ UNCHANGED failed
           /\ stream[s] \in {"connect", "tail", "eof"}
           /\ \E to \in {"tail", "eof", "exited"} \cup Kinds :
                 stream' = [stream EXCEPT ![s] = to]
  <2>1. PICK to \in {"tail", "eof", "exited"} \cup Kinds :
                 stream' = [stream EXCEPT ![s] = to]
    BY <1>4
  <2>2. CASE s # h
    <3>1. stream'[h] = stream[h]
      BY <1>a, <2>1, <2>2
    <3> QED
      BY <1>1, <1>4, <3>1
  <2>3. CASE s = h
    <3>1. stream'[h] = to /\ Has(h, TRUE, "live") /\ ReportedBy(h)' = ReportedBy(h)
      BY <1>a, <2>1, <1>2, <1>4, <2>3, <1>d DEF Stages
    <3>2. CASE to \in {"tail", "eof"}
      <4>1. Has(h, TRUE, "live")'
        BY <3>1, <3>2, <1>d DEF Stages, Has
      <4> QED
        BY <3>1, <4>1 DEF Hosted!vars, Has
    <3>3. CASE to = "exited"
      <4>1. Has(h, TRUE, "over")'
        BY <3>1, <3>3, <1>d DEF Stages
      <4> QED
        BY <3>1, <4>1 DEF Hosted!Next, Hosted!End, Has
    <3>4. CASE to \in Kinds
      <4>1. Has(h, TRUE, to)'
        BY <3>1, <3>4, <1>d DEF Stages
      <4> QED
        BY <3>1, <3>4, <4>1 DEF Hosted!Next, Hosted!Fail, Has
    <3> QED
      BY <3>2, <3>3, <3>4
  <2> QED
    BY <2>2, <2>3
<1>5. CASE Stop(s)
  <2>1. UNCHANGED failed /\ stream' = [stream EXCEPT ![s] = IF @ = "tail" THEN "eof" ELSE @]
    BY <1>5 DEF Stop, Change
  <2>2. CASE stream[s] = "tail"
    BY <1>4, <2>1, <2>2
  <2>3. CASE stream[s] # "tail"
    BY <1>a, <1>1, <2>1, <2>3
  <2> QED
    BY <2>2, <2>3
<1>6. CASE Connect(s) \/ EndOfStream(s) \/ ConnectionFails(s)
  BY <1>4, <1>6 DEF Connect, EndOfStream, ConnectionFails, Reach,
                    Kinds
<1>7. CASE Deliver(s)
  <2> DEFINE k == stream[s]
  <2>1. /\ k \in Kinds
        /\ failed' = [failed EXCEPT ![<<s, k>>] = @ + 1]
        /\ stream' = [stream EXCEPT ![s] = "exited"]
    BY <1>7 DEF Deliver
  <2>2. CASE s # h
    BY <1>a, <1>1, <2>1, <2>2
  <2>3. CASE s = h
    <3>1. Has(h, TRUE, k) /\ Has(h, TRUE, "over")'
      BY <1>a, <2>1, <2>3, <1>d DEF Stages
    <3>2. ReportedBy(h)' = [ReportedBy(h) EXCEPT ![k] = @ + 1]
      BY <1>a, <2>1, <2>3 DEF ReportedBy
    <3> QED
      BY <2>1, <3>1, <3>2 DEF Hosted!Next, Hosted!Report, Has
  <2> QED
    BY <2>2, <2>3
<1> QED
  BY <1>3, <1>5, <1>6, <1>7

(* What the panel makes of the stream of one host.                         *)
LEMMA HostSet ==
    ASSUME HostsInv, HostsInv', NEW h \in Hosts, NEW C, NEW S,
           SetStreams(C, S), \A s \in S \cap Hosts : ~started[s]
    PROVE  /\ h \in S => Has(h, FALSE, "none") /\ Has(h, TRUE, "live")'
           /\ h \notin S /\ h \in C => Has(h, FALSE, "none")'
           /\ h \notin S /\ h \notin C =>
                 started'[h] = started[h] /\ Stage(h)' = Stage(h)
           /\ ~started[h] => Has(h, FALSE, "none")
           /\ started[h] \in BOOLEAN
<1>1. Stages /\ Stages'
  <2>1. (HostsInv => Stages)'
    BY HostStage, PTL
  <2> QED
    BY <2>1, HostStage
<1>2. /\ started'[h] = (h \in S \/ (started[h] /\ h \notin C))
      /\ stream'[h] = IF h \in S THEN "connect" ELSE IF h \in C THEN "closed" ELSE stream[h]
  BY Zenon DEF SetStreams
<1>3. started[h] \in BOOLEAN /\ (started[h] <=> stream[h] # "closed")
  BY DEF HostsInv, HostsTypeOK, FlagsMatch
<1>4. started'[h] \in BOOLEAN
  BY <1>2
<1>5. ~started[h] => Has(h, FALSE, "none")
  BY <1>1, <1>3 DEF Stages
<1>6. ASSUME h \in S PROVE Has(h, FALSE, "none") /\ Has(h, TRUE, "live")'
  <2>1. stream'[h] = "connect"
    BY <1>2, <1>6
  <2>2. Has(h, TRUE, "live")'
    BY <1>1, <2>1 DEF Stages
  <2> QED
    BY <1>5, <1>6, <2>2
<1>7. ASSUME h \notin S, h \in C PROVE Has(h, FALSE, "none")'
  <2>1. stream'[h] = "closed"
    BY <1>2, <1>7
  <2> QED
    BY <1>1, <2>1 DEF Stages
<1>8. ASSUME h \notin S, h \notin C
      PROVE  started'[h] = started[h] /\ Stage(h)' = Stage(h)
  <2>1. stream'[h] = stream[h]
    BY <1>2, <1>8
  <2>2. started'[h] = started[h]
    <3>1. CASE started[h] = TRUE
      BY <1>2, <1>8, <3>1
    <3>2. CASE started[h] = FALSE
      BY <1>2, <1>8, <3>2
    <3> QED
      BY <1>3, <3>1, <3>2
  <2> QED
    BY <2>1, <2>2 DEF Stage
<1> QED
  BY <1>3, <1>5, <1>6, <1>7, <1>8

(* What the panel and its hosts do: a host opens its stream only when it   *)
(* has none, and a failure that closes it was reported by its own stream   *)
(* or is another host's.                                                   *)
LEMMA HostPanel ==
    ASSUME HostsInv, HostsInv', NEW h \in Hosts,
           \/ Ps \/ HandleServicesPolled \/ HandleRetryTick
           \/ \E s \in Hosts : HandleContainerNotFound(s) \/ HandleStreamError(s)
    PROVE  [Hosted(h)!Next]_(Hosted(h)!vars)
<1>a. failed \in [Hosts \X Kinds -> Nat]
  BY DEF HostsInv, HostsTypeOK
<1>1. ASSUME UNCHANGED failed PROVE ReportedBy(h)' = ReportedBy(h)
  BY <1>1 DEF ReportedBy
<1>2. CASE Ps
  <2>1. UNCHANGED <<started, stream, failed>>
    BY <1>2 DEF Ps, streams
  <2>2. Stage(h)' = Stage(h)
    BY <2>1 DEF Stage
  <2> QED
    BY <1>1, <2>1, <2>2 DEF Hosted!vars
<1>3. CASE HandleServicesPolled \/ HandleRetryTick
  <2>1. PICK C, S : /\ SetStreams(C, S)
                    /\ \A s \in S \cap Hosts : ~started[s]
                    /\ \A s \in C \cap Hosts : started[s]
    <3>1. CASE HandleRetryTick
      <4> DEFINE S == {s \in Hosts : ~started[s]}
      <4>1. SetStreams({}, S)
        BY <3>1 DEF HandleRetryTick
      <4>2. /\ \A s \in S \cap Hosts : ~started[s]
            /\ \A s \in {} \cap Hosts : started[s]
        OBVIOUS
      <4> HIDE DEF S
      <4> QED
        BY <4>1, <4>2
    <3>2. CASE HandleServicesPolled
      <4> DEFINE running == {s \in Hosts : poll[s] = "running"}
                 started1 == {s \in Hosts : started[s]}
                 C == started1 \ running
                 S == running \ started1
      <4>1. SetStreams(C, S)
        BY <3>2, Zenon DEF HandleServicesPolled
      <4>2. /\ \A s \in S \cap Hosts : ~started[s]
            /\ \A s \in C \cap Hosts : started[s]
        OBVIOUS
      <4> HIDE DEF C, S
      <4> QED
        BY <4>1, <4>2
    <3> QED
      BY <1>3, <3>1, <3>2
  <2>2. ReportedBy(h)' = ReportedBy(h)
    BY <1>1, <1>3 DEF HandleServicesPolled, HandleRetryTick
  <2>3. CASE h \in S
    <3>1. Has(h, FALSE, "none") /\ Has(h, TRUE, "live")'
      BY <2>1, <2>3, HostSet
    <3> QED
      BY <2>2, <3>1 DEF Has, Hosted!Next, Hosted!Open
  <2>4. CASE h \notin S /\ h \in C
    <3>1. Has(h, FALSE, "none")' /\ started[h]
      BY <2>1, <2>4, HostSet
    <3> QED
      BY <2>2, <3>1 DEF Has, Hosted!Next, Hosted!Close, Hosted!Closed
  <2>5. CASE h \notin S /\ h \notin C
    <3>1. started'[h] = started[h] /\ Stage(h)' = Stage(h)
      BY <2>1, <2>5, HostSet
    <3> QED
      BY <2>2, <3>1 DEF Hosted!vars
  <2> QED
    BY <2>3, <2>4, <2>5
<1>4. ASSUME NEW s \in Hosts, NEW k \in Kinds,
             Take(s, k), SetStreams(Hosts, {})
      PROVE  [Hosted(h)!Next]_(Hosted(h)!vars)
  <2>1. /\ Has(h, FALSE, "none")'
        /\ ~started[h] => Has(h, FALSE, "none")
        /\ started[h] \in BOOLEAN
    <3>1. h \notin {} /\ \A s1 \in {} \cap Hosts : ~started[s1]
      OBVIOUS
    <3> QED
      <4> DEFINE S == {}
      <4>1. SetStreams(Hosts, S) /\ h \notin S /\ \A s1 \in S \cap Hosts : ~started[s1]
        BY <1>4, <3>1
      <4> HIDE DEF S
      <4> QED
        BY <4>1, HostSet
  <2>2. failed[<<s, k>>] > 0 /\ failed' = [failed EXCEPT ![<<s, k>>] = @ - 1]
    BY <1>4 DEF Take
  <2>3. CASE s = h
    <3>1. ReportedBy(h)' = [ReportedBy(h) EXCEPT ![k] = @ - 1]
      BY <1>a, <2>2, <2>3 DEF ReportedBy
    <3>2. ReportedBy(h)[k] > 0
      BY <1>a, <2>2, <2>3 DEF ReportedBy
    <3>3. Hosted(h)!Handle(k)
      BY <2>1, <3>1, <3>2 DEF Has, Hosted!Handle, Hosted!Closed
    <3> QED
      BY <3>3 DEF Hosted!Next
  <2>4. CASE s # h
    <3>1. ReportedBy(h)' = ReportedBy(h)
      BY <1>a, <2>2, <2>4 DEF ReportedBy
    <3>2. CASE started[h]
      BY <2>1, <3>1, <3>2 DEF Has, Hosted!Next, Hosted!Close, Hosted!Closed
    <3>3. CASE ~started[h]
      BY <2>1, <3>1, <3>3 DEF Has, Hosted!vars
    <3> QED
      BY <3>2, <3>3
  <2> QED
    BY <2>3, <2>4
<1>5. ASSUME NEW s \in Hosts,
             HandleContainerNotFound(s) \/ HandleStreamError(s)
      PROVE  [Hosted(h)!Next]_(Hosted(h)!vars)
  <2>1. \E k \in Kinds : Take(s, k)
    BY <1>5 DEF HandleContainerNotFound, HandleStreamError, Kinds
  <2>2. SetStreams(Hosts, {})
    BY <1>5 DEF HandleContainerNotFound, HandleStreamError
  <2> QED
    BY <1>4, <2>1, <2>2
<1> QED
  BY <1>2, <1>3, <1>5

HostsBegin == \A s \in Hosts : Hosted(s)!Init
HostsMove == \A s \in Hosts : [Hosted(s)!Next]_(Hosted(s)!vars)

(* Any number of services: whatever polls, ticks and failures the panel    *)
(* hands to every host, each host's stream is one HostedStream allows, as  *)
(* LogStreamer's is by IsHosted.  A host never opens a second stream, and  *)
(* its own failures close it no more often than its streams reported them  *)
(* (servicehost.go:133-235).                                               *)
THEOREM EveryHostIsHosted == HostsSpec => StreamSpecs
<1>2. HostsInit => Around /\ StreamsInv
  BY InitHosts
<1>3. (Around /\ StreamsInv) /\ [HostsNext]_hostsVars => (Around /\ StreamsInv)'
  BY NextHosts
<1>4. HostsInit => HostsBegin
  <2> SUFFICES ASSUME HostsInit, NEW h \in Hosts PROVE Hosted(h)!Init
    BY DEF HostsBegin
  <2>1. HostsInv
    BY <1>2, InTwo
  <2>2. Has(h, FALSE, "none")
    BY <2>1, HostStage DEF Stages, HostsInit
  <2>3. ReportedBy(h) = [k \in Kinds |-> 0]
    BY DEF HostsInit, ReportedBy
  <2> QED
    BY <2>2, <2>3 DEF Has, Hosted!Init
<1>5. /\ Around /\ StreamsInv /\ (Around /\ StreamsInv)'
      /\ [HostsNext]_hostsVars
      => [HostsMove]_hostsVars
  <2> SUFFICES ASSUME Around, StreamsInv, (Around /\ StreamsInv)', HostsNext,
                      NEW h \in Hosts
               PROVE  [Hosted(h)!Next]_(Hosted(h)!vars)
    BY DEF HostsMove
  <2>1. HostsInv /\ HostsInv'
    <3>1. (HostsInv <=> Around /\ StreamsInv)'
      BY InTwo, PTL
    <3> QED
      BY <3>1, InTwo
  <2>2. CASE \E s \in Hosts :
               \/ Up(s) \/ Stop(s) \/ Down(s)
               \/ Connect(s) \/ EndOfStream(s)
               \/ ConnectionFails(s) \/ Deliver(s)
    BY <2>1, <2>2, HostWorld
  <2>3. CASE \/ Ps \/ HandleServicesPolled \/ HandleRetryTick
             \/ \E s \in Hosts :
                   HandleContainerNotFound(s) \/ HandleStreamError(s)
    BY <2>1, <2>3, HostPanel
  <2> QED
    BY <2>2, <2>3, SMT DEF HostsNext
<1>6. HostsBegin /\ [][HostsMove]_hostsVars => StreamSpecs
  BY DEF HostsBegin, HostsMove, StreamSpecs
<1> QED
  BY <1>2, <1>3, <1>4, <1>5, <1>6, PTL DEF HostsSpec
=============================================================================
