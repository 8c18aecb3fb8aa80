------------------------------ MODULE LogPane ------------------------------
(***************************************************************************)
(* The log pane of one service (components/logpane): a buffer of lines cut *)
(* at its cap, a viewport with an offset into it, soft wrap, and the flag  *)
(* that says whether lines are cut off at the right; and the topbar's      *)
(* badge, which learns of them by messages that arrive in any order.       *)
(*                                                                         *)
(* A line is its width in columns.  The viewport (bubbles/viewport) is     *)
(* seen from how the pane uses it: rows, an offset, SetYOffset.  Its       *)
(* content, size and SoftWrap always follow the pane's lines, size and     *)
(* wrap, and are no state of their own.                                    *)
(***************************************************************************)
EXTENDS Integers, Sequences

LOCAL INSTANCE FiniteSetsExt

CONSTANTS Services,             \* the services of the project
          Own,                  \* the one whose pane this is
          LineCap,              \* cap, the number of lines retained
          LineWidths,           \* the widths of lines
          MaxBatch,             \* bound on lines drained from lineCh at once
          TermWidths, TermHeights,          \* sizes of the terminal
          FrameHeights,         \* heights of the application's chrome
          SidebarWidth, SidebarMinTermWidth, BorderWidth,
          MaxMessages           \* bound on messages under way when the user
                                \* or the service acts

ASSUME OwnService == Own \in Services
ASSUME Sizes ==
    /\ LineCap \in Nat \ {0} /\ MaxBatch \in Nat /\ MaxMessages \in Nat
    /\ LineWidths \subseteq Nat /\ TermWidths \subseteq Nat
    /\ TermHeights \subseteq Nat /\ FrameHeights \subseteq Nat
    /\ SidebarWidth \in Nat /\ SidebarMinTermWidth \in Nat /\ BorderWidth \in Nat

VARIABLES lines,            \* the buffer
          termW, rawH,      \* the terminal's size
          frameHeight,      \* lines of it the chrome takes
          wrap,
          yOffset,          \* of the viewport, in rows
          prevOverflow,     \* whether a line was last seen to be cut off
          selectedName,     \* of the dashboard
          hostSelected,     \* whether this pane's host is the selected one
          topbarService,    \* selectedService of the topbar, or None
          badge,            \* its wrapOn and truncated
          msgs,             \* messages under way, with their number
          away,             \* (history) left the end: scrolled by the user
                            \* or by a change of the chrome
          raced,            \* (history) no report on the badge since the
                            \* selection that was not overtaken by another
          cleared           \* (history) a buffer with cut-off lines was
                            \* cleared since the selection

pane == <<lines, wrap, yOffset, prevOverflow>>
size == <<termW, rawH, frameHeight>>
bar == <<topbarService, badge>>
selection == <<selectedName, hostSelected>>
history == <<away, raced, cleared>>
vars == <<pane, size, bar, selection, msgs, history>>

None == "none"

Toggle == [kind |-> "ToggleLogWrap"]
Selected(s) == [kind |-> "ServiceSelected", svc |-> s]
Context(s) == [kind |-> "TopbarContext", svc |-> s]
Report(s) == [kind |-> "ReportWrapStatus", svc |-> s]
Clear(s) == [kind |-> "ClearLogBuffer", svc |-> s]
Status(s, is) == [kind |-> "LogWrapStatus", svc |-> s, is |-> is]

(* What another service's pane reports is left open until it is shown.     *)
Off == [on |-> FALSE, over |-> FALSE]
Badges == {Off, [on |-> TRUE, over |-> FALSE], [on |-> FALSE, over |-> TRUE]}
Statuses(s) == {Status(s, is) : is \in IF s = Own THEN Badges ELSE {Off}}
Contexts == {Context(s) : s \in Services \cup {None}}
Messages ==
    {Toggle} \cup Contexts
    \cup UNION {{Selected(s), Report(s), Clear(s)} \cup Statuses(s) : s \in Services}

(* What the badge hears of: contexts, and the reports of this pane.        *)
BadgeNews == Contexts \cup Statuses(Own)

(* yOffset is left out: it is compared with sums over the lines.           *)
TypeOK ==
    /\ lines \in Seq(LineWidths) /\ Len(lines) =< LineCap
    /\ termW \in TermWidths /\ rawH \in TermHeights /\ frameHeight \in Nat
    /\ wrap \in BOOLEAN /\ prevOverflow \in BOOLEAN
    /\ selectedName \in Services /\ hostSelected \in BOOLEAN
    /\ topbarService \in Services \cup {None} /\ badge \in Badges
    /\ msgs \in [Messages -> Nat]
    /\ away \in BOOLEAN /\ raced \in BOOLEAN /\ cleared \in BOOLEAN

-----------------------------------------------------------------------------
(* MESSAGES                                                                *)

Room == MapThenSumSet(LAMBDA m : msgs[m], {m \in Messages : msgs[m] > 0}) < MaxMessages

One(S, m) == IF m \in S THEN 1 ELSE 0
Send(S) == msgs' = [m \in Messages |-> msgs[m] + One(S, m)]

(* Update takes message r and its commands send those of S.                *)
Receive(r, S) ==
    /\ msgs[r] > 0
    /\ msgs' = [m \in Messages |-> msgs[m] - One({r}, m) + One(S, m)]

(* None of M is under way; others of M than r, which is handled now, are.   *)
Silent(M) == \A m \in M : msgs[m] = 0
Overtakes(r, M) == \E m \in M : msgs[m] > One({r}, m)

-----------------------------------------------------------------------------
(* LAYOUT AND VIEWPORT                                                     *)

Bigger(a, b) == IF a > b THEN a ELSE b
Smaller(a, b) == IF a < b THEN a ELSE b

ViewWidth(w) ==
    LET carouselW == IF w < SidebarMinTermWidth THEN 0 ELSE SidebarWidth
    IN Bigger(w - carouselW - BorderWidth, 0)
ViewHeight(h, fh) == Bigger(Bigger(h - fh, 0) - BorderWidth, 0)

(* Rows of a wrapped line, rows of the first n lines, rows of all of them. *)
Rows(len, w) == Bigger(1, (len + Bigger(w, 1) - 1) \div Bigger(w, 1))
RowsOf(ls, w) ==
    LET above[n \in 0..Len(ls)] == IF n = 0 THEN 0 ELSE above[n - 1] + Rows(ls[n], w)
    IN above
TotalRows(ls, wr, w) == IF wr THEN RowsOf(ls, w)[Len(ls)] ELSE Len(ls)

MaxYOffset(ls, wr, w, h) == Bigger(0, TotalRows(ls, wr, w) - h)
Bottom == MaxYOffset(lines, wrap, ViewWidth(termW), ViewHeight(rawH, frameHeight))
AtBottom == yOffset >= Bottom

(* SetContentLines: an offset past the new end goes back to it.            *)
SetContentLines(y, bottom) == Smaller(y, bottom)

HasOverflow(ls, wr, w) == ~wr /\ \E i \in 1..Len(ls) : ls[i] > w

(* The line (from 0) the viewport's row y belongs to.                      *)
RealLineIndex(ls, wr, w, y) ==
    CASE ls = <<>> -> 0
      [] ls # <<>> /\ ~wr -> Smaller(y, Len(ls) - 1)
      [] ls # <<>> /\ wr ->
            IF y >= TotalRows(ls, TRUE, w) THEN Len(ls) - 1
            ELSE CHOOSE i \in 0..(Len(ls) - 1) :
                    RowsOf(ls, w)[i] =< y /\ y < RowsOf(ls, w)[i + 1]

(* Mutant: lines that were cut away still count.                           *)
OverflowAfterUntrimmed(ls, trimmed) ==
    IF wrap \/ prevOverflow THEN prevOverflow
    ELSE HasOverflow(ls, FALSE, ViewWidth(termW))

(* overflowCmd: the flag after lines ls are shown, and the report of a     *)
(* change.  Lines only ever added leave a flag that is up as it is.        *)
OverflowAfter(ls, trimmed) ==
    IF wrap \/ (prevOverflow /\ ~trimmed) THEN prevOverflow
    ELSE HasOverflow(ls, FALSE, ViewWidth(termW))
ChangeOf(over) == IF over = prevOverflow THEN {} ELSE {Status(Own, [on |-> wrap, over |-> over])}

-----------------------------------------------------------------------------
(* The dashboard just made: the carousel selects the first service, and    *)
(* the application has sent the topbar a context without service.          *)
Init ==
    /\ lines = <<>>
    /\ termW \in TermWidths /\ rawH \in TermHeights /\ frameHeight = 2
    /\ wrap = FALSE /\ yOffset = 0 /\ prevOverflow = FALSE
    /\ selectedName = Own /\ hostSelected = FALSE
    /\ topbarService = None /\ badge = Off
    /\ msgs = [m \in Messages |-> One({Selected(Own), Context(None)}, m)]
    /\ away = FALSE /\ raced = TRUE /\ cleared = FALSE

(* LogLinesAvailable: the lines queued since, ls, go to the buffer, the     *)
(* oldest above the cap are dropped, and who was at the end stays there.   *)
HandleLogLinesAvailable(ls) ==
    LET all == lines \o ls
        excess == Len(all) - LineCap
        kept == IF excess > 0 THEN SubSeq(all, excess + 1, Len(all)) ELSE all
        bottom == MaxYOffset(kept, wrap, ViewWidth(termW), ViewHeight(rawH, frameHeight))
        over == OverflowAfter(kept, excess > 0)
    IN /\ Room
       /\ lines' = kept
       /\ yOffset' = IF AtBottom THEN bottom ELSE SetContentLines(yOffset, bottom)
       /\ prevOverflow' = over
       /\ Send(ChangeOf(over))
       /\ UNCHANGED <<wrap, size, bar, selection, history>>

(* ToggleLogWrap reaches every pane; the others answer for their service.  *)
(* The offset is looked up under the new setting, though it was made under *)
(* the old one.                                                            *)
HandleToggleLogWrap ==
    LET on == ~wrap
        w == ViewWidth(termW)
        bottom == MaxYOffset(lines, on, w, ViewHeight(rawH, frameHeight))
        real == RealLineIndex(lines, on, w, yOffset)
        over == HasOverflow(lines, on, w)
    IN /\ wrap' = on
       /\ yOffset' = IF AtBottom THEN bottom ELSE Smaller(real, bottom)
       /\ prevOverflow' = over
       /\ Receive(Toggle, {Status(Own, [on |-> on, over |-> over])}
                          \cup {Status(s, Off) : s \in Services \ {Own}})
       /\ UNCHANGED <<lines, size, bar, selection, history>>

(* ClearLogBuffer: the buffer is emptied (so is the queue: those lines     *)
(* never come); nothing is reported.                                       *)
HandleClearLogBuffer(s) ==
    /\ Receive(Clear(s), {})
    /\ IF s = Own
       THEN /\ lines' = <<>>
            /\ yOffset' = 0 /\ prevOverflow' = FALSE
            /\ cleared' = (cleared \/ prevOverflow) /\ away' = FALSE
       ELSE UNCHANGED <<lines, yOffset, prevOverflow, cleared, away>>
    /\ UNCHANGED <<wrap, size, bar, selection, raced>>

(* ReportWrapStatus, sent on selection, is answered by the service's pane. *)
HandleReportWrapStatus(s) ==
    /\ IF s = Own
       THEN LET over == OverflowAfter(lines, FALSE)
            IN /\ prevOverflow' = over
               /\ Receive(Report(s), {Status(s, [on |-> wrap, over |-> ~wrap /\ over])})
       ELSE /\ Receive(Report(s), {Status(s, Off)})
            /\ UNCHANGED prevOverflow
    /\ UNCHANGED <<lines, wrap, yOffset, size, bar, selection, history>>

(* FrameHeight: the viewport's height changes under the offset.            *)
HandleFrameHeight(fh) ==
    /\ fh # frameHeight
    /\ frameHeight' = fh
    /\ UNCHANGED <<pane, termW, rawH, bar, selection, msgs, raced, cleared>>
    /\ away' = (away \/ ~AtBottom')

(* Mutant: a resize leaves the offset where it is.                         *)
OnWindowResizeHolds(w, h) ==
    LET over == IF wrap THEN prevOverflow ELSE HasOverflow(lines, wrap, ViewWidth(w))
    IN /\ Room
       /\ <<w, h>> # <<termW, rawH>>
       /\ termW' = w /\ rawH' = h
       /\ prevOverflow' = over
       /\ Send(ChangeOf(over))
       /\ UNCHANGED <<lines, wrap, yOffset, frameHeight, bar, selection, history>>

(* WindowSizeMsg: who was at the end stays there, and the flag is renewed. *)
OnWindowResize(w, h) ==
    LET bottom == MaxYOffset(lines, wrap, ViewWidth(w), ViewHeight(h, frameHeight))
        over == IF wrap THEN prevOverflow ELSE HasOverflow(lines, wrap, ViewWidth(w))
    IN /\ Room
       /\ <<w, h>> # <<termW, rawH>>
       /\ termW' = w /\ rawH' = h
       /\ yOffset' = IF AtBottom \/ yOffset > bottom THEN bottom ELSE yOffset
       /\ prevOverflow' = over
       /\ Send(ChangeOf(over))
       /\ UNCHANGED <<lines, wrap, frameHeight, bar, selection, history>>

(* Keys and wheel scroll the selected pane only.                           *)
Scroll(y) ==
    /\ hostSelected
    /\ y # yOffset /\ y \in 0..Bottom
    /\ yOffset' = y
    /\ away' = (y < Bottom)
    /\ UNCHANGED <<lines, wrap, prevOverflow, size, bar, selection, msgs, raced, cleared>>

-----------------------------------------------------------------------------
(* SELECTION, KEYS AND TOPBAR                                              *)

(* Keys w and c, and the carousel's choice of a service.                   *)
PressWrap == Room /\ Send({Toggle}) /\ UNCHANGED <<pane, size, bar, selection, history>>
PressClear == Room /\ Send({Clear(selectedName)}) /\ UNCHANGED <<pane, size, bar, selection, history>>
Select(s) == Room /\ Send({Selected(s)}) /\ UNCHANGED <<pane, size, bar, selection, history>>

(* Mutant: nobody asks the pane for a report.                              *)
HandleServiceSelectedUnasked(s) ==
    /\ selectedName' = s /\ hostSelected' = (s = Own)
    /\ Receive(Selected(s), {Context(s)})
    /\ IF s = Own /\ Silent(BadgeNews \cup {Report(Own)})
       THEN raced' = FALSE /\ cleared' = FALSE
       ELSE UNCHANGED <<raced, cleared>>
    /\ UNCHANGED <<pane, size, bar, away>>

(* ServiceSelected: the topbar's context and the request for a report are  *)
(* commands of their own.                                                  *)
HandleServiceSelected(s) ==
    /\ selectedName' = s /\ hostSelected' = (s = Own)
    /\ Receive(Selected(s), {Context(s), Report(s)})
    /\ IF s = Own /\ Silent(BadgeNews \cup {Report(Own)})
       THEN raced' = FALSE /\ cleared' = FALSE
       ELSE UNCHANGED <<raced, cleared>>
    /\ UNCHANGED <<pane, size, bar, away>>

(* A context for another service takes the badge down.                     *)
HandleTopbarContext(s) ==
    /\ Receive(Context(s), {})
    /\ topbarService' = s
    /\ badge' = IF s = topbarService THEN badge ELSE Off
    /\ raced' = (raced \/ Overtakes(Context(s), Contexts))
    /\ UNCHANGED <<pane, size, selection, away, cleared>>

(* A report counts if it is of the service the topbar shows by then.       *)
HandleLogWrapStatus(m) ==
    /\ Receive(m, {})
    /\ badge' \in IF m.svc # topbarService THEN {badge}
                  ELSE IF m.svc = Own THEN {m.is} ELSE Badges
    /\ raced' = (raced \/ (m.svc = Own /\ Overtakes(m, BadgeNews)))
    /\ UNCHANGED <<pane, size, topbarService, selection, away, cleared>>

Next ==
    \/ \E n \in 1..MaxBatch : \E ls \in [1..n -> LineWidths] : HandleLogLinesAvailable(ls)
    \/ HandleToggleLogWrap
    \/ \E fh \in FrameHeights : HandleFrameHeight(fh)
    \/ \E w \in TermWidths, h \in TermHeights : OnWindowResize(w, h)
    \/ \E y \in 0..Bottom : Scroll(y)
    \/ PressWrap \/ PressClear
    \/ \E s \in Services :
          \/ Select(s) \/ HandleServiceSelected(s)
          \/ HandleClearLogBuffer(s) \/ HandleReportWrapStatus(s)
          \/ \E m \in Statuses(s) : HandleLogWrapStatus(m)
    \/ \E s \in Services \cup {None} : HandleTopbarContext(s)

Spec == Init /\ [][Next]_vars

-----------------------------------------------------------------------------
(* PROPERTIES                                                              *)

(* The cached flag is the truth: lines are cut off exactly when it is up,  *)
(* through cuts of the buffer, clears, wraps and resizes.                  *)
OverflowKnown == prevOverflow = HasOverflow(lines, wrap, ViewWidth(termW))

(* Who has not left the end of the log is at its end: it is followed       *)
(* through new lines, cuts, clears, wraps and resizes.                     *)
FollowsTail == ~away => AtBottom

(* When all is handled the badge tells the truth about the selected        *)
(* service, unless its news overtook each other or the buffer was cleared. *)
BadgeTrue ==
    (/\ Silent(BadgeNews \cup {Report(Own)})
     /\ selectedName = Own /\ ~raced /\ ~cleared)
    => /\ topbarService = Own
       /\ badge = [on |-> wrap, over |-> prevOverflow]
=============================================================================
