------------------------------ MODULE Carousel ------------------------------
(***************************************************************************)
(* The carousel of service cards (internal/ui/components/carousel) and the *)
(* focus and hover of its cards (card.Update).                             *)
(*                                                                         *)
(* Slots are numbered: first the dots of the pages, when there are several *)
(* pages, then PageSize places for cards.  A handler changes the slot at   *)
(* once; the cards and the dashboard learn of it by messages, which come   *)
(* from commands of their own and in any order.                            *)
(***************************************************************************)
EXTENDS Integers, FiniteSets

CONSTANTS MaxServices,  \* bound on the services of the project
          PageSize,     \* cards on a page
          MaxPending    \* bound on messages on their way when the user acts,
                        \* none of them twice

ASSUME Sizes == MaxServices \in Nat /\ PageSize \in Nat \ {0} /\ MaxPending \in Nat

VARIABLES numServices, \* of the project: stays as it is
          page,      \* paginator.Page
          focus,     \* the slot that has the focus
          hovered,   \* the card's slot under the mouse, or None
          dot,       \* hoveredDot: the dot under the mouse, or None
          clicked,   \* lastClickIdx
          recent,    \* whether lastClickTime is within the threshold
          focused,   \* the services whose cards are focused
          lit,       \* those whose cards are hovered
          selected,  \* selectedName of the dashboard
          inbox,     \* messages on their way
          looping,   \* whether handleTab runs for ever
          hit,       \* (history) the service clicked on last, or None
          raced      \* (history) whether the user was ever ahead of a message

slots == <<page, focus, hovered, dot, clicked, recent>>
cards == <<focused, lit, selected>>
vars == <<numServices, slots, cards, inbox, looping, hit, raced>>

None == -1
Services == 0..(numServices - 1)
Kinds == {"Focus", "Blur", "Hover", "Unhover", "Selected", "Toggle"}
Msgs == [kind : Kinds, service : 0..(MaxServices - 1)]

TotalPages == IF numServices = 0 THEN 1 ELSE (numServices + PageSize - 1) \div PageSize
DotCount == IF TotalPages > 1 THEN TotalPages ELSE 0
TotalSlots == DotCount + PageSize
Slots == 0..(TotalSlots - 1)
Dots == 0..(DotCount - 1)

(* GetSliceBounds: the cards of a page.                                    *)
CardsOn(p) == IF numServices - p * PageSize < PageSize THEN numServices - p * PageSize
                                                       ELSE PageSize
OnPage(s) == s \div PageSize = page
CardServiceName(slot) == page * PageSize + (slot - DotCount)

SlotHasCard(slot) == slot >= DotCount /\ slot - DotCount < CardsOn(page)

Cards == {slot \in Slots : SlotHasCard(slot)}

TypeOK ==
    /\ numServices \in 0..MaxServices
    /\ page \in 0..(TotalPages - 1)
    /\ focus \in Slots
    /\ hovered \in Slots \cup {None}
    /\ dot \in Dots \cup {None}
    /\ clicked \in 0..(PageSize - 1) \cup {None}
    /\ recent \in BOOLEAN
    /\ focused \subseteq Services /\ lit \subseteq Services
    /\ selected \in Services \cup {None}
    /\ inbox \in [Msgs -> Nat]
    /\ looping \in BOOLEAN
    /\ hit \in Services \cup {None}
    /\ raced \in BOOLEAN

Msg(kind, s) == [kind |-> kind, service |-> s]
Posted(ms) == [m \in Msgs |-> IF m \in ms THEN 1 ELSE 0]

(* New and Init of carousel and dashboard.                                 *)
Init ==
    /\ numServices \in 0..MaxServices
    /\ page = 0
    /\ focus = IF numServices > 0 THEN DotCount ELSE 0
    /\ hovered = None /\ dot = None
    /\ clicked = None /\ recent = FALSE
    /\ focused = {} /\ lit = {}
    /\ selected = IF numServices > 0 THEN 0 ELSE None
    /\ inbox = Posted(IF numServices > 0 THEN {Msg("Focus", 0), Msg("Selected", 0)} ELSE {})
    /\ looping = FALSE
    /\ hit = None /\ raced = FALSE

-----------------------------------------------------------------------------
(* WHAT THE USER DOES                                                      *)

Waiting == {m \in Msgs : inbox[m] > 0}

(* A key press or mouse event reaches its handler, which posts ms.         *)
Input(ms) ==
    /\ ~looping
    /\ Cardinality(Waiting) =< MaxPending /\ \A m \in Waiting : inbox[m] = 1
    /\ inbox' = [m \in Msgs |-> inbox[m] + IF m \in ms THEN 1 ELSE 0]
    /\ raced' = (raced \/ Waiting # {})

(* The messages a move of the focus sends.                                 *)
Blurred(slot) == IF SlotHasCard(slot) THEN {Msg("Blur", CardServiceName(slot))} ELSE {}
Entered(slot) == IF SlotHasCard(slot)
                   THEN {Msg("Focus", CardServiceName(slot)),
                         Msg("Selected", CardServiceName(slot))}
                   ELSE {}

(* Mutant: the card left is not told.                                      *)
MoveFocusSilently(slot) ==
    /\ focus' = slot
    /\ Input(Entered(slot))
    /\ UNCHANGED <<numServices, page, hovered, dot, clicked, recent, cards, looping, hit>>

MoveFocus(slot) ==
    /\ focus' = slot
    /\ Input(Blurred(focus) \cup Entered(slot))
    /\ UNCHANGED <<numServices, page, hovered, dot, clicked, recent, cards, looping, hit>>

(* Slots the loops of handleTab and handleShiftTab pass over.              *)
Skipped(slot) == IF slot < DotCount THEN slot = page ELSE ~SlotHasCard(slot)

(* The first slot not passed over, k steps up or down.                     *)
Step(k, direction) == (focus + k * direction) % TotalSlots
Reaches(k, direction) ==
    /\ ~Skipped(Step(k, direction))
    /\ \A j \in 1..(k - 1) : Skipped(Step(j, direction))

HandleTab ==
    \/ \E k \in 1..TotalSlots : Reaches(k, 1) /\ MoveFocus(Step(k, 1))
    \/ /\ \A slot \in Slots : Skipped(slot)
       /\ looping' = TRUE
       /\ Input({})
       /\ UNCHANGED <<numServices, slots, cards, hit>>

(* The loop goes on, and the program handles nothing else.                 *)
TabLoops == looping /\ UNCHANGED vars

HandleShiftTab ==
    /\ CardsOn(page) > 0
    /\ \E k \in 1..TotalSlots : Reaches(k, -1) /\ MoveFocus(Step(k, -1))

(* Mutant: the focus stays in its place.                                   *)
RebuildCardsUnfocused(p) ==
    /\ page' = p
    /\ hovered' = None /\ dot' = None
    /\ clicked' = None /\ recent' = FALSE
    /\ focused' = {} /\ lit' = {}
    /\ Input({})
    /\ UNCHANGED <<numServices, focus, selected, looping, hit>>

(* Mutant: the last click outlives the cards.                              *)
RebuildCardsClicked(p) ==
    /\ page' = p
    /\ focus' = IF CardsOn(p) > 0 THEN DotCount ELSE 0
    /\ hovered' = None /\ dot' = None
    /\ focused' = {} /\ lit' = {}
    /\ Input(IF CardsOn(p) > 0
               THEN {Msg("Focus", p * PageSize), Msg("Selected", p * PageSize)} ELSE {})
    /\ UNCHANGED <<numServices, clicked, recent, selected, looping, hit>>

(* Mutant: the hovered slot outlives the cards.                            *)
RebuildCardsHovered(p) ==
    /\ page' = p
    /\ focus' = IF CardsOn(p) > 0 THEN DotCount ELSE 0
    /\ clicked' = None /\ recent' = FALSE
    /\ focused' = {} /\ lit' = {}
    /\ Input(IF CardsOn(p) > 0
               THEN {Msg("Focus", p * PageSize), Msg("Selected", p * PageSize)} ELSE {})
    /\ UNCHANGED <<numServices, hovered, dot, selected, looping, hit>>

RebuildCards(p) ==
    /\ page' = p
    /\ focus' = IF CardsOn(p) > 0 THEN DotCount ELSE 0
    /\ hovered' = None /\ dot' = None
    /\ clicked' = None /\ recent' = FALSE
    /\ focused' = {} /\ lit' = {}
    /\ Input(IF CardsOn(p) > 0
               THEN {Msg("Focus", p * PageSize), Msg("Selected", p * PageSize)} ELSE {})
    /\ UNCHANGED <<numServices, selected, looping, hit>>

PgUp == page > 0 /\ RebuildCards(page - 1)

PgDown == page < TotalPages - 1 /\ RebuildCards(page + 1)

HandleEnter ==
    \/ focus < DotCount /\ RebuildCards(focus)
    \/ /\ SlotHasCard(focus)
       /\ Input({Msg("Toggle", CardServiceName(focus))})
       /\ UNCHANGED <<numServices, slots, cards, looping, hit>>

ClickDot(p) == p # page /\ RebuildCards(p)

(* A click on the focused card is the first or the second of a double      *)
(* click; a click elsewhere moves the focus.                               *)
HandleCardClick(slot) ==
    /\ slot \in Cards
    /\ LET idx == slot - DotCount IN
       \/ /\ focus = slot /\ idx = clicked /\ recent
          /\ Input({Msg("Toggle", CardServiceName(slot))})
          /\ UNCHANGED <<numServices, clicked, recent>>
       \/ /\ focus = slot /\ ~(idx = clicked /\ recent)
          /\ Input({})
          /\ clicked' = idx /\ recent' = TRUE
       \/ /\ focus # slot
          /\ Input(Entered(slot) \cup
                   IF focus >= DotCount THEN {Msg("Blur", CardServiceName(focus))} ELSE {})
          /\ clicked' = idx /\ recent' = TRUE
    /\ focus' = slot
    /\ hit' = CardServiceName(slot)
    /\ UNCHANGED <<numServices, page, hovered, dot, cards, looping>>

ThresholdPasses ==
    /\ recent
    /\ recent' = FALSE
    /\ UNCHANGED <<numServices, page, focus, hovered, dot, clicked,
                   cards, inbox, looping, hit, raced>>

Unhovered == IF hovered >= DotCount THEN {Msg("Unhover", CardServiceName(hovered))} ELSE {}

HoverDot(p) ==
    /\ p # dot
    /\ dot' = p
    /\ hovered' = None
    /\ Input(Unhovered)
    /\ UNCHANGED <<numServices, page, focus, clicked, recent, cards, looping, hit>>

(* The mouse is on a card, or on neither card nor dot.                     *)
Hover(slot) ==
    /\ slot # hovered \/ dot # None
    /\ dot' = None
    /\ hovered' = slot
    /\ Input(IF slot = hovered THEN {} ELSE Unhovered \cup
             IF slot = None THEN {} ELSE {Msg("Hover", CardServiceName(slot))})
    /\ UNCHANGED <<numServices, page, focus, clicked, recent, cards, looping, hit>>

-----------------------------------------------------------------------------
(* WHAT THE MESSAGES DO                                                    *)

(* A card that is not there any more does not hear its message.  Toggles   *)
(* go to the dashboard, and what becomes of them is not told here.         *)
Deliver(m) ==
    /\ ~looping
    /\ inbox[m] > 0
    /\ inbox' = [inbox EXCEPT ![m] = @ - 1]
    /\ focused' = IF m.kind = "Focus" /\ OnPage(m.service) THEN focused \cup {m.service}
                  ELSE IF m.kind = "Blur" THEN focused \ {m.service} ELSE focused
    /\ lit' = IF m.kind = "Hover" /\ OnPage(m.service) THEN lit \cup {m.service}
              ELSE IF m.kind = "Unhover" THEN lit \ {m.service} ELSE lit
    /\ selected' = IF m.kind = "Selected" THEN m.service ELSE selected
    /\ UNCHANGED <<numServices, slots, looping, hit, raced>>

Next ==
    \/ HandleTab \/ TabLoops \/ HandleShiftTab \/ PgUp \/ PgDown \/ HandleEnter
    \/ \E p \in Dots : ClickDot(p) \/ HoverDot(p)
    \/ \E slot \in Cards : HandleCardClick(slot)
    \/ \E slot \in Cards \cup {None} : Hover(slot)
    \/ ThresholdPasses
    \/ \E m \in Msgs : Deliver(m)

Spec == Init /\ [][Next]_vars

-----------------------------------------------------------------------------
(* PROPERTIES                                                              *)

(* The focus is on a card that is there or on the dot of another page, and *)
(* Tab's search for the next such slot always comes to an end: the command *)
(* that blurs it asks for a service that exists, and Enter on it does      *)
(* something.  A project without services is left out, and there the       *)
(* search does not end.                                                    *)
FocusUsable == numServices > 0 => ~Skipped(focus) /\ ~looping

(* What is hovered is a card that is there, or one dot, not both: the      *)
(* command that unhovers it asks for a service that exists.                *)
HoverUsable == (hovered = None \/ SlotHasCard(hovered)) /\ (hovered = None \/ dot = None)

(* When the user has waited for each answer, cards and dashboard agree     *)
(* with the slots however the messages of one step are ordered: the        *)
(* focused card alone is focused, the hovered card alone is hovered, and   *)
(* the card last focused is the selected service.  A single service is     *)
(* left out: Tab comes back to its card, and blurs it after the focus if   *)
(* the messages arrive in that order.                                      *)
CardsAgree ==
    Waiting = {} /\ ~raced /\ numServices # 1 =>
        /\ focused = {CardServiceName(slot) : slot \in Cards \cap {focus}}
        /\ lit = {CardServiceName(slot) : slot \in Cards \cap {hovered}}
        /\ SlotHasCard(focus) => selected = CardServiceName(focus)

(* A service is toggled by Enter, which is no click, or by a click on the  *)
(* service clicked on before, whatever page was shown in between.          *)
DoubleClickSame ==
    [][\A s \in Services :
           inbox'[Msg("Toggle", s)] > inbox[Msg("Toggle", s)] => hit' = hit]_vars
=============================================================================
