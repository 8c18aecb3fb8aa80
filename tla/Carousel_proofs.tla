-------------------------- MODULE Carousel_proofs --------------------------
(***************************************************************************)
(* Proofs about Carousel, for every project and page size.                 *)
(*                                                                         *)
(* FocusUsable and HoverUsable are inductive once the page is known to be  *)
(* one of the paginator's and the focus to be no negative number: a page   *)
(* of the paginator has a card, so that the focus can rest on the first of *)
(* them when the cards are made anew, also by Enter on a dot.              *)
(*                                                                         *)
(* A double click toggles the service of the first click, and what cards   *)
(* and dashboard are told last is what the slots say.                      *)
(*                                                                         *)
(* And about what the dashboard shows of the service the carousel selects  *)
(* (Inspector), for any number of services and containers.                 *)
(***************************************************************************)
EXTENDS Carousel, Inspector, TLAPS

SlotsInv ==
    /\ numServices \in Nat
    /\ page \in 0..(TotalPages - 1)
    /\ focus \in Nat
    /\ FocusUsable
    /\ HoverUsable

(* Every page the paginator has holds a card, if there is a service.       *)
LEMMA PagesHoldCards ==
    ASSUME numServices \in Nat \ {0}, NEW p \in 0..(TotalPages - 1)
    PROVE  CardsOn(p) \in Nat \ {0}
<1> USE Sizes
<1> DEFINE q == (numServices + PageSize - 1) \div PageSize
<1>1. q \in Nat /\ q * PageSize =< numServices + PageSize - 1
  OBVIOUS
<1>2. p \in Nat /\ p + 1 =< q
  BY <1>1 DEF TotalPages
<1>3. (p + 1) * PageSize =< q * PageSize
  BY <1>1, <1>2
<1>4. p * PageSize =< numServices - 1
  BY <1>1, <1>2, <1>3
<1> QED
  BY <1>2, <1>4 DEF CardsOn

LEMMA PagesExist ==
    ASSUME numServices \in Nat
    PROVE  /\ TotalPages \in Nat \ {0} /\ DotCount \in Nat
           /\ Dots \subseteq 0..(TotalPages - 1)
<1>1. CASE numServices = 0
  BY <1>1, Sizes DEF TotalPages, DotCount, Dots
<1>2. CASE numServices > 0
  <2>1. (numServices + PageSize - 1) \div PageSize \in Nat \ {0}
    BY <1>2, Sizes
  <2> QED
    BY <1>2, <2>1 DEF TotalPages, DotCount, Dots
<1> QED
  BY <1>1, <1>2

(* The pages and slots are those of the project, which stays as it is.     *)
LEMMA SameProject ==
    ASSUME UNCHANGED numServices
    PROVE  UNCHANGED TotalPages /\ UNCHANGED DotCount
BY DEF TotalPages, DotCount

(* Tab and Shift+Tab step from slot to slot.                               *)
LEMMA StepsAreSlots ==
    ASSUME numServices \in Nat, focus \in Nat,
           NEW k \in 1..TotalSlots, NEW direction \in {1, -1}
    PROVE  Step(k, direction) \in Nat
<1>1. TotalSlots \in Nat \ {0}
  BY PagesExist, Sizes DEF TotalSlots
<1>2. focus + k * direction \in Int
  BY <1>1
<1> QED
  BY <1>1, <1>2 DEF Step

(* Whatever page is turned to, the focus finds a card there.               *)
LEMMA RebuildKeeps ==
    ASSUME numServices \in Nat, NEW p \in 0..(TotalPages - 1), RebuildCards(p)
    PROVE  SlotsInv'
<1>1. page' = p /\ hovered' = None /\ focus' \in Nat /\ UNCHANGED numServices
  BY PagesExist DEF RebuildCards
<1>0. ~looping'
  BY DEF RebuildCards, Input
<1>2. page' \in 0..(TotalPages' - 1)
  BY <1>1, SameProject
<1>3. ASSUME numServices > 0 PROVE ~Skipped(focus)'
  <2>1. CardsOn(p) \in Nat \ {0}
    BY <1>3, PagesHoldCards
  <2>2. focus' = DotCount
    BY <2>1 DEF RebuildCards
  <2>3. CardsOn(page)' = CardsOn(p)
    BY <1>1 DEF CardsOn
  <2> QED
    BY <1>1, <2>1, <2>2, <2>3, PagesExist, SameProject DEF Skipped, SlotHasCard
<1> QED
  BY <1>0, <1>1, <1>2, <1>3 DEF SlotsInv, FocusUsable, HoverUsable

LEMMA InitSlots == Init => SlotsInv
<1> SUFFICES ASSUME Init PROVE SlotsInv
  OBVIOUS
<1> numServices \in Nat
  BY Sizes DEF Init
<1>1. page = 0 /\ hovered = None /\ focus \in Nat /\ ~looping
  BY PagesExist DEF Init
<1>2. page \in 0..(TotalPages - 1)
  BY <1>1, PagesExist
<1>3. ASSUME numServices > 0 PROVE ~Skipped(focus)
  <2>1. CardsOn(page) \in Nat \ {0}
    BY <1>2, <1>3, PagesHoldCards
  <2>2. focus = DotCount
    BY <1>3 DEF Init
  <2> QED
    BY <2>1, <2>2, PagesExist DEF Skipped, SlotHasCard
<1> QED
  BY <1>1, <1>2, <1>3 DEF SlotsInv, FocusUsable, HoverUsable

(* A step that leaves the page alone and the focus on a usable slot.       *)
LEMMA SamePage ==
    ASSUME SlotsInv, UNCHANGED <<numServices, page, looping>>, HoverUsable',
           focus' = focus \/ (focus' \in Nat /\ ~Skipped(focus'))
    PROVE  SlotsInv'
BY DEF SlotsInv, FocusUsable, Skipped, SlotHasCard, CardsOn, DotCount, TotalPages

(* A step that leaves the hovered slot and the dot alone as well.          *)
LEMMA SameHover ==
    ASSUME HoverUsable, UNCHANGED <<numServices, page, hovered, dot>>
    PROVE  HoverUsable'
BY DEF HoverUsable, SlotHasCard, CardsOn, DotCount, TotalPages

(* Where there is a service the page shown has a card for Tab to stop at.  *)
LEMMA TabStops ==
    ASSUME SlotsInv, numServices > 0
    PROVE  \E slot \in Slots : ~Skipped(slot)
<1>1. CardsOn(page) \in Nat \ {0}
  BY PagesHoldCards DEF SlotsInv
<1>2. DotCount \in Nat
  BY PagesExist DEF SlotsInv
<1>3. DotCount \in Slots /\ ~Skipped(DotCount)
  BY <1>1, <1>2, Sizes DEF Slots, TotalSlots, Skipped, SlotHasCard
<1> QED
  BY <1>3

LEMMA NextSlots == SlotsInv /\ [Next]_vars => SlotsInv'
<1> SUFFICES ASSUME SlotsInv, [Next]_vars PROVE SlotsInv'
  OBVIOUS
<1> numServices \in Nat /\ focus \in Nat /\ HoverUsable
  BY DEF SlotsInv
<1>0. ASSUME UNCHANGED <<numServices, slots, looping>> PROVE SlotsInv'
  BY <1>0, SamePage, SameHover DEF slots
<1>1. ASSUME NEW slot \in Nat, ~Skipped(slot), MoveFocus(slot) PROVE SlotsInv'
  BY <1>1, SamePage, SameHover DEF MoveFocus
<1>2. CASE HandleTab
  <2>1. ASSUME NEW k \in 1..TotalSlots, Reaches(k, 1), MoveFocus(Step(k, 1))
        PROVE  SlotsInv'
    BY <1>1, <2>1, StepsAreSlots DEF Reaches
  <2>2. CASE (\A slot \in Slots : Skipped(slot)) /\ UNCHANGED <<numServices, slots>>
    <3>1. numServices = 0
      BY <2>2, TabStops
    <3> QED
      BY <2>2, <3>1, SameHover
         DEF slots, SlotsInv, FocusUsable, TotalPages, HoverUsable
  <2> QED
    BY <1>2, <2>1, <2>2 DEF HandleTab
<1>3. CASE HandleShiftTab
  BY <1>1, <1>3, StepsAreSlots DEF HandleShiftTab, Reaches
<1>4. CASE PgUp
  BY <1>4, RebuildKeeps, PagesExist DEF PgUp, SlotsInv
<1>5. CASE PgDown
  BY <1>5, RebuildKeeps, PagesExist DEF PgDown, SlotsInv
<1>6. CASE HandleEnter
  <2>1. CASE focus < DotCount /\ RebuildCards(focus)
    <3>1. focus \in 0..(TotalPages - 1)
      BY <2>1, PagesExist DEF DotCount
    <3> QED
      BY <2>1, <3>1, RebuildKeeps
  <2> QED
    BY <1>0, <1>6, <2>1 DEF HandleEnter
<1>7. ASSUME NEW p \in Dots, ClickDot(p) PROVE SlotsInv'
  BY <1>7, RebuildKeeps, PagesExist DEF ClickDot
<1>8. ASSUME NEW p \in Dots, HoverDot(p) PROVE SlotsInv'
  BY <1>8, SamePage DEF HoverDot, HoverUsable
<1>9. ASSUME NEW slot \in Cards, HandleCardClick(slot) PROVE SlotsInv'
  <2>1. slot \in Nat /\ ~Skipped(slot)
    BY PagesExist DEF Cards, Slots, TotalSlots, Skipped, SlotHasCard
  <2>2. focus' = slot /\ UNCHANGED <<numServices, page, hovered, dot, looping>>
    BY <1>9 DEF HandleCardClick
  <2> QED
    BY <2>1, <2>2, SamePage, SameHover
<1>10. ASSUME NEW slot \in Cards \cup {None}, Hover(slot) PROVE SlotsInv'
  <2>1. /\ hovered' = slot /\ dot' = None
        /\ UNCHANGED <<numServices, page, focus, looping>>
    BY <1>10 DEF Hover
  <2>2. slot = None \/ SlotHasCard(slot)
    BY DEF Cards
  <2>3. HoverUsable'
    BY <2>1, <2>2 DEF HoverUsable, SlotHasCard, CardsOn, DotCount, TotalPages
  <2> QED
    BY <2>1, <2>3, SamePage
<1>11. CASE ThresholdPasses
  BY <1>11, SamePage, SameHover DEF ThresholdPasses
<1>12. ASSUME NEW m \in Msgs, Deliver(m) PROVE SlotsInv'
  BY <1>0, <1>12 DEF Deliver
<1>13. CASE TabLoops \/ UNCHANGED vars
  BY <1>0, <1>13 DEF TabLoops, vars
<1> QED
  BY <1>2, <1>3, <1>4, <1>5, <1>6, <1>7, <1>8, <1>9, <1>10, <1>11, <1>12, <1>13 DEF Next

(* The focus is never on the dot of the page shown or on an empty place,   *)
(* and Tab always finds a slot, for every project with a service and every *)
(* page size: blurring and entering never ask cardServiceName for a card   *)
(* that is not there (carousel.go:197-213).                                *)
THEOREM FocusNeverLost == Spec => []FocusUsable
<1>1. SlotsInv => FocusUsable
  BY DEF SlotsInv
<1> QED
  BY <1>1, InitSlots, NextSlots, PTL DEF Spec

(* The hovered slot always has a card, for every project and every page    *)
(* size: unhovering never asks for a card that is not there.               *)
THEOREM HoverNeverStale == Spec => []HoverUsable
<1>1. SlotsInv => HoverUsable
  BY DEF SlotsInv
<1> QED
  BY <1>1, InitSlots, NextSlots, PTL DEF Spec

-----------------------------------------------------------------------------
(* TYPES                                                                   *)

(* Messages are about services of the project.                             *)
Known(ms) == \A m \in ms : m \in Msgs /\ m.service \in Services

InboxOK ==
    /\ inbox \in [Msgs -> Nat]
    /\ \A m \in Msgs : inbox[m] > 0 => m.service \in Services

PlacesOK ==
    /\ focus \in Slots
    /\ hovered \in Slots \cup {None}
    /\ dot \in Dots \cup {None}
    /\ clicked \in 0..(PageSize - 1) \cup {None}

CardsOK ==
    /\ focused \subseteq Services /\ lit \subseteq Services
    /\ selected \in Services \cup {None}
    /\ hit \in Services \cup {None}

FlagsOK == recent \in BOOLEAN /\ looping \in BOOLEAN /\ raced \in BOOLEAN

CarouselInv ==
    /\ numServices \in 0..MaxServices
    /\ SlotsInv /\ InboxOK /\ PlacesOK /\ CardsOK /\ FlagsOK

LEMMA CarouselTyped == CarouselInv => TypeOK
BY DEF CarouselInv, SlotsInv, InboxOK, PlacesOK, CardsOK, FlagsOK, TypeOK

(* The card in a slot is a service's.                                      *)
LEMMA CardsHaveServices ==
    ASSUME SlotsInv, NEW slot \in Int, SlotHasCard(slot)
    PROVE  /\ CardServiceName(slot) \in Services
           /\ slot \in Slots /\ slot - DotCount \in 0..(PageSize - 1)
<1> numServices \in Nat /\ page \in Nat /\ DotCount \in Nat /\ TotalPages \in Nat
  BY PagesExist DEF SlotsInv
<1>1. /\ slot - DotCount \in Nat /\ slot - DotCount < CardsOn(page)
  BY DEF SlotHasCard
<1>2. page * PageSize \in Nat
  BY Sizes
<1>3. CardsOn(page) =< PageSize /\ page * PageSize + CardsOn(page) =< numServices
  BY <1>2, Sizes DEF CardsOn
<1>4. page * PageSize + (slot - DotCount) \in 0..(numServices - 1)
  <2> DEFINE first == page * PageSize
             i == slot - DotCount
             n == CardsOn(page)
  <2>1. first \in Nat /\ i \in Nat /\ i < n /\ first + n =< numServices /\ n \in Int
    BY <1>1, <1>2, <1>3, Sizes DEF CardsOn
  <2> HIDE DEF first, i, n
  <2>2. first + i \in 0..(numServices - 1)
    BY <2>1
  <2> QED
    BY <2>2 DEF first, i
<1>5. CardServiceName(slot) \in Services
  BY <1>4, Zenon DEF CardServiceName, Services
<1>6. CardsOn(page) \in Int
  BY <1>2, Sizes DEF CardsOn
<1>7. slot - DotCount \in 0..(PageSize - 1) /\ slot \in 0..((DotCount + PageSize) - 1)
  <2> DEFINE n == CardsOn(page)
             d == DotCount
  <2>1. d \in Nat /\ n \in Int /\ slot - d \in Nat /\ slot - d < n /\ n =< PageSize
    BY <1>1, <1>3, <1>6
  <2> HIDE DEF n, d
  <2>2. slot - d \in 0..(PageSize - 1) /\ slot \in 0..((d + PageSize) - 1)
    BY <2>1, Sizes
  <2> QED
    BY <2>2 DEF d
<1>8. Slots = 0..((DotCount + PageSize) - 1)
  BY Zenon DEF Slots, TotalSlots
<1>9. slot \in Slots
  BY <1>7, <1>8, Zenon
<1> QED
  BY <1>5, <1>7, <1>9, Zenon

LEMMA MsgsKnown ==
    ASSUME numServices \in 0..MaxServices, NEW kind \in Kinds, NEW s \in Services
    PROVE  Known({Msg(kind, s)})
BY Sizes DEF Known, Msgs, Msg, Services

LEMMA MovesKnown ==
    ASSUME numServices \in 0..MaxServices, SlotsInv, NEW slot \in Int
    PROVE  Known(Blurred(slot)) /\ Known(Entered(slot))
<1>1. CASE SlotHasCard(slot)
  <2>1. CardServiceName(slot) \in Services
    BY <1>1, CardsHaveServices
  <2> QED
    BY <1>1, <2>1, MsgsKnown DEF Blurred, Entered, Known, Kinds
<1>2. CASE ~SlotHasCard(slot)
  BY <1>2 DEF Blurred, Entered, Known
<1> QED
  BY <1>1, <1>2

LEMMA InputKeeps ==
    ASSUME InboxOK, UNCHANGED numServices, NEW ms, Known(ms), Input(ms)
    PROVE  InboxOK' /\ raced' \in BOOLEAN
<1>1. raced' \in BOOLEAN
  BY Zenon DEF Input
<1>2. inbox' = [m \in Msgs |-> inbox[m] + IF m \in ms THEN 1 ELSE 0]
  BY Zenon DEF Input
<1>3. Msgs' = Msgs /\ Services' = Services
  BY DEF Msgs, Services
<1>4. inbox' \in [Msgs -> Nat]
  BY <1>2 DEF InboxOK
<1>5. ASSUME NEW m \in Msgs, inbox'[m] > 0 PROVE m.service \in Services
  BY <1>2, <1>5 DEF InboxOK, Known
<1> QED
  BY <1>1, <1>3, <1>4, <1>5 DEF InboxOK

(* Slots, dots and services are those of the project.                      *)
LEMMA SameSlots ==
    ASSUME UNCHANGED numServices
    PROVE  Slots' = Slots /\ Dots' = Dots /\ Services' = Services
BY DEF Slots, Dots, Services, TotalSlots, DotCount, TotalPages

LEMMA RebuildTyped ==
    ASSUME CarouselInv, NEW p \in 0..(TotalPages - 1), RebuildCards(p)
    PROVE  CarouselInv'
<1> USE DEF CarouselInv
<1> DEFINE ms == IF CardsOn(p) > 0
                   THEN {Msg("Focus", p * PageSize), Msg("Selected", p * PageSize)} ELSE {}
<1> numServices \in Nat
  BY DEF SlotsInv
<1>1. UNCHANGED numServices /\ Input(ms)
  BY Zenon DEF RebuildCards
<1>2. SlotsInv'
  BY RebuildKeeps
<1>3. Known(ms)
  <2>1. CASE CardsOn(p) > 0
    <3>1. p * PageSize \in Services
      BY <2>1, PagesExist, Sizes DEF CardsOn, Services
    <3>2. Known({Msg("Focus", p * PageSize)}) /\ Known({Msg("Selected", p * PageSize)})
      BY <3>1, MsgsKnown DEF Kinds
    <3> QED
      BY <2>1, <3>2 DEF Known
  <2>2. CASE ~(CardsOn(p) > 0)
    BY <2>2 DEF Known
  <2> QED
    BY <2>1, <2>2
<1>4. InboxOK' /\ raced' \in BOOLEAN
  BY <1>1, <1>3, InputKeeps
<1>5. PlacesOK'
  <2>1. focus' \in {0, DotCount} /\ hovered' = None /\ dot' = None /\ clicked' = None
    BY Zenon DEF RebuildCards
  <2>2. 0 \in Slots /\ DotCount \in Slots
    BY PagesExist, Sizes DEF Slots, TotalSlots
  <2> QED
    BY <1>1, <2>1, <2>2, SameSlots, Zenon DEF PlacesOK
<1>6. CardsOK'
  BY <1>1, SameSlots DEF RebuildCards, CardsOK
<1>7. recent' = FALSE /\ looping' = looping
  BY Zenon DEF RebuildCards
<1>8. FlagsOK'
  BY <1>4, <1>7, Zenon DEF FlagsOK
<1> QED
  BY <1>1, <1>2, <1>4, <1>5, <1>6, <1>8, Zenon

(* A step that leaves the pages alone and posts ms.                        *)
LEMMA InputTyped ==
    ASSUME CarouselInv, SlotsInv', PlacesOK', UNCHANGED <<numServices, cards>>,
           NEW ms, Known(ms), Input(ms), hit' \in Services \cup {None},
           recent' \in BOOLEAN, looping' \in BOOLEAN
    PROVE  CarouselInv'
<1>1. InboxOK' /\ raced' \in BOOLEAN
  BY InputKeeps DEF CarouselInv
<1>2. CardsOK'
  BY SameSlots DEF CarouselInv, CardsOK, cards
<1>3. FlagsOK'
  BY <1>1, Zenon DEF FlagsOK
<1>4. numServices' \in 0..MaxServices
  BY Zenon DEF CarouselInv
<1> QED
  BY <1>1, <1>2, <1>3, <1>4, Zenon DEF CarouselInv

LEMMA MoveTyped ==
    ASSUME CarouselInv, NEW slot \in Slots, SlotsInv', MoveFocus(slot)
    PROVE  CarouselInv'
<1> slot \in Int /\ focus \in Int
  BY DEF Slots, CarouselInv, SlotsInv
<1> DEFINE ms == Blurred(focus) \cup Entered(slot)
<1>1. /\ Input(ms) /\ focus' = slot
      /\ UNCHANGED <<numServices, hovered, dot, clicked, recent, cards, looping, hit>>
  BY Zenon DEF MoveFocus
<1>2. Known(ms)
  <2>1. Known(Blurred(focus)) /\ Known(Entered(slot))
    BY MovesKnown DEF CarouselInv
  <2> QED
    BY <2>1, Zenon DEF Known
<1>3. PlacesOK'
  BY <1>1, SameSlots, Zenon DEF CarouselInv, PlacesOK
<1>4. hit' \in Services \cup {None}
  BY <1>1, Zenon DEF CarouselInv, CardsOK
<1>5. recent' \in BOOLEAN /\ looping' \in BOOLEAN
  BY <1>1, Zenon DEF CarouselInv, FlagsOK
<1> QED
  BY <1>1, <1>2, <1>3, <1>4, <1>5, InputTyped

(* A step that moves no slot.                                              *)
LEMMA StayTyped ==
    ASSUME CarouselInv, SlotsInv', UNCHANGED <<numServices, slots, cards, hit>>,
           NEW ms, Known(ms), Input(ms), looping' \in BOOLEAN
    PROVE  CarouselInv'
<1>1. PlacesOK'
  BY SameSlots, Zenon DEF CarouselInv, PlacesOK, slots
<1>2. hit' \in Services \cup {None}
  BY Zenon DEF CarouselInv, CardsOK
<1>3. recent' \in BOOLEAN
  BY Zenon DEF CarouselInv, FlagsOK, slots
<1> QED
  BY <1>1, <1>2, <1>3, InputTyped

LEMMA UnhoveredKnown == ASSUME CarouselInv PROVE Known(Unhovered)
<1> DotCount \in Nat
  BY PagesExist DEF CarouselInv, SlotsInv
<1>1. CASE hovered >= DotCount
  <2>1. hovered \in Int /\ SlotHasCard(hovered)
    BY <1>1 DEF CarouselInv, SlotsInv, PlacesOK, HoverUsable, Slots, None
  <2>2. CardServiceName(hovered) \in Services
    BY <2>1, CardsHaveServices DEF CarouselInv
  <2> QED
    BY <1>1, <2>2, MsgsKnown DEF Unhovered, CarouselInv, Kinds
<1>2. CASE ~(hovered >= DotCount)
  BY <1>2 DEF Unhovered, Known
<1> QED
  BY <1>1, <1>2

LEMMA EmptyKnown == Known({})
BY DEF Known

LEMMA TypedNext == CarouselInv /\ [Next]_vars => CarouselInv'
<1> SUFFICES ASSUME CarouselInv, [Next]_vars PROVE CarouselInv'
  OBVIOUS
<1> SlotsInv'
  BY NextSlots DEF CarouselInv
<1> /\ numServices \in Nat /\ focus \in Int /\ DotCount \in Nat /\ TotalPages \in Nat \ {0}
    /\ page \in 0..(TotalPages - 1) /\ FocusUsable
  BY PagesExist DEF CarouselInv, SlotsInv
<1> looping \in BOOLEAN /\ recent \in BOOLEAN /\ hit \in Services \cup {None}
  BY DEF CarouselInv, FlagsOK, CardsOK
<1> PlacesOK
  BY DEF CarouselInv
<1>0. ASSUME NEW k \in Nat, NEW d \in {1, -1} PROVE Step(k, d) \in Slots
  <2>1. TotalSlots \in Nat \ {0} /\ focus + k * d \in Int
    BY Sizes DEF TotalSlots
  <2> QED
    BY <2>1 DEF Step, Slots
<1>1. CASE HandleTab
  <2>1. CASE \E k \in 1..TotalSlots : MoveFocus(Step(k, 1))
    <3>1. PICK k \in 1..TotalSlots : MoveFocus(Step(k, 1))
      BY <2>1
    <3> QED
      BY <1>0, <3>1, MoveTyped
  <2>2. CASE looping' = TRUE /\ Input({}) /\ UNCHANGED <<numServices, slots, cards, hit>>
    BY <2>2, EmptyKnown, StayTyped
  <2> QED
    BY <1>1, <2>1, <2>2, Zenon DEF HandleTab
<1>2. CASE HandleShiftTab
  <2>1. PICK k \in 1..TotalSlots : MoveFocus(Step(k, -1))
    BY <1>2 DEF HandleShiftTab
  <2> QED
    BY <1>0, <2>1, MoveTyped
<1>3. CASE PgUp
  BY <1>3, RebuildTyped DEF PgUp
<1>4. CASE PgDown
  BY <1>4, RebuildTyped DEF PgDown
<1>5. CASE HandleEnter
  <2>1. CASE focus < DotCount /\ RebuildCards(focus)
    <3>1. focus \in 0..(TotalPages - 1)
      BY <2>1 DEF DotCount, PlacesOK, Slots
    <3> QED
      BY <2>1, <3>1, RebuildTyped
  <2>2. CASE /\ SlotHasCard(focus)
             /\ Input({Msg("Toggle", CardServiceName(focus))})
             /\ UNCHANGED <<numServices, slots, cards, looping, hit>>
    <3>1. CardServiceName(focus) \in Services
      BY <2>2, CardsHaveServices DEF CarouselInv
    <3>2. Known({Msg("Toggle", CardServiceName(focus))})
      BY <3>1, MsgsKnown DEF CarouselInv, Kinds
    <3>3. looping' \in BOOLEAN /\ UNCHANGED <<numServices, slots, cards, hit>>
      BY <2>2, Zenon
    <3> QED
      BY <2>2, <3>2, <3>3, StayTyped
  <2> QED
    BY <1>5, <2>1, <2>2, Zenon DEF HandleEnter
<1>6. ASSUME NEW p \in Dots, ClickDot(p) PROVE CarouselInv'
  BY <1>6, RebuildTyped, PagesExist DEF ClickDot
<1>7. ASSUME NEW p \in Dots, HoverDot(p) PROVE CarouselInv'
  <2>1. /\ Input(Unhovered) /\ dot' = p /\ hovered' = None
        /\ UNCHANGED <<numServices, focus, clicked, recent, cards, looping, hit>>
    BY <1>7, Zenon DEF HoverDot
  <2>2. PlacesOK'
    BY <2>1, SameSlots, Zenon DEF PlacesOK
  <2>3. recent' \in BOOLEAN /\ looping' \in BOOLEAN /\ hit' \in Services \cup {None}
    BY <2>1, Zenon
  <2> QED
    BY <2>1, <2>2, <2>3, UnhoveredKnown, InputTyped
<1>8. ASSUME NEW slot \in Cards, HandleCardClick(slot) PROVE CarouselInv'
  <2>1. slot \in Int /\ SlotHasCard(slot) /\ slot \in Slots
    BY DEF Cards, Slots
  <2>2. CardServiceName(slot) \in Services /\ slot - DotCount \in 0..(PageSize - 1)
    BY <2>1, CardsHaveServices DEF CarouselInv
  <2>3. /\ focus' = slot /\ hit' = CardServiceName(slot)
        /\ clicked' \in {clicked, slot - DotCount} /\ recent' \in {recent, TRUE}
        /\ UNCHANGED <<numServices, hovered, dot, cards, looping>>
    BY <1>8, Zenon DEF HandleCardClick
  <2>4. PlacesOK'
    BY <2>1, <2>2, <2>3, SameSlots, Zenon DEF PlacesOK
  <2>5. \E ms : Known(ms) /\ Input(ms)
    <3>1. Known({Msg("Toggle", CardServiceName(slot))}) /\ Known(Entered(slot))
      BY <2>1, <2>2, MsgsKnown, MovesKnown DEF CarouselInv, Kinds
    <3> DEFINE left == IF focus >= DotCount THEN {Msg("Blur", CardServiceName(focus))} ELSE {}
    <3>2. Known(left)
      <4>1. CASE focus >= DotCount
        <5>1. numServices > 0
          BY <2>2 DEF Services
        <5>2. SlotHasCard(focus)
          BY <4>1, <5>1 DEF FocusUsable, Skipped
        <5>3. CardServiceName(focus) \in Services
          BY <5>2, CardsHaveServices DEF CarouselInv
        <5> QED
          BY <4>1, <5>3, MsgsKnown DEF CarouselInv, Kinds
      <4>2. CASE ~(focus >= DotCount)
        BY <4>2, EmptyKnown
      <4> QED
        BY <4>1, <4>2
    <3>3. Known(Entered(slot) \cup left)
      BY <3>1, <3>2, Zenon DEF Known
    <3>4. \/ Input({Msg("Toggle", CardServiceName(slot))}) \/ Input({})
          \/ Input(Entered(slot) \cup left)
      BY <1>8, Zenon DEF HandleCardClick
    <3> QED
      BY <3>1, <3>3, <3>4, EmptyKnown, Zenon
  <2>6. recent' \in BOOLEAN /\ looping' \in BOOLEAN /\ hit' \in Services \cup {None}
    BY <2>2, <2>3, Zenon
  <2> QED
    BY <2>3, <2>4, <2>5, <2>6, InputTyped
<1>9. ASSUME NEW slot \in Cards \cup {None}, Hover(slot) PROVE CarouselInv'
  <2>1. /\ dot' = None /\ hovered' = slot
        /\ UNCHANGED <<numServices, focus, clicked, recent, cards, looping, hit>>
    BY <1>9, Zenon DEF Hover
  <2>2. PlacesOK'
    BY <2>1, SameSlots, Zenon DEF PlacesOK, Cards
  <2>3. PICK ms : Known(ms) /\ Input(ms)
    <3> DEFINE entered == IF slot = None THEN {} ELSE {Msg("Hover", CardServiceName(slot))}
    <3>1. Known(entered)
      <4>1. CASE slot = None
        BY <4>1, EmptyKnown
      <4>2. CASE slot # None
        <5>1. slot \in Int /\ SlotHasCard(slot)
          BY <4>2 DEF Cards, Slots
        <5>2. CardServiceName(slot) \in Services
          BY <5>1, CardsHaveServices DEF CarouselInv
        <5> QED
          BY <4>2, <5>2, MsgsKnown DEF CarouselInv, Kinds
      <4> QED
        BY <4>1, <4>2
    <3>2. Known(Unhovered \cup entered)
      BY <3>1, UnhoveredKnown, Zenon DEF Known
    <3>3. Input({}) \/ Input(Unhovered \cup entered)
      BY <1>9, Zenon DEF Hover
    <3> QED
      BY <3>2, <3>3, EmptyKnown, Zenon
  <2>4. recent' \in BOOLEAN /\ looping' \in BOOLEAN /\ hit' \in Services \cup {None}
    BY <2>1, Zenon
  <2> QED
    BY <2>1, <2>2, <2>3, <2>4, InputTyped
<1>10. CASE ThresholdPasses
  <2>1. /\ UNCHANGED <<numServices, focus, hovered, dot, clicked, cards, inbox, looping, hit, raced>>
        /\ recent' = FALSE
    BY <1>10, Zenon DEF ThresholdPasses
  <2>2. PlacesOK'
    BY <2>1, SameSlots, Zenon DEF PlacesOK
  <2>3. FlagsOK'
    BY <2>1, Zenon DEF CarouselInv, FlagsOK
  <2>4. CardsOK'
    BY <2>1, SameSlots DEF CarouselInv, CardsOK, cards
  <2>5. InboxOK' /\ numServices' \in 0..MaxServices
    BY <2>1, SameSlots DEF CarouselInv, InboxOK, Msgs
  <2> QED
    BY <2>2, <2>3, <2>4, <2>5, Zenon DEF CarouselInv
<1>11. ASSUME NEW m \in Msgs, Deliver(m) PROVE CarouselInv'
  <2>1. UNCHANGED <<numServices, slots, looping, hit, raced>>
    BY <1>11, Zenon DEF Deliver
  <2>2. m.service \in Services
    BY <1>11 DEF Deliver, CarouselInv, InboxOK
  <2>3. PlacesOK'
    BY <2>1, SameSlots, Zenon DEF PlacesOK, slots
  <2>4. FlagsOK'
    BY <2>1, Zenon DEF CarouselInv, FlagsOK, slots
  <2>5. /\ focused' \subseteq focused \cup {m.service}
        /\ lit' \subseteq lit \cup {m.service}
        /\ selected' \in {selected, m.service}
    BY <1>11, Zenon DEF Deliver
  <2>6. CardsOK'
    BY <2>1, <2>2, <2>5, SameSlots, Zenon DEF CarouselInv, CardsOK
  <2>7. InboxOK'
    <3>1. /\ inbox[m] > 0 /\ inbox' = [inbox EXCEPT ![m] = @ - 1]
          /\ Msgs' = Msgs /\ Services' = Services
      BY <1>11, SameSlots DEF Deliver, Msgs
    <3> QED
      BY <3>1 DEF CarouselInv, InboxOK
  <2>8. numServices' \in 0..MaxServices
    BY <2>1, Zenon DEF CarouselInv
  <2> QED
    BY <2>3, <2>4, <2>6, <2>7, <2>8, Zenon DEF CarouselInv
<1>12. CASE TabLoops \/ UNCHANGED vars
  <2>1. UNCHANGED vars
    BY <1>12, Zenon DEF TabLoops
  <2> QED
    BY <2>1, SameSlots
      DEF vars, slots, cards, CarouselInv, PlacesOK, CardsOK, FlagsOK, InboxOK, Msgs
<1> QED
  BY <1>1, <1>2, <1>3, <1>4, <1>5, <1>6, <1>7, <1>8, <1>9, <1>10, <1>11, <1>12 DEF Next

LEMMA TypedInit == Init => CarouselInv
<1> SUFFICES ASSUME Init PROVE CarouselInv
  OBVIOUS
<1>1. numServices \in 0..MaxServices /\ numServices \in Nat
  BY Sizes DEF Init
<1>2. SlotsInv
  BY InitSlots
<1>3. PlacesOK
  <2>1. focus \in {0, DotCount} /\ hovered = None /\ dot = None /\ clicked = None
    BY Zenon DEF Init
  <2>2. 0 \in Slots /\ DotCount \in Slots
    BY <1>1, PagesExist, Sizes DEF Slots, TotalSlots
  <2> QED
    BY <2>1, <2>2, Zenon DEF PlacesOK
<1>4. CardsOK
  BY <1>1 DEF Init, CardsOK, Services
<1>5. FlagsOK
  BY Zenon DEF Init, FlagsOK
<1>6. InboxOK
  BY <1>1 DEF Init, InboxOK, Posted, Msg, Services
<1> QED
  BY <1>1, <1>2, <1>3, <1>4, <1>5, <1>6, Zenon DEF CarouselInv

(* Every slot the carousel names is one of its slots, every card focused,  *)
(* lit or selected and every message on its way is of a service of the     *)
(* project, for every project and every page size.                         *)
THEOREM ServicesNamed == Spec => []TypeOK
BY CarouselTyped, TypedInit, TypedNext, PTL DEF Spec

-----------------------------------------------------------------------------
(* DOUBLE CLICKS                                                           *)

(* The last click was on the card at its place on this page: a page turned *)
(* forgets it.                                                             *)
ClickedIsHit == clicked # None => hit = page * PageSize + clicked

LEMMA ClickedIsHitNext == CarouselInv /\ ClickedIsHit /\ [Next]_vars => ClickedIsHit'
<1> SUFFICES ASSUME CarouselInv, ClickedIsHit, [Next]_vars PROVE ClickedIsHit'
  OBVIOUS
<1> USE DEF ClickedIsHit
<1>1. ASSUME NEW p, RebuildCards(p) PROVE ClickedIsHit'
  BY <1>1, Zenon DEF RebuildCards
<1>2. ASSUME NEW slot \in Cards, HandleCardClick(slot) PROVE ClickedIsHit'
  <2>1. hit' = page * PageSize + (slot - DotCount) /\ page' = page
    BY <1>2, Zenon DEF HandleCardClick, CardServiceName
  <2>2. clicked' = slot - DotCount
    BY <1>2, Zenon DEF HandleCardClick
  <2> QED
    BY <2>1, <2>2, Zenon
<1>3. CASE UNCHANGED <<page, clicked, hit>>
  BY <1>3, Zenon
<1>4. CASE HandleTab
  BY <1>3, <1>4, Zenon DEF HandleTab, MoveFocus, slots
<1>5. CASE HandleShiftTab
  BY <1>3, <1>5, Zenon DEF HandleShiftTab, MoveFocus
<1>6. CASE PgUp \/ PgDown
  BY <1>1, <1>6, Zenon DEF PgUp, PgDown
<1>7. CASE HandleEnter
  BY <1>1, <1>3, <1>7, Zenon DEF HandleEnter, slots
<1>8. ASSUME NEW p \in Dots, ClickDot(p) \/ HoverDot(p) PROVE ClickedIsHit'
  BY <1>1, <1>3, <1>8, Zenon DEF ClickDot, HoverDot
<1>9. ASSUME NEW slot \in Cards \cup {None}, Hover(slot) PROVE ClickedIsHit'
  BY <1>3, <1>9, Zenon DEF Hover
<1>10. ASSUME NEW m \in Msgs, Deliver(m) PROVE ClickedIsHit'
  BY <1>3, <1>10, Zenon DEF Deliver, slots
<1>11. CASE ThresholdPasses \/ TabLoops \/ UNCHANGED vars
  BY <1>3, <1>11, Zenon DEF ThresholdPasses, TabLoops, vars, slots
<1> QED
  BY <1>2, <1>4, <1>5, <1>6, <1>7, <1>8, <1>9, <1>10, <1>11, Zenon DEF Next

(* A step that posts no toggle.                                            *)
LEMMA NotToggled ==
    ASSUME InboxOK, NEW s \in Services, numServices \in 0..MaxServices,
           NEW ms, Msg("Toggle", s) \notin ms, Input(ms)
    PROVE  ~(inbox'[Msg("Toggle", s)] > inbox[Msg("Toggle", s)])
<1> DEFINE m == Msg("Toggle", s)
<1>1. m \in Msgs
  BY Sizes DEF Msgs, Msg, Services, Kinds
<1>2. inbox'[m] = inbox[m] + 0
  BY <1>1, Zenon DEF Input
<1>3. inbox[m] \in Nat
  BY <1>1 DEF InboxOK
<1> QED
  BY <1>2, <1>3

(* The second click of a double click is on the service of the first,      *)
(* whatever pages were turned, whichever cards were made anew in between   *)
(* (carousel.go:336-376, 559-594).                                         *)
THEOREM SameService == Spec => DoubleClickSame
<1>1. ASSUME CarouselInv, ClickedIsHit, NEW slot \in Cards, HandleCardClick(slot),
             NEW s \in Services, inbox'[Msg("Toggle", s)] > inbox[Msg("Toggle", s)]
      PROVE  hit' = hit
  <2> DEFINE idx == slot - DotCount
             left == IF focus >= DotCount THEN {Msg("Blur", CardServiceName(focus))} ELSE {}
  <2>1. \/ focus = slot /\ idx = clicked
        \/ Input({})
        \/ Input(Entered(slot) \cup left)
    BY <1>1, Zenon DEF HandleCardClick
  <2>2. Msg("Toggle", s) \notin {} /\ Msg("Toggle", s) \notin Entered(slot) \cup left
    BY DEF Msg, Entered
  <2>3. focus = slot /\ idx = clicked
    BY <1>1, <2>1, <2>2, NotToggled DEF CarouselInv
  <2>4. idx \in Nat
    BY <1>1, PagesExist DEF CarouselInv, SlotsInv, Cards, Slots, SlotHasCard
  <2>5. hit = page * PageSize + idx
    BY <1>1, <2>3, <2>4 DEF ClickedIsHit, None
  <2>6. hit' = page * PageSize + idx
    BY <1>1, Zenon DEF HandleCardClick, CardServiceName
  <2> QED
    BY <2>5, <2>6, Zenon
<1>2. ASSUME [Next]_vars, \A slot \in Cards : ~HandleCardClick(slot) PROVE hit' = hit
  <2>1. ASSUME NEW p, RebuildCards(p) PROVE hit' = hit
    BY <2>1, Zenon DEF RebuildCards
  <2>2. CASE HandleTab \/ HandleShiftTab
    BY <2>2, Zenon DEF HandleTab, HandleShiftTab, MoveFocus
  <2>3. CASE HandleEnter \/ PgUp \/ PgDown
    BY <2>1, <2>3, Zenon DEF HandleEnter, PgUp, PgDown
  <2>4. ASSUME NEW p \in Dots, ClickDot(p) \/ HoverDot(p) PROVE hit' = hit
    BY <2>1, <2>4, Zenon DEF ClickDot, HoverDot
  <2>5. ASSUME NEW slot \in Cards \cup {None}, Hover(slot) PROVE hit' = hit
    BY <2>5, Zenon DEF Hover
  <2>6. ASSUME NEW m \in Msgs, Deliver(m) PROVE hit' = hit
    BY <2>6, Zenon DEF Deliver
  <2>7. CASE ThresholdPasses \/ TabLoops \/ UNCHANGED vars
    BY <2>7, Zenon DEF ThresholdPasses, TabLoops, vars
  <2> QED
    BY <1>2, <2>2, <2>3, <2>4, <2>5, <2>6, <2>7, Zenon DEF Next
<1>3. CarouselInv /\ ClickedIsHit /\ [Next]_vars =>
         [\A s \in Services :
             inbox'[Msg("Toggle", s)] > inbox[Msg("Toggle", s)] => hit' = hit]_vars
  BY <1>1, <1>2, Zenon
<1>4. Init => ClickedIsHit
  BY Zenon DEF Init, ClickedIsHit
<1> QED
  BY <1>3, <1>4, TypedInit, TypedNext, ClickedIsHitNext, PTL DEF Spec, DoubleClickSame

-----------------------------------------------------------------------------
(* CARDS AND SLOTS                                                         *)

Waits(kind, s) == Msg(kind, s) \in Waiting
Holds(slot, s) == SlotHasCard(slot) /\ s = CardServiceName(slot)
HoldsFocus(s) == Holds(focus, s)
HoldsHover(s) == Holds(hovered, s)

(* What a service's card has been told and will be: the messages under way *)
(* lead to what the slots say, in whatever order they arrive.              *)
FocusSettles(s) ==
    /\ Waits("Focus", s) => HoldsFocus(s)
    /\ Waits("Blur", s) => ~HoldsFocus(s)
    /\ HoldsFocus(s) => Waits("Focus", s) \/ s \in focused
    /\ s \in focused => HoldsFocus(s) \/ Waits("Blur", s)

HoverSettles(s) ==
    /\ Waits("Hover", s) => HoldsHover(s)
    /\ Waits("Unhover", s) => ~HoldsHover(s)
    /\ HoldsHover(s) => Waits("Hover", s) \/ s \in lit
    /\ s \in lit => HoldsHover(s) \/ Waits("Unhover", s)

SelectionSettles(s) ==
    /\ Waits("Selected", s) => HoldsFocus(s)
    /\ HoldsFocus(s) => Waits("Selected", s) \/ selected = s

Settles ==
    /\ \A m \in Msgs : inbox[m] =< 1
    /\ \A s \in Services : FocusSettles(s) /\ HoverSettles(s) /\ SelectionSettles(s)

AgreeInv == ~raced /\ numServices # 1 => Settles

LEMMA Remainders ==
    ASSUME NEW T \in Nat \ {0}, NEW x \in 0..(T - 1)
    PROVE  x % T = x /\ (x + T) % T = x /\ (x - T) % T = x
<1>1. ASSUME NEW q \in Int, NEW r \in 0..(T - 1) PROVE (q * T + r) % T = r
  OBVIOUS
<1> QED
  BY <1>1

Directions == {1, -1}

Meets(T, f, x, d) == \E j \in 1..(T - 1) : (f + j * d) % T = x

(* A round of the slots, up or down, meets every other slot.               *)
LEMMA RoundTrip ==
    ASSUME NEW T \in Nat \ {0}, NEW f \in 0..(T - 1), NEW x \in 0..(T - 1),
           NEW d \in Directions, x # f
    PROVE  Meets(T, f, x, d)
<1> USE DEF Directions, Meets
<1>1. CASE d = 1 /\ x > f
  <2>1. x - f \in 1..(T - 1) /\ f + (x - f) * d = x
    BY <1>1
  <2> QED
    BY <2>1, Remainders
<1>2. CASE d = 1 /\ x < f
  <2>1. x - f + T \in 1..(T - 1) /\ f + (x - f + T) * d = x + T
    BY <1>2
  <2> QED
    BY <2>1, Remainders
<1>3. CASE d = -1 /\ x < f
  <2>1. f - x \in 1..(T - 1) /\ f + (f - x) * d = x
    BY <1>3
  <2> QED
    BY <2>1, Remainders
<1>4. CASE d = -1 /\ x > f
  <2>1. f - x + T \in 1..(T - 1) /\ f + (f - x + T) * d = x - T
    BY <1>4
  <2> QED
    BY <2>1, Remainders
<1> QED
  BY <1>1, <1>2, <1>3, <1>4

LEMMA NoShortRound ==
    ASSUME NEW T \in Nat \ {0}, NEW f \in 0..(T - 1), NEW k \in 1..(T - 1), NEW d \in Directions
    PROVE  (f + k * d) % T # f
<1> USE DEF Directions
<1>1. CASE d = 1 /\ f + k < T
  <2>1. f + k * d = f + k /\ f + k \in 0..(T - 1)
    BY <1>1
  <2> QED
    BY <2>1, Remainders
<1>2. CASE d = 1 /\ f + k >= T
  <2>1. f + k - T \in 0..(T - 1) /\ f + k * d = (f + k - T) + T /\ f + k - T # f
    BY <1>2
  <2> QED
    BY <2>1, Remainders
<1>3. CASE d = -1 /\ f - k >= 0
  <2>1. f + k * d = f - k /\ f - k \in 0..(T - 1) /\ f - k # f
    BY <1>3
  <2> QED
    BY <2>1, Remainders
<1>4. CASE d = -1 /\ f - k < 0
  <2>1. f - k + T \in 0..(T - 1) /\ f + k * d = (f - k + T) - T /\ f - k + T # f
    BY <1>4
  <2> QED
    BY <2>1, Remainders
<1> QED
  BY <1>1, <1>2, <1>3, <1>4

(* Where there are two services there are two slots for the focus.         *)
LEMMA TwoUsable ==
    ASSUME SlotsInv, numServices > 1
    PROVE  \E x, y \in Slots : x # y /\ ~Skipped(x) /\ ~Skipped(y)
<1>1. /\ numServices \in Nat /\ page \in 0..(TotalPages - 1)
      /\ TotalPages \in Nat \ {0} /\ DotCount \in Nat
  BY PagesExist DEF SlotsInv
<1>2. CardsOn(page) \in Nat \ {0}
  BY <1>1, PagesHoldCards
<1>3. CASE TotalPages > 1
  <2>1. DotCount = TotalPages /\ DotCount > 1
    BY <1>3 DEF DotCount
  <2>2. DotCount \in Slots /\ ~Skipped(DotCount)
    BY <1>1, <1>2, Sizes DEF Slots, TotalSlots, Skipped, SlotHasCard
  <2>3. PICK p \in {0, 1} : p # page
    BY <1>1
  <2>4. p \in Slots /\ p < DotCount /\ ~Skipped(p)
    BY <2>1, <2>3, <1>1, Sizes DEF Slots, TotalSlots, Skipped
  <2> QED
    BY <1>1, <2>1, <2>2, <2>4
<1>4. CASE TotalPages = 1
  <2>1. DotCount = 0 /\ page = 0
    BY <1>1, <1>4 DEF DotCount
  <2>2. (numServices + PageSize - 1) \div PageSize = 1
    BY <1>1, <1>4 DEF TotalPages
  <2>3. numServices =< PageSize
    BY <1>1, <2>2, Sizes
  <2>4. CardsOn(page) >= 2 /\ PageSize >= 2
    BY <1>1, <2>1, <2>3, Sizes DEF CardsOn
  <2>5. 0 \in Slots /\ 1 \in Slots
    BY <2>1, <2>4, Sizes DEF Slots, TotalSlots
  <2>6. ASSUME NEW i \in {0, 1} PROVE ~Skipped(i)
    BY <1>2, <2>1, <2>4 DEF Skipped, SlotHasCard
  <2> QED
    BY <2>5, <2>6
<1> QED
  BY <1>1, <1>3, <1>4

(* Tab leaves the card it is on, unless the project has but one.           *)
LEMMA TabLeaves ==
    ASSUME SlotsInv, focus \in Slots, numServices > 1,
           NEW k \in 1..TotalSlots, NEW d \in Directions, Reaches(k, d)
    PROVE  Step(k, d) # focus
<1>1. TotalSlots \in Nat \ {0} /\ Slots = 0..(TotalSlots - 1)
  BY PagesExist, Sizes DEF TotalSlots, Slots, SlotsInv
<1>2. PICK x \in Slots : x # focus /\ ~Skipped(x)
  BY TwoUsable
<1>3. PICK j \in 1..(TotalSlots - 1) : (focus + j * d) % TotalSlots = x
  <2>1. focus \in 0..(TotalSlots - 1) /\ x \in 0..(TotalSlots - 1)
    BY <1>1
  <2>2. Meets(TotalSlots, focus, x, d)
    BY <1>1, <1>2, <2>1, RoundTrip, Zenon
  <2> QED
    BY <2>2, Zenon DEF Meets
<1>4. ~Skipped(Step(j, d))
  BY <1>2, <1>3, Zenon DEF Step
<1>5. ~(j \in 1..(k - 1))
  BY <1>4, Zenon DEF Reaches
<1>6. k \in 1..(TotalSlots - 1)
  BY <1>1, <1>3, <1>5
<1>7. (focus + k * d) % TotalSlots # focus
  BY <1>1, <1>6, NoShortRound
<1> QED
  BY <1>7, Zenon DEF Step

LEMMA MsgIs ==
    ASSUME NEW kind, NEW s, NEW other, NEW t
    PROVE  Msg(kind, s) = Msg(other, t) <=> kind = other /\ s = t
BY DEF Msg

LEMMA MsgOf ==
    ASSUME numServices \in 0..MaxServices, NEW kind \in Kinds, NEW s \in Services
    PROVE  Msg(kind, s) \in Msgs
BY Sizes DEF Msg, Msgs, Services

(* The messages of a move, by what they say of whom.                       *)
LEMMA MoveMessages ==
    ASSUME NEW slot, NEW kind, NEW s
    PROVE  /\ Msg(kind, s) \in Blurred(slot) <=> kind = "Blur" /\ Holds(slot, s)
           /\ Msg(kind, s) \in Entered(slot) <=> kind \in {"Focus", "Selected"} /\ Holds(slot, s)
<1> DEFINE card == CardServiceName(slot)
<1>1. Msg(kind, s) \in {Msg("Blur", card)} <=> kind = "Blur" /\ s = card
  BY MsgIs
<1>2. Msg(kind, s) \in {Msg("Focus", card), Msg("Selected", card)} <=>
         kind \in {"Focus", "Selected"} /\ s = card
  BY MsgIs
<1>3. CASE SlotHasCard(slot)
  BY <1>1, <1>2, <1>3, Zenon DEF Blurred, Entered, Holds
<1>4. CASE ~SlotHasCard(slot)
  BY <1>4, Zenon DEF Blurred, Entered, Holds
<1> QED
  BY <1>3, <1>4, Zenon

LEMMA OneService ==
    ASSUME SlotsInv, NEW slot \in Int, NEW other \in Int, NEW s,
           Holds(slot, s), Holds(other, s)
    PROVE  slot = other
<1> DEFINE first == page * PageSize
<1>1. first \in Int /\ DotCount \in Int
  BY Sizes, PagesExist DEF SlotsInv
<1>2. first + (slot - DotCount) = first + (other - DotCount)
  BY Zenon DEF Holds, CardServiceName
<1> HIDE DEF first
<1> QED
  BY <1>1, <1>2

(* The card in a slot of the page is on the page.                          *)
LEMMA HeldOnPage ==
    ASSUME SlotsInv, NEW slot \in Int, NEW s, Holds(slot, s)
    PROVE  OnPage(s)
<1>1. slot - DotCount \in 0..(PageSize - 1)
  BY CardsHaveServices DEF Holds
<1>2. page \in Nat
  BY PagesExist DEF SlotsInv
<1>3. ASSUME NEW i \in 0..(PageSize - 1) PROVE (page * PageSize + i) \div PageSize = page
  BY <1>2, Sizes
<1> QED
  BY <1>1, <1>3, Zenon DEF Holds, OnPage, CardServiceName

LEMMA SameCards ==
    ASSUME UNCHANGED <<numServices, page>>
    PROVE  DotCount' = DotCount /\ CardsOn(page)' = CardsOn(page)
BY DEF DotCount, TotalPages, CardsOn

-----------------------------------------------------------------------------
(* Every message has been heard, and the cards are as the slots say.       *)
Quiet ==
    \A s \in Services :
        /\ s \in focused <=> HoldsFocus(s)
        /\ s \in lit <=> HoldsHover(s)
        /\ HoldsFocus(s) => selected = s

(* While the user waits for each answer there is only the news of the last *)
(* step on its way, and before it all was quiet.                           *)
LEMMA News ==
    ASSUME CarouselInv, AgreeInv, numServices # 1, UNCHANGED numServices,
           NEW ms, Input(ms), ~raced'
    PROVE  /\ Quiet
           /\ \A m \in Msgs' : inbox'[m] =< 1
           /\ \A kind \in Kinds, s \in Services : Waits(kind, s)' <=> Msg(kind, s) \in ms
<1>1. Waiting = {} /\ ~raced
  BY Zenon DEF Input
<1>2. Settles
  BY <1>1, Zenon DEF AgreeInv
<1>3. Quiet
  BY <1>1, <1>2, Zenon
    DEF Settles, Quiet, FocusSettles, HoverSettles, SelectionSettles, Waits
<1>4. ASSUME NEW m \in Msgs PROVE inbox'[m] = IF m \in ms THEN 1 ELSE 0
  <2>1. inbox[m] \in Nat /\ ~(inbox[m] > 0)
    BY <1>1 DEF CarouselInv, InboxOK, Waiting
  <2>2. inbox'[m] = inbox[m] + IF m \in ms THEN 1 ELSE 0
    BY Zenon DEF Input
  <2> QED
    BY <2>1, <2>2
<1>5. Msgs' = Msgs
  BY DEF Msgs
<1>6. ASSUME NEW kind \in Kinds, NEW s \in Services
      PROVE  Waits(kind, s)' <=> Msg(kind, s) \in ms
  <2>1. Msg(kind, s) \in Msgs
    BY MsgOf DEF CarouselInv
  <2> QED
    BY <1>4, <1>5, <2>1 DEF Waits, Waiting
<1> QED
  BY <1>3, <1>4, <1>5, <1>6

LEMMA HoverStays ==
    ASSUME Quiet, UNCHANGED <<numServices, page, hovered, lit>>, NEW s \in Services,
           ~Waits("Hover", s)', ~Waits("Unhover", s)'
    PROVE  HoverSettles(s)'
<1>1. HoldsHover(s)' <=> HoldsHover(s)
  BY SameCards DEF HoldsHover, Holds, SlotHasCard, CardServiceName
<1> QED
  BY <1>1, Zenon DEF Quiet, HoverSettles

LEMMA FocusStays ==
    ASSUME Quiet, UNCHANGED <<numServices, page, focus, focused, selected>>,
           NEW s \in Services,
           ~Waits("Focus", s)', ~Waits("Blur", s)', ~Waits("Selected", s)'
    PROVE  FocusSettles(s)' /\ SelectionSettles(s)'
<1>1. HoldsFocus(s)' <=> HoldsFocus(s)
  BY SameCards DEF HoldsFocus, Holds, SlotHasCard, CardServiceName
<1> QED
  BY <1>1, Zenon DEF Quiet, FocusSettles, SelectionSettles

(* The focus moves to another slot of the page.                            *)
LEMMA FocusMoves ==
    ASSUME SlotsInv, Quiet, UNCHANGED <<numServices, page, focused>>, NEW s \in Services,
           NEW slot \in Int, slot # focus, focus' = slot,
           \A kind \in {"Focus", "Blur", "Selected"} :
               Waits(kind, s)' <=> Msg(kind, s) \in Blurred(focus) \cup Entered(slot)
    PROVE  FocusSettles(s)' /\ SelectionSettles(s)'
<1>1. HoldsFocus(s)' <=> Holds(slot, s)
  BY SameCards DEF HoldsFocus, Holds, SlotHasCard, CardServiceName
<1>2. ~(HoldsFocus(s) /\ Holds(slot, s))
  BY OneService DEF HoldsFocus, SlotsInv
<1>3. Waits("Blur", s)' <=> HoldsFocus(s)
  BY MoveMessages, Zenon DEF HoldsFocus
<1>4. (Waits("Focus", s)' <=> Holds(slot, s)) /\ (Waits("Selected", s)' <=> Holds(slot, s))
  BY MoveMessages, Zenon
<1> QED
  BY <1>1, <1>2, <1>3, <1>4, Zenon DEF Quiet, FocusSettles, SelectionSettles

(* The mouse moves to another card, or off the cards.                      *)
LEMMA HoverMoves ==
    ASSUME CarouselInv, Quiet, UNCHANGED <<numServices, page, lit>>, NEW s \in Services,
           NEW slot \in Cards \cup {None}, slot # hovered \/ slot = None, hovered' = slot,
           \A kind \in {"Hover", "Unhover"} :
               Waits(kind, s)' <=> Msg(kind, s) \in Unhovered \cup
                   IF slot = None THEN {} ELSE {Msg("Hover", CardServiceName(slot))}
    PROVE  HoverSettles(s)'
<1> DEFINE entered == IF slot = None THEN {} ELSE {Msg("Hover", CardServiceName(slot))}
<1> DotCount \in Nat /\ SlotsInv
  BY PagesExist DEF CarouselInv, SlotsInv
<1>1. /\ slot \in Int /\ (slot = None \/ SlotHasCard(slot))
      /\ hovered \in Int /\ (hovered = None \/ SlotHasCard(hovered))
  BY DEF CarouselInv, SlotsInv, HoverUsable, PlacesOK, Cards, Slots, None
<1>2. ~SlotHasCard(None)
  BY DEF SlotHasCard, None
<1>3. HoldsHover(s)' <=> Holds(slot, s)
  BY SameCards DEF HoldsHover, Holds, SlotHasCard, CardServiceName
<1>4. ~(HoldsHover(s) /\ Holds(slot, s))
  BY <1>1, <1>2, OneService DEF HoldsHover, Holds
<1>5. hovered >= DotCount <=> SlotHasCard(hovered)
  BY <1>1, <1>2 DEF SlotHasCard, None
<1>6. Waits("Unhover", s)' <=> HoldsHover(s)
  <2>1. Msg("Unhover", s) \in Unhovered <=> HoldsHover(s)
    <3>1. Msg("Unhover", s) \in {Msg("Unhover", CardServiceName(hovered))} <=>
             s = CardServiceName(hovered)
      BY MsgIs
    <3> QED
      BY <1>5, <3>1, Zenon DEF Unhovered, HoldsHover, Holds
  <2>2. Msg("Unhover", s) \notin entered
    BY MsgIs
  <2> QED
    BY <2>1, <2>2, Zenon
<1>7. Waits("Hover", s)' <=> Holds(slot, s)
  <2>1. Msg("Hover", s) \notin Unhovered
    BY MsgIs DEF Unhovered
  <2>2. Msg("Hover", s) \in entered <=> Holds(slot, s)
    BY <1>1, <1>2, MsgIs DEF Holds
  <2> QED
    BY <2>1, <2>2, Zenon
<1> QED
  BY <1>3, <1>4, <1>6, <1>7, Zenon DEF Quiet, HoverSettles

(* What is to be shown of a step is about the services there are.          *)
LEMMA SettledBy ==
    ASSUME UNCHANGED numServices, ~raced' /\ numServices # 1 => \A m \in Msgs' : inbox'[m] =< 1,
           ASSUME ~raced', numServices # 1, NEW s \in Services
           PROVE  FocusSettles(s)' /\ HoverSettles(s)' /\ SelectionSettles(s)'
    PROVE  AgreeInv'
<1>1. Services' = Services
  BY SameSlots
<1> QED
  BY <1>1, Zenon DEF AgreeInv, Settles

LEMMA QuietStep ==
    ASSUME CarouselInv, AgreeInv, UNCHANGED <<numServices, page, focus, hovered, cards>>,
           NEW ms, Input(ms), \A kind \in Kinds \ {"Toggle"}, s \in Services : Msg(kind, s) \notin ms
    PROVE  AgreeInv'
<1>1. ASSUME ~raced', numServices # 1, NEW s \in Services
      PROVE  FocusSettles(s)' /\ HoverSettles(s)' /\ SelectionSettles(s)'
  <2>1. Quiet /\ \A kind \in Kinds \ {"Toggle"} : ~Waits(kind, s)'
    BY <1>1, News, Zenon
  <2>2. UNCHANGED <<focused, lit, selected>>
    BY DEF cards
  <2> QED
    BY <2>1, <2>2, FocusStays, HoverStays DEF Kinds
<1> QED
  BY <1>1, News, SettledBy, Zenon

LEMMA MoveSettles ==
    ASSUME CarouselInv, AgreeInv, NEW slot \in Slots, slot # focus, MoveFocus(slot)
    PROVE  AgreeInv'
<1> DEFINE ms == Blurred(focus) \cup Entered(slot)
<1>1. /\ Input(ms) /\ focus' = slot
      /\ UNCHANGED <<numServices, page, hovered, cards>>
  BY Zenon DEF MoveFocus
<1>2. ASSUME ~raced', numServices # 1, NEW s \in Services
      PROVE  FocusSettles(s)' /\ HoverSettles(s)' /\ SelectionSettles(s)'
  <2>1. Quiet /\ \A kind \in Kinds : Waits(kind, s)' <=> Msg(kind, s) \in ms
    BY <1>1, <1>2, News, Zenon
  <2>2. ~Waits("Hover", s)' /\ ~Waits("Unhover", s)'
    BY <2>1, MoveMessages DEF Kinds
  <2>3. UNCHANGED <<focused, lit, selected>>
    BY <1>1 DEF cards
  <2>4. SlotsInv /\ slot \in Int
    BY DEF CarouselInv, Slots
  <2>5. \A kind \in {"Focus", "Blur", "Selected"} : Waits(kind, s)' <=> Msg(kind, s) \in ms
    BY <2>1 DEF Kinds
  <2> QED
    BY <1>1, <2>1, <2>2, <2>3, <2>4, <2>5, FocusMoves, HoverStays
<1> QED
  BY <1>1, <1>2, News, SettledBy, Zenon

LEMMA RebuildSettles ==
    ASSUME CarouselInv, AgreeInv, NEW p \in 0..(TotalPages - 1), RebuildCards(p)
    PROVE  AgreeInv'
<1> DEFINE ms == IF CardsOn(p) > 0
                   THEN {Msg("Focus", p * PageSize), Msg("Selected", p * PageSize)} ELSE {}
<1>1. /\ Input(ms) /\ page' = p /\ hovered' = None
      /\ focused' = {} /\ lit' = {} /\ UNCHANGED <<numServices, selected>>
  BY Zenon DEF RebuildCards
<1>2. ASSUME ~raced', numServices # 1, NEW s \in Services
      PROVE  FocusSettles(s)' /\ HoverSettles(s)' /\ SelectionSettles(s)'
  <2>1. \A kind \in Kinds : Waits(kind, s)' <=> Msg(kind, s) \in ms
    BY <1>1, <1>2, News, Zenon
  <2>2. CardsOn(p) \in Nat \ {0}
    BY PagesHoldCards DEF CarouselInv, SlotsInv, Services
  <2>3. focus' = DotCount /\ DotCount' = DotCount /\ DotCount \in Nat /\ CardsOn(page)' = CardsOn(p)
    BY <1>1, <2>2, SameProject, PagesExist DEF RebuildCards, CardsOn, CarouselInv, SlotsInv
  <2>4. HoldsFocus(s)' <=> s = p * PageSize
    BY <1>1, <2>2, <2>3, PagesExist, Sizes DEF HoldsFocus, Holds, SlotHasCard, CardServiceName
  <2>5. ~HoldsHover(s)'
    BY <1>1, <2>3 DEF HoldsHover, Holds, SlotHasCard, None
  <2>6. ms = {Msg("Focus", p * PageSize), Msg("Selected", p * PageSize)}
    BY <2>2
  <2>7. \A kind \in Kinds : Waits(kind, s)' <=> kind \in {"Focus", "Selected"} /\ s = p * PageSize
    <3> HIDE DEF ms
    <3>1. \A kind : Msg(kind, s) \in {Msg("Focus", p * PageSize), Msg("Selected", p * PageSize)}
             <=> kind \in {"Focus", "Selected"} /\ s = p * PageSize
      BY MsgIs
    <3> QED
      BY <2>1, <2>6, <3>1, Zenon
  <2>8. FocusSettles(s)'
    BY <1>1, <2>4, <2>7 DEF FocusSettles, Kinds
  <2>9. HoverSettles(s)'
    BY <1>1, <2>5, <2>7 DEF HoverSettles, Kinds
  <2>10. SelectionSettles(s)'
    BY <1>1, <2>4, <2>7 DEF SelectionSettles, Kinds
  <2> QED
    BY <2>8, <2>9, <2>10
<1> QED
  BY <1>1, <1>2, News, SettledBy, Zenon

LEMMA HoverMoveSettles ==
    ASSUME CarouselInv, AgreeInv, UNCHANGED <<numServices, page, focus, cards>>,
           NEW slot \in Cards \cup {None}, slot # hovered \/ slot = None, hovered' = slot,
           Input(Unhovered \cup
                 IF slot = None THEN {} ELSE {Msg("Hover", CardServiceName(slot))})
    PROVE  AgreeInv'
<1> DEFINE ms == Unhovered \cup
                 IF slot = None THEN {} ELSE {Msg("Hover", CardServiceName(slot))}
<1>1. ASSUME ~raced', numServices # 1, NEW s \in Services
      PROVE  FocusSettles(s)' /\ HoverSettles(s)' /\ SelectionSettles(s)'
  <2>1. Quiet /\ \A kind \in Kinds : Waits(kind, s)' <=> Msg(kind, s) \in ms
    BY <1>1, News, Zenon
  <2>2. \A kind \in {"Focus", "Blur", "Selected"} : Msg(kind, s) \notin ms
    BY MsgIs DEF Unhovered
  <2>3. ~Waits("Focus", s)' /\ ~Waits("Blur", s)' /\ ~Waits("Selected", s)'
    BY <2>1, <2>2 DEF Kinds
  <2>4. UNCHANGED <<focused, lit, selected>>
    BY DEF cards
  <2>5. \A kind \in {"Hover", "Unhover"} : Waits(kind, s)' <=> Msg(kind, s) \in ms
    BY <2>1 DEF Kinds
  <2>6. HoverSettles(s)'
    BY <2>1, <2>4, <2>5, HoverMoves
  <2> QED
    BY <2>1, <2>3, <2>4, <2>6, FocusStays
<1> QED
  BY <1>1, News, SettledBy, Zenon

(* Tab and Shift+Tab: the card left is not the one entered.                *)
LEMMA TabSettles ==
    ASSUME CarouselInv, AgreeInv, NEW k \in 1..TotalSlots, NEW d \in Directions,
           Reaches(k, d), MoveFocus(Step(k, d))
    PROVE  AgreeInv'
<1>1. numServices \in Nat /\ UNCHANGED numServices
  BY Zenon DEF CarouselInv, SlotsInv, MoveFocus
<1>2. CASE numServices = 1
  BY <1>1, <1>2, Zenon DEF AgreeInv
<1>3. CASE numServices = 0
  <2>1. Services = {}
    BY <1>3 DEF Services
  <2>2. PICK ms : Input(ms)
    BY Zenon DEF MoveFocus
  <2> QED
    BY <1>1, <2>1, <2>2, News, SettledBy, Zenon
<1>4. CASE numServices > 1
  <2>1. focus \in Slots /\ SlotsInv
    BY Zenon DEF CarouselInv, PlacesOK
  <2>2. Step(k, d) # focus
    BY <1>4, <2>1, TabLeaves
  <2>3. Step(k, d) \in Slots
    <3>1. TotalSlots \in Nat \ {0} /\ focus + k * d \in Int
      BY <1>1, <2>1, PagesExist, Sizes DEF TotalSlots, Slots, Directions
    <3> QED
      BY <3>1 DEF Step, Slots
  <2> QED
    BY <2>2, <2>3, MoveSettles
<1> QED
  BY <1>1, <1>2, <1>3, <1>4

LEMMA ClickSettles ==
    ASSUME CarouselInv, AgreeInv, NEW slot \in Cards, HandleCardClick(slot)
    PROVE  AgreeInv'
<1> DEFINE left == IF focus >= DotCount THEN {Msg("Blur", CardServiceName(focus))} ELSE {}
<1>1. /\ focus' = slot /\ UNCHANGED <<numServices, page, hovered, cards>>
      /\ \/ focus = slot /\ Input({Msg("Toggle", CardServiceName(slot))})
         \/ focus = slot /\ Input({})
         \/ focus # slot /\ Input(Entered(slot) \cup left)
  BY Zenon DEF HandleCardClick
<1>2. slot \in Int /\ SlotHasCard(slot) /\ slot \in Slots
  BY DEF Cards, Slots
<1>3. CASE focus = slot
  <2>1. PICK ms \in {{}, {Msg("Toggle", CardServiceName(slot))}} : Input(ms)
    BY <1>1, <1>3, Zenon
  <2>2. \A kind \in Kinds \ {"Toggle"}, s \in Services : Msg(kind, s) \notin ms
    BY <2>1, MsgIs
  <2>3. UNCHANGED focus
    BY <1>1, <1>3
  <2> QED
    BY <1>1, <2>1, <2>2, <2>3, QuietStep
<1>4. CASE focus # slot
  <2>1. left = Blurred(focus)
    <3>1. CardServiceName(slot) \in Services
      BY <1>2, CardsHaveServices DEF CarouselInv
    <3>2. numServices > 0
      BY <3>1 DEF Services, CarouselInv, SlotsInv
    <3>3. focus >= DotCount <=> SlotHasCard(focus)
      BY <3>2, PagesExist DEF CarouselInv, SlotsInv, FocusUsable, Skipped, SlotHasCard
    <3> QED
      BY <3>3, Zenon DEF Blurred
  <2>2. Input(Entered(slot) \cup left)
    BY <1>1, <1>4, Zenon
  <2>3. ASSUME ~raced', numServices # 1, NEW s \in Services
        PROVE  FocusSettles(s)' /\ HoverSettles(s)' /\ SelectionSettles(s)'
    <3>1. /\ Quiet
          /\ \A kind \in Kinds : Waits(kind, s)' <=> Msg(kind, s) \in Entered(slot) \cup left
      BY <1>1, <2>2, <2>3, News, Zenon
    <3> HIDE DEF left
    <3>2. ~Waits("Hover", s)' /\ ~Waits("Unhover", s)'
      BY <2>1, <3>1, MoveMessages DEF Kinds
    <3>3. \A kind \in {"Focus", "Blur", "Selected"} :
              Waits(kind, s)' <=> Msg(kind, s) \in Blurred(focus) \cup Entered(slot)
      BY <2>1, <3>1 DEF Kinds
    <3>4. UNCHANGED <<focused, lit, selected>> /\ SlotsInv
      BY <1>1 DEF cards, CarouselInv
    <3> QED
      BY <1>1, <1>2, <1>4, <3>1, <3>2, <3>3, <3>4, FocusMoves, HoverStays
  <2> QED
    BY <1>1, <2>2, <2>3, News, SettledBy, Zenon
<1> QED
  BY <1>3, <1>4

(* A message arrives, once.                                                *)
LEMMA DeliverSettles ==
    ASSUME CarouselInv, AgreeInv, NEW m \in Msgs, Deliver(m)
    PROVE  AgreeInv'
<1>1. UNCHANGED <<numServices, page, focus, hovered, raced>>
  BY Zenon DEF Deliver, slots
<1>2. ASSUME ~raced, numServices # 1 PROVE Settles'
  <2>1. Settles
    BY <1>2, Zenon DEF AgreeInv
  <2>2. inbox[m] > 0 /\ inbox[m] \in Nat /\ inbox[m] =< 1 /\ inbox' = [inbox EXCEPT ![m] = @ - 1]
    BY <2>1 DEF Deliver, Settles, CarouselInv, InboxOK
  <2>3. Msgs' = Msgs /\ Services' = Services
    BY <1>1, SameSlots DEF Msgs
  <2>4. \A n \in Msgs : inbox'[n] = IF n = m THEN 0 ELSE inbox[n]
    BY <2>2 DEF CarouselInv, InboxOK
  <2>5. Waiting' = Waiting \ {m} /\ m \in Waiting
    BY <2>2, <2>3, <2>4 DEF Waiting
  <2>6. \A n \in Msgs' : inbox'[n] =< 1
    BY <2>1, <2>3, <2>4 DEF Settles
  <2>7. PICK kind \in Kinds, t \in Services : m = Msg(kind, t) /\ kind = m.kind /\ t = m.service
    BY <2>2 DEF CarouselInv, InboxOK, Msgs, Msg
  <2>8. ASSUME NEW s \in Services
        PROVE  FocusSettles(s)' /\ HoverSettles(s)' /\ SelectionSettles(s)'
    <3>1. /\ HoldsFocus(s)' <=> HoldsFocus(s)
          /\ HoldsHover(s)' <=> HoldsHover(s)
      BY <1>1, SameCards DEF HoldsFocus, HoldsHover, Holds, SlotHasCard, CardServiceName
    <3>2. \A other : Waits(other, s)' <=> Waits(other, s) /\ ~(other = kind /\ s = t)
      <4>1. \A other : Msg(other, s) = m <=> other = kind /\ s = t
        BY <2>7, MsgIs
      <4> QED
        BY <2>5, <4>1 DEF Waits
    <3>3. s = t => Waits(kind, s)
      BY <2>5, <2>7, Zenon DEF Waits
    <3>4. FocusSettles(s) /\ HoverSettles(s) /\ SelectionSettles(s)
      BY <2>1, Zenon DEF Settles
    <3>5. (HoldsFocus(s) => OnPage(s)) /\ (HoldsHover(s) => OnPage(s))
      BY HeldOnPage DEF HoldsFocus, HoldsHover, CarouselInv, PlacesOK, Slots, None
    <3>6. /\ s \in focused' <=> IF kind = "Focus" /\ s = t THEN s \in focused \/ OnPage(s)
                                ELSE s \in focused /\ ~(kind = "Blur" /\ s = t)
          /\ s \in lit' <=> IF kind = "Hover" /\ s = t THEN s \in lit \/ OnPage(s)
                            ELSE s \in lit /\ ~(kind = "Unhover" /\ s = t)
          /\ selected' = IF kind = "Selected" THEN t ELSE selected
      BY <2>7 DEF Deliver
    <3>7. FocusSettles(s)'
      BY <3>1, <3>2, <3>3, <3>4, <3>5, <3>6 DEF FocusSettles
    <3>8. HoverSettles(s)'
      BY <3>1, <3>2, <3>3, <3>4, <3>5, <3>6 DEF HoverSettles
    <3>9. kind = "Selected" => HoldsFocus(t)
      BY <2>1, <2>5, <2>7, Zenon DEF Settles, SelectionSettles, Waits
    <3>10. kind = "Selected" /\ HoldsFocus(s) => s = t
      BY <3>9, Zenon DEF HoldsFocus, Holds
    <3>11. SelectionSettles(s)'
      BY <3>1, <3>2, <3>4, <3>6, <3>10 DEF SelectionSettles
    <3> QED
      BY <3>7, <3>8, <3>11
  <2> QED
    BY <2>3, <2>6, <2>8, Zenon DEF Settles
<1> QED
  BY <1>1, <1>2, Zenon DEF AgreeInv

LEMMA NextSettles == CarouselInv /\ AgreeInv /\ [Next]_vars => AgreeInv'
<1> SUFFICES ASSUME CarouselInv, AgreeInv, [Next]_vars PROVE AgreeInv'
  OBVIOUS
<1> TotalPages \in Nat \ {0} /\ DotCount \in Nat /\ page \in 0..(TotalPages - 1) /\ focus \in Nat
  BY PagesExist DEF CarouselInv, SlotsInv
<1>1. ASSUME NEW ms, Input(ms), UNCHANGED <<numServices, slots, cards>>,
             \A kind \in Kinds \ {"Toggle"}, s \in Services : Msg(kind, s) \notin ms
      PROVE  AgreeInv'
  <2>1. UNCHANGED <<numServices, page, focus, hovered, cards>>
    BY <1>1, Zenon DEF slots
  <2> QED
    BY <1>1, <2>1, QuietStep
<1>2. CASE HandleTab
  <2>1. ASSUME NEW k \in 1..TotalSlots, Reaches(k, 1), MoveFocus(Step(k, 1))
        PROVE  AgreeInv'
    BY <2>1, TabSettles DEF Directions
  <2>2. CASE Input({}) /\ UNCHANGED <<numServices, slots, cards, hit>>
    BY <1>1, <2>2, Zenon
  <2> QED
    BY <1>2, <2>1, <2>2, Zenon DEF HandleTab
<1>3. CASE HandleShiftTab
  <2>1. PICK k \in 1..TotalSlots : Reaches(k, -1) /\ MoveFocus(Step(k, -1))
    BY <1>3 DEF HandleShiftTab
  <2> QED
    BY <2>1, TabSettles DEF Directions
<1>4. CASE PgUp
  BY <1>4, RebuildSettles DEF PgUp
<1>5. CASE PgDown
  BY <1>5, RebuildSettles DEF PgDown
<1>6. CASE HandleEnter
  <2>1. CASE focus < DotCount /\ RebuildCards(focus)
    <3>1. focus \in 0..(TotalPages - 1)
      BY <2>1 DEF DotCount
    <3> QED
      BY <2>1, <3>1, RebuildSettles
  <2>2. CASE /\ Input({Msg("Toggle", CardServiceName(focus))})
             /\ UNCHANGED <<numServices, slots, cards, looping, hit>>
    <3>1. \A kind \in Kinds \ {"Toggle"}, s \in Services :
              Msg(kind, s) \notin {Msg("Toggle", CardServiceName(focus))}
      BY MsgIs
    <3> QED
      BY <1>1, <2>2, <3>1, Zenon
  <2> QED
    BY <1>6, <2>1, <2>2, Zenon DEF HandleEnter
<1>7. ASSUME NEW p \in Dots, ClickDot(p) PROVE AgreeInv'
  BY <1>7, RebuildSettles, PagesExist DEF ClickDot, CarouselInv, SlotsInv
<1>8. ASSUME NEW p \in Dots, HoverDot(p) PROVE AgreeInv'
  <2>1. /\ Input(Unhovered) /\ hovered' = None
        /\ UNCHANGED <<numServices, page, focus, cards>>
    BY <1>8, Zenon DEF HoverDot
  <2>2. Unhovered = Unhovered \cup
            IF None = None THEN {} ELSE {Msg("Hover", CardServiceName(None))}
    OBVIOUS
  <2>3. None \in Cards \cup {None}
    OBVIOUS
  <2> HIDE DEF None
  <2> QED
    BY <2>1, <2>2, <2>3, HoverMoveSettles
<1>9. ASSUME NEW slot \in Cards, HandleCardClick(slot) PROVE AgreeInv'
  BY <1>9, ClickSettles
<1>10. ASSUME NEW slot \in Cards \cup {None}, Hover(slot) PROVE AgreeInv'
  <2>1. hovered' = slot /\ UNCHANGED <<numServices, page, focus, cards>>
    BY <1>10, Zenon DEF Hover
  <2>2. CASE slot = hovered
    <3>1. Input({}) /\ hovered' = hovered
      BY <1>10, <2>2, Zenon DEF Hover
    <3>2. \A kind \in Kinds \ {"Toggle"}, s \in Services : Msg(kind, s) \notin {}
      OBVIOUS
    <3> QED
      BY <2>1, <3>1, <3>2, QuietStep
  <2>3. CASE slot # hovered
    <3>1. Input(Unhovered \cup
                IF slot = None THEN {} ELSE {Msg("Hover", CardServiceName(slot))})
      BY <1>10, <2>3, Zenon DEF Hover
    <3> QED
      BY <2>1, <2>3, <3>1, HoverMoveSettles
  <2> QED
    BY <2>2, <2>3
<1>11. ASSUME NEW m \in Msgs, Deliver(m) PROVE AgreeInv'
  BY <1>11, DeliverSettles
<1>12. CASE ThresholdPasses \/ TabLoops \/ UNCHANGED vars
  <2>1. UNCHANGED <<numServices, page, focus, hovered, focused, lit, selected, inbox, raced>>
    BY <1>12, Zenon DEF ThresholdPasses, TabLoops, vars, slots, cards
  <2> QED
    BY <2>1, SameCards
      DEF AgreeInv, Settles, FocusSettles, HoverSettles, SelectionSettles, Waits, Waiting,
          HoldsFocus, HoldsHover, Holds, SlotHasCard, CardServiceName, Msgs, Services
<1> QED
  BY <1>2, <1>3, <1>4, <1>5, <1>6, <1>7, <1>8, <1>9, <1>10, <1>11, <1>12, Zenon DEF Next

LEMMA InitSettles == Init => AgreeInv
<1> SUFFICES ASSUME Init, numServices # 1 PROVE Settles
  BY Zenon DEF AgreeInv
<1>1. /\ CarouselInv /\ SlotsInv /\ numServices \in Nat /\ page = 0 /\ hovered = None
      /\ focused = {} /\ lit = {} /\ DotCount \in Nat
  BY TypedInit, PagesExist DEF CarouselInv, SlotsInv, Init
<1>2. \A m \in Msgs : inbox[m] =< 1
  BY DEF Init, Posted
<1>3. ASSUME NEW s \in Services
      PROVE  FocusSettles(s) /\ HoverSettles(s) /\ SelectionSettles(s)
  <2>1. numServices > 0
    BY <1>1 DEF Services
  <2>2. focus = DotCount /\ inbox = Posted({Msg("Focus", 0), Msg("Selected", 0)})
    BY <2>1 DEF Init
  <2>3. \A kind \in Kinds : Waits(kind, s) <=> kind \in {"Focus", "Selected"} /\ s = 0
    <3>1. \A kind \in Kinds : Msg(kind, s) \in Msgs
      BY <1>1, MsgOf DEF CarouselInv
    <3>2. \A kind \in Kinds : Waits(kind, s) <=> Msg(kind, s) \in {Msg("Focus", 0), Msg("Selected", 0)}
      BY <2>2, <3>1 DEF Waits, Waiting, Posted
    <3> QED
      BY <3>2, MsgIs
  <2>4. SlotHasCard(focus) /\ CardServiceName(focus) = 0
    <3>1. CardsOn(0) \in Nat \ {0}
      BY <1>1, <2>1, PagesHoldCards DEF SlotsInv
    <3> QED
      BY <1>1, <2>2, <3>1, Sizes DEF SlotHasCard, CardServiceName
  <2>5. HoldsFocus(s) <=> s = 0
    BY <2>4, Zenon DEF HoldsFocus, Holds
  <2>6. ~HoldsHover(s)
    BY <1>1 DEF HoldsHover, Holds, SlotHasCard, None
  <2> QED
    BY <1>1, <2>3, <2>5, <2>6 DEF FocusSettles, HoverSettles, SelectionSettles, Kinds
<1> QED
  BY <1>2, <1>3, Zenon DEF Settles

(* When every message has been heard the cards are as the slots say.       *)
LEMMA SettledAgree == CarouselInv /\ AgreeInv => CardsAgree
<1> SUFFICES ASSUME CarouselInv, AgreeInv, Waiting = {}, ~raced, numServices # 1
             PROVE  /\ focused = {CardServiceName(slot) : slot \in Cards \cap {focus}}
                    /\ lit = {CardServiceName(slot) : slot \in Cards \cap {hovered}}
                    /\ SlotHasCard(focus) => selected = CardServiceName(focus)
  BY Zenon DEF CardsAgree
<1>1. Quiet
  BY Zenon DEF AgreeInv, Settles, Quiet, FocusSettles, HoverSettles, SelectionSettles, Waits
<1>2. ASSUME NEW slot \in Int
      PROVE  \A s : s \in {CardServiceName(i) : i \in Cards \cap {slot}} <=>
                    s \in Services /\ Holds(slot, s)
  BY CardsHaveServices DEF Cards, Holds, CarouselInv
<1>3. focus \in Int /\ hovered \in Int
  BY DEF CarouselInv, PlacesOK, Slots, None
<1>4. focused \subseteq Services /\ lit \subseteq Services
  BY DEF CarouselInv, CardsOK
<1>5. focused = {CardServiceName(slot) : slot \in Cards \cap {focus}}
  BY <1>1, <1>2, <1>3, <1>4 DEF Quiet, HoldsFocus
<1>6. lit = {CardServiceName(slot) : slot \in Cards \cap {hovered}}
  BY <1>1, <1>2, <1>3, <1>4 DEF Quiet, HoldsHover
<1>7. SlotHasCard(focus) => selected = CardServiceName(focus)
  BY <1>1, <1>3, CardsHaveServices DEF Quiet, HoldsFocus, Holds, CarouselInv
<1> QED
  BY <1>5, <1>6, <1>7

(* Whatever the order in which the messages of a step arrive, a user who   *)
(* waits for them sees one card focused and one hovered, those the slots   *)
(* name, and the dashboard has selected the card focused last, for every   *)
(* project and every page size (carousel.go:197-287, card.go:83-166).      *)
THEOREM MessagesAgree == Spec => []CardsAgree
BY SettledAgree, TypedInit, TypedNext, InitSettles, NextSettles, PTL DEF Spec

-----------------------------------------------------------------------------
(***************************************************************************)
(* WHAT IS SHOWN OF THE SELECTED SERVICE                                   *)
(*                                                                         *)
(* The details and the labels of Inspector, for every set of services.     *)
(* Selections, polls and answers come in any order, and no message says    *)
(* which selection it belongs to.                                          *)
(***************************************************************************)

(* What the details show is what the last poll saw of the service they are *)
(* about, be it selected or no longer.                                     *)
DetailsKnown == details # NoContainer => details = runtimeData[details[1]]

(* What was last asked for is a container of the selected service.         *)
LastIsSelected == last # NoContainer => last[1] = selectedName

(* Unless the last was asked for while another container's was out, or one *)
(* failed since, the Inspects that are out are all about one container.    *)
OneAsked ==
    ~late => \A c, d \in Containers :
                 inspecting[c] > 0 /\ inspecting[d] > 0 => c = d

(* The parts of the invariant by what changes them: the containers and     *)
(* their polls, the selection and its screen, the Inspects.                *)
PollsInv ==
    /\ container \in Snapshots
    /\ made \in [ServiceNames -> 0..MaxContainers]
    /\ polled \in [Snapshots -> Nat]

ScreenInv ==
    /\ selectedName \in ServiceNames
    /\ runtimeData \in Snapshots
    /\ details \in Containers \cup {NoContainer}
    /\ labels \in Containers \cup {NoContainer}
    /\ last \in Containers \cup {NoContainer}
    /\ selecting \in [ServiceNames -> Nat]
    /\ DetailsKnown
    /\ LastIsSelected

InspectsInv ==
    /\ inspecting \in [Containers -> Nat]
    /\ late \in BOOLEAN
    /\ OneAsked

InspInv == PollsInv /\ ScreenInv /\ InspectsInv

LEMMA InspTyped == InspInv => InspectorTypeOK
BY Zenon DEF InspInv, PollsInv, ScreenInv, InspectsInv, InspectorTypeOK

(* What a poll saw of a service is nothing or a container of that service. *)
LEMMA SeenOf ==
    ASSUME NEW v \in Snapshots, NEW s \in ServiceNames, v[s] # NoContainer
    PROVE  v[s] \in Containers /\ v[s][1] = s
BY DEF Snapshots

LEMMA ContainerOf ==
    ASSUME NEW s \in ServiceNames, NEW i \in 1..MaxContainers
    PROVE  /\ <<s, i>> \in Containers
           /\ <<s, i>>[1] = s
BY DEF Containers

LEMMA SnapshotWith ==
    ASSUME NEW v \in Snapshots, NEW s \in ServiceNames,
           NEW c \in Containers \cup {NoContainer}, c = NoContainer \/ c[1] = s
    PROVE  [v EXCEPT ![s] = c] \in Snapshots
BY DEF Snapshots

LEMMA NothingSeen == Unknown \in Snapshots
BY DEF Unknown, Snapshots

LEMMA FirstService == First \in ServiceNames
BY SomeService DEF First

(* Asking for what a poll saw, or for nothing, keeps the Inspects counted  *)
(* and late true to them.                                                  *)
LEMMA Asks ==
    ASSUME InspectsInv, NEW c \in Containers \cup {NoContainer},
           InspectSelected(c)
    PROVE  InspectsInv'
<1>1. CASE c = NoContainer
  <2>1. UNCHANGED <<inspecting, late>>
    BY <1>1 DEF InspectSelected
  <2> QED
    BY <2>1 DEF InspectsInv, OneAsked, Containers
<1>2. CASE c # NoContainer
  <2>1. c \in Containers
    BY <1>2
  <2>2. /\ inspecting' = [inspecting EXCEPT ![c] = @ + 1]
        /\ late' = (\E d \in Containers \ {c} : inspecting[d] > 0)
    BY <1>2, Zenon DEF InspectSelected
  <2>3. inspecting \in [Containers -> Nat]
    BY DEF InspectsInv
  <2>4. inspecting' \in [Containers -> Nat]
    BY <2>1, <2>2, <2>3
  <2>5. late' \in BOOLEAN
    BY <2>2, Zenon
  <2>6. ASSUME ~late', NEW d \in Containers, inspecting'[d] > 0 PROVE d = c
    <3>1. ~ \E e \in Containers \ {c} : inspecting[e] > 0
      BY <2>2, <2>6, Zenon
    <3>2. CASE d # c
      <4>1. inspecting'[d] = inspecting[d]
        BY <2>2, <2>3, <3>2
      <4> QED
        BY <2>6, <3>1, <3>2, <4>1
    <3> QED
      BY <3>2
  <2>7. OneAsked'
    BY <2>6 DEF OneAsked, Containers
  <2> QED
    BY <2>4, <2>5, <2>7, Zenon DEF InspectsInv, Containers
<1> QED
  BY <1>1, <1>2

(* An answer leaves fewer out.                                             *)
LEMMA Answers ==
    ASSUME InspectsInv, NEW c \in Containers,
           HandleContainerLabelsPolled(c)
    PROVE  InspectsInv'
<1>1. /\ inspecting[c] > 0
      /\ inspecting' = [inspecting EXCEPT ![c] = @ - 1]
      /\ late' = (late \/ labels' = NoContainer)
  BY Zenon DEF HandleContainerLabelsPolled
<1>2. inspecting \in [Containers -> Nat]
  BY DEF InspectsInv
<1>3. inspecting' \in [Containers -> Nat]
  BY <1>1, <1>2
<1>4. late' \in BOOLEAN
  BY <1>1, Zenon DEF InspectsInv
<1>5. ASSUME NEW d \in Containers, inspecting'[d] > 0 PROVE inspecting[d] > 0
  BY <1>1, <1>2, <1>5
<1>6. ~late' => ~late
  BY <1>1, Zenon
<1>7. OneAsked'
  BY <1>5, <1>6 DEF InspectsInv, OneAsked, Containers
<1> QED
  BY <1>3, <1>4, <1>7, Zenon DEF InspectsInv, Containers


(* A poll taken over: the details are the selected service's from then on. *)
LEMMA PollTaken ==
    ASSUME InspInv, NEW v \in Snapshots, HandleServicesPolled(v)
    PROVE  InspInv'
<1>1. /\ polled[v] > 0
      /\ polled' = [polled EXCEPT ![v] = @ - 1]
      /\ runtimeData' = v
      /\ details' = v[selectedName]
      /\ InspectPolled(v)
      /\ UNCHANGED <<container, made, selectedName, labels, selecting>>
  BY DEF HandleServicesPolled, Details, world
<1>2. selectedName \in ServiceNames
  BY DEF InspInv, ScreenInv
<1>3. v[selectedName] \in Containers \cup {NoContainer}
  BY <1>2, SeenOf
<1>4. v[selectedName] # NoContainer => v[selectedName][1] = selectedName
  BY <1>2, SeenOf
<1>5. PollsInv'
  BY <1>1 DEF InspInv, PollsInv, Snapshots, Containers, NoContainer
<1>6. DetailsKnown'
  BY <1>1, <1>4 DEF DetailsKnown, NoContainer
<1>7. CASE v[selectedName] \notin {NoContainer, last}
  <2>1. last' = v[selectedName] /\ InspectSelected(v[selectedName])
    BY <1>1, <1>7, Zenon DEF InspectPolled
  <2>2. InspectsInv'
    BY <1>3, <2>1, Asks, Zenon DEF InspInv
  <2>3. LastIsSelected'
    BY <1>1, <1>4, <2>1 DEF LastIsSelected, NoContainer
  <2>4. ScreenInv'
    BY <1>1, <1>3, <1>6, <2>1, <2>3
       DEF InspInv, ScreenInv, Containers, NoContainer, Snapshots
  <2> QED
    BY <1>5, <2>2, <2>4 DEF InspInv
<1>8. CASE v[selectedName] \in {NoContainer, last}
  <2>1. UNCHANGED <<last, inspecting, late>>
    BY <1>1, <1>8, Zenon DEF InspectPolled
  <2>2. InspectsInv'
    BY <2>1 DEF InspInv, InspectsInv, OneAsked, Containers
  <2>3. LastIsSelected'
    BY <1>1, <2>1 DEF InspInv, ScreenInv, LastIsSelected, NoContainer
  <2>4. ScreenInv'
    BY <1>1, <1>3, <1>6, <2>1, <2>3
       DEF InspInv, ScreenInv, Containers, NoContainer, Snapshots
  <2> QED
    BY <1>5, <2>2, <2>4 DEF InspInv
<1> QED
  BY <1>7, <1>8

(* A selection taken over: the details stay what they were.                *)
LEMMA SelectionTaken ==
    ASSUME InspInv, NEW s \in ServiceNames, HandleServiceSelected(s)
    PROVE  InspInv'
<1>1. /\ selecting[s] > 0
      /\ selecting' = [selecting EXCEPT ![s] = @ - 1]
      /\ selectedName' = s
      /\ last' = NoContainer
      /\ labels' = NoContainer
      /\ InspectSelected(runtimeData[s])
      /\ UNCHANGED <<container, made, runtimeData, details, polled>>
  BY DEF HandleServiceSelected, world
<1>2. runtimeData[s] \in Containers \cup {NoContainer}
  BY SeenOf DEF InspInv, ScreenInv
<1>3. PollsInv'
  BY <1>1 DEF InspInv, PollsInv, Snapshots, Containers, NoContainer
<1>4. InspectsInv'
  BY <1>1, <1>2, Asks, Zenon DEF InspInv
<1>5. DetailsKnown' /\ LastIsSelected'
  BY <1>1 DEF InspInv, ScreenInv, DetailsKnown, LastIsSelected, NoContainer
<1>6. ScreenInv'
  BY <1>1, <1>5 DEF InspInv, ScreenInv, Containers, NoContainer, Snapshots
<1> QED
  BY <1>3, <1>4, <1>6 DEF InspInv

(* A reload shows nothing, and asks for nothing.                           *)
LEMMA Reloaded ==
    ASSUME InspInv, LiveReload
    PROVE  InspInv'
<1>1. /\ selectedName' = First /\ runtimeData' = Unknown
      /\ details' = NoContainer /\ labels' = NoContainer /\ last' = NoContainer
      /\ selecting' = [selecting EXCEPT ![First] = @ + 1]
      /\ UNCHANGED <<container, made, polled, inspecting, late>>
  BY DEF LiveReload, world
<1>2. PollsInv' /\ InspectsInv'
  BY <1>1 DEF InspInv, PollsInv, InspectsInv, OneAsked,
              Snapshots, Containers, NoContainer
<1>3. DetailsKnown' /\ LastIsSelected'
  BY <1>1 DEF DetailsKnown, LastIsSelected, NoContainer
<1>4. selecting' \in [ServiceNames -> Nat]
  BY <1>1, FirstService DEF InspInv, ScreenInv
<1>5. ScreenInv'
  <2>1. runtimeData' \in Snapshots
    BY <1>1, NothingSeen
  <2>2. selectedName' \in ServiceNames
    BY <1>1, FirstService
  <2> QED
    BY <1>1, <1>3, <1>4, <2>1, <2>2 DEF ScreenInv, Containers, NoContainer, Snapshots
<1> QED
  BY <1>2, <1>5 DEF InspInv

(* What containers, the user, the polls and Inspect do.                    *)
LEMMA Arrivals ==
    ASSUME InspInv,
           \/ Ps
           \/ \E s \in ServiceNames : Create(s) \/ Remove(s) \/ Select(s)
           \/ \E c \in Containers : HandleContainerLabelsPolled(c)
    PROVE  InspInv'
<1> USE Bounds
<1>1. ASSUME UNCHANGED <<selectedName, runtimeData, details, labels, last, selecting>>
      PROVE  ScreenInv'
  BY <1>1 DEF InspInv, ScreenInv, DetailsKnown, LastIsSelected,
              Containers, NoContainer, Snapshots
<1>2. ASSUME UNCHANGED <<inspecting, late>> PROVE InspectsInv'
  BY <1>2 DEF InspInv, InspectsInv, OneAsked, Containers
<1>3. ASSUME UNCHANGED <<container, made, polled>> PROVE PollsInv'
  BY <1>3 DEF InspInv, PollsInv, Snapshots, Containers, NoContainer
<1>4. CASE Ps
  <2>1. /\ polled' = [polled EXCEPT ![container] = @ + 1]
        /\ UNCHANGED <<container, made, selectedName, runtimeData, details, labels, last,
                       selecting, inspecting, late>>
    BY <1>4 DEF Ps, world, screen
  <2>2. /\ container \in Snapshots
        /\ polled \in [Snapshots -> Nat]
    BY DEF InspInv, PollsInv
  <2>3. polled' \in [Snapshots -> Nat]
    BY <2>1, <2>2
  <2>4. PollsInv'
    BY <2>1, <2>3 DEF InspInv, PollsInv, Snapshots, Containers, NoContainer
  <2> QED
    BY <1>1, <1>2, <2>1, <2>4 DEF InspInv
<1>5. ASSUME NEW s \in ServiceNames, Create(s) PROVE InspInv'
  <2>1. /\ made[s] < MaxContainers
        /\ made' = [made EXCEPT ![s] = @ + 1]
        /\ container' = [container EXCEPT ![s] = <<s, made[s] + 1>>]
        /\ UNCHANGED <<polled, selectedName, runtimeData, details, labels, last,
                       selecting, inspecting, late>>
    BY <1>5 DEF Create, screen
  <2>2. made[s] + 1 \in 1..MaxContainers
    BY <2>1 DEF InspInv, PollsInv
  <2>3. container' \in Snapshots
    BY <2>1, <2>2, ContainerOf, SnapshotWith DEF InspInv, PollsInv
  <2>4. made' \in [ServiceNames -> 0..MaxContainers]
    BY <2>1, <2>2 DEF InspInv, PollsInv
  <2>5. PollsInv'
    BY <2>1, <2>3, <2>4 DEF InspInv, PollsInv, Snapshots, Containers, NoContainer
  <2> QED
    BY <1>1, <1>2, <2>1, <2>5 DEF InspInv
<1>6. ASSUME NEW s \in ServiceNames, Remove(s) PROVE InspInv'
  <2>1. /\ container' = [container EXCEPT ![s] = NoContainer]
        /\ UNCHANGED <<made, polled, selectedName, runtimeData, details, labels, last,
                       selecting, inspecting, late>>
    BY <1>6 DEF Remove, screen
  <2>2. container' \in Snapshots
    BY <2>1, SnapshotWith DEF InspInv, PollsInv
  <2>3. PollsInv'
    BY <2>1, <2>2 DEF InspInv, PollsInv, Snapshots, Containers, NoContainer
  <2> QED
    BY <1>1, <1>2, <2>1, <2>3 DEF InspInv
<1>7. ASSUME NEW s \in ServiceNames, Select(s) PROVE InspInv'
  <2>1. /\ selecting' = [selecting EXCEPT ![s] = @ + 1]
        /\ UNCHANGED <<container, made, polled, selectedName, runtimeData, details, labels, last,
                       inspecting, late>>
    BY <1>7 DEF Select, world, screen
  <2>2. ScreenInv'
    BY <2>1 DEF InspInv, ScreenInv, DetailsKnown, LastIsSelected,
                Containers, NoContainer, Snapshots
  <2> QED
    BY <1>2, <1>3, <2>1, <2>2 DEF InspInv
<1>8. ASSUME NEW c \in Containers, HandleContainerLabelsPolled(c) PROVE InspInv'
  <2>1. /\ labels' \in Containers \cup {NoContainer}
        /\ UNCHANGED <<container, made, polled, selectedName, runtimeData, details, last, selecting>>
    BY <1>8 DEF HandleContainerLabelsPolled, Inspected, world
  <2>2. ScreenInv'
    BY <2>1 DEF InspInv, ScreenInv, DetailsKnown, LastIsSelected,
                Containers, NoContainer, Snapshots
  <2>3. InspectsInv'
    BY <1>8, Answers DEF InspInv
  <2> QED
    BY <1>3, <2>1, <2>2, <2>3 DEF InspInv
<1> QED
  BY <1>4, <1>5, <1>6, <1>7, <1>8

LEMMA InitInsp == ASSUME InspectorInit PROVE InspInv
<1>1. PollsInv
  BY Bounds, NothingSeen DEF InspectorInit, PollsInv
<1>2. ScreenInv
  BY NothingSeen, FirstService DEF InspectorInit, ScreenInv, DetailsKnown, LastIsSelected
<1>3. InspectsInv
  <2>1. inspecting = [c \in Containers |-> 0]
    BY DEF InspectorInit
  <2>2. late \in BOOLEAN
    BY Zenon DEF InspectorInit
  <2>3. inspecting \in [Containers -> Nat]
    BY <2>1
  <2>4. \A c \in Containers : ~(inspecting[c] > 0)
    BY <2>1
  <2> QED
    BY <2>2, <2>3, <2>4, Zenon DEF InspectsInv, OneAsked
<1> QED
  BY <1>1, <1>2, <1>3 DEF InspInv

LEMMA NextInsp ==
    ASSUME InspInv, [InspectorNext]_inspectorVars
    PROVE  InspInv'
<1>1. CASE InspectorNext
  BY <1>1, Arrivals, PollTaken, SelectionTaken, Reloaded, Zenon DEF InspectorNext
<1>2. CASE UNCHANGED inspectorVars
  <2>1. UNCHANGED <<container, made, selectedName, runtimeData, details, labels, last, selecting,
                    polled, inspecting, late>>
    BY <1>2 DEF inspectorVars, world, screen
  <2>2. PollsInv' /\ InspectsInv'
    BY <2>1 DEF InspInv, PollsInv, InspectsInv, OneAsked,
                Snapshots, Containers, NoContainer
  <2>3. ScreenInv'
    BY <2>1 DEF InspInv, ScreenInv, DetailsKnown, LastIsSelected,
                Containers, NoContainer, Snapshots
  <2> QED
    BY <2>2, <2>3 DEF InspInv
<1> QED
  BY <1>1, <1>2

(* The details are those the last poll gave of some service, never those   *)
(* of a container it did not see; what was last asked for is a container   *)
(* of the selected service; and once an Inspect is asked for alone those   *)
(* that are out agree (dashboard.go:400-466, accordion.go:79-111).         *)
THEOREM InspectorCoherent ==
    InspectorSpec => [](InspectorTypeOK /\ DetailsKnown /\ LastIsSelected /\ OneAsked)
<1>1. InspectorInit => InspInv
  BY InitInsp
<1>2. InspInv /\ [InspectorNext]_inspectorVars => InspInv'
  BY NextInsp
<1>3. InspInv => InspectorTypeOK /\ DetailsKnown /\ LastIsSelected /\ OneAsked
  BY InspTyped DEF InspInv, ScreenInv, InspectsInv
<1> QED
  BY <1>1, <1>2, <1>3, PTL DEF InspectorSpec

(* Once an Inspect was asked for alone, and until another is not or one    *)
(* fails, those that are out are all about the container last asked for,   *)
(* and one of them is out unless its labels are shown.                     *)
AnswersDue ==
    ~late /\ last # NoContainer =>
        /\ \A c \in Containers : inspecting[c] > 0 => c = last
        /\ labels = last \/ inspecting[last] > 0

LEMMA AnswersStay ==
    ASSUME AnswersDue, UNCHANGED <<labels, last, inspecting, late>>
    PROVE  AnswersDue'
BY DEF AnswersDue, Containers, NoContainer

LEMMA PollAsks ==
    ASSUME InspInv, AnswersDue, NEW v \in Snapshots, HandleServicesPolled(v)
    PROVE  AnswersDue'
<1> DEFINE c == v[selectedName]
<1>1. InspectPolled(v) /\ UNCHANGED labels
  BY DEF HandleServicesPolled
<1>2. CASE c \in {NoContainer, last}
  <2>1. UNCHANGED <<last, inspecting, late>>
    BY <1>1, <1>2, Zenon DEF InspectPolled
  <2> QED
    BY <1>1, <2>1, AnswersStay
<1>3. CASE c \notin {NoContainer, last}
  <2>1. last' = c /\ InspectSelected(c)
    BY <1>1, <1>3, Zenon DEF InspectPolled
  <2>2. /\ inspecting' = [inspecting EXCEPT ![c] = @ + 1]
        /\ late' = (\E d \in Containers \ {c} : inspecting[d] > 0)
    BY <1>3, <2>1, Zenon DEF InspectSelected
  <2>3. inspecting \in [Containers -> Nat] /\ c \in Containers
    BY <1>3, SeenOf DEF InspInv, InspectsInv, ScreenInv
  <2>4. inspecting'[c] > 0
    BY <2>2, <2>3
  <2>5. ASSUME ~late', NEW d \in Containers, inspecting'[d] > 0 PROVE d = c
    <3>1. ~ \E e \in Containers \ {c} : inspecting[e] > 0
      BY <2>2, <2>5, Zenon
    <3>2. CASE d # c
      <4>1. inspecting'[d] = inspecting[d]
        BY <2>2, <2>3, <3>2
      <4> QED
        BY <2>5, <3>1, <3>2, <4>1
    <3> QED
      BY <3>2
  <2> QED
    BY <2>1, <2>4, <2>5 DEF AnswersDue, Containers, NoContainer
<1> QED
  BY <1>2, <1>3

LEMMA LabelsCome ==
    ASSUME InspInv, AnswersDue, NEW c \in Containers,
           HandleContainerLabelsPolled(c)
    PROVE  AnswersDue'
<1>1. /\ inspecting[c] > 0
      /\ inspecting' = [inspecting EXCEPT ![c] = @ - 1]
      /\ labels' \in {c, NoContainer}
      /\ late' = (late \/ labels' = NoContainer)
      /\ UNCHANGED last
  BY DEF HandleContainerLabelsPolled, Inspected
<1>2. SUFFICES ASSUME ~late', last # NoContainer
               PROVE  /\ \A d \in Containers : inspecting'[d] > 0 => d = last
                      /\ labels' = last
  BY <1>1 DEF AnswersDue, Containers, NoContainer
<1>3. ~late /\ labels' # NoContainer
  BY <1>1, <1>2, Zenon
<1>4. \A d \in Containers : inspecting[d] > 0 => d = last
  BY <1>2, <1>3 DEF AnswersDue
<1>5. \A d \in Containers : inspecting'[d] > 0 => inspecting[d] > 0
  BY <1>1 DEF InspInv, InspectsInv
<1> QED
  BY <1>1, <1>3, <1>4, <1>5

LEMMA NextAnswers ==
    ASSUME InspInv, AnswersDue, [InspectorNext]_inspectorVars
    PROVE  AnswersDue'
<1>1. ASSUME NEW s \in ServiceNames, HandleServiceSelected(s) PROVE AnswersDue'
  BY <1>1 DEF HandleServiceSelected, AnswersDue, NoContainer
<1>2. CASE LiveReload
  BY <1>2 DEF LiveReload, AnswersDue, NoContainer
<1>3. ASSUME \/ Ps
             \/ \E s \in ServiceNames : Create(s) \/ Remove(s) \/ Select(s)
      PROVE  AnswersDue'
  <2>1. UNCHANGED <<labels, last, inspecting, late>>
    BY <1>3 DEF Ps, Create, Remove, Select, screen
  <2> QED
    BY <2>1, AnswersStay
<1>4. CASE UNCHANGED inspectorVars
  <2>1. UNCHANGED <<labels, last, inspecting, late>>
    BY <1>4 DEF inspectorVars, screen
  <2> QED
    BY <2>1, AnswersStay
<1> QED
  BY <1>1, <1>2, <1>3, <1>4, PollAsks, LabelsCome, Zenon DEF InspectorNext

(* Unless the last Inspect was asked for while another container's was out *)
(* or one failed since, the labels of the container the dashboard wrote    *)
(* down are shown or coming, though it writes the container down before    *)
(* Inspect runs and asks no second time (dashboard.go:436-466,             *)
(* inspect.go:28-66).                                                      *)
THEOREM LabelsAreComing == InspectorSpec => []LabelsComing
<1>1. InspectorInit => InspInv /\ AnswersDue
  BY InitInsp DEF InspectorInit, AnswersDue
<1>2. InspInv /\ AnswersDue /\ [InspectorNext]_inspectorVars => (InspInv /\ AnswersDue)'
  BY NextInsp, NextAnswers
<1>3. InspInv /\ AnswersDue => LabelsComing
  BY DEF InspInv, ScreenInv, LastIsSelected, AnswersDue, LabelsComing
<1> QED
  BY <1>1, <1>2, <1>3, PTL DEF InspectorSpec
=============================================================================
