CONSTANTS
    MaxServices = 3
    PageSize = 2
    MaxPending = 1
SPECIFICATION Spec
INVARIANTS FocusUsable HoverUsable CardsAgree
PROPERTIES DoubleClickSame
