CONSTANTS
    Services = {a, b}
    Own = a
    LineCap = 2
    LineWidths = {1, 3}
    MaxBatch = 1
    TermWidths = {3, 7}
    TermHeights = {6}
    FrameHeights = {2, 3}
    SidebarWidth = 2
    SidebarMinTermWidth = 4
    BorderWidth = 2
    MaxMessages = 2
SPECIFICATION Spec
INVARIANTS OverflowKnown FollowsTail BadgeTrue
