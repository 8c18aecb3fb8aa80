CONSTANTS
    Files = {compose, override}
    MaxEvents = 3
SPECIFICATION Spec
INVARIANTS NoChangeMissed SendNeverBlocks
PROPERTIES NextGoesForward CloseStops FeedSpec
CHECK_DEADLOCK FALSE
