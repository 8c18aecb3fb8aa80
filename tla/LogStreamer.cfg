\* channelCap of logs/service.go; lineBufferCap is 5000 there: 2 fills it.
CONSTANTS
    ChannelCap = 2
    LineBufferCap = 2
    MaxPending = 4
SPECIFICATION Spec
INVARIANTS NoLostWakeup Listening ClosedIsQuiet
PROPERTIES StreamSpec CloseReturns LinesDrained
