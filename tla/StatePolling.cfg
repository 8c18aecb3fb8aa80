CONSTANTS
    MaxDashboards = 3
    MaxChanges = 2
    MaxPs = 3
SPECIFICATION PollSpec
INVARIANTS PollerAlive
PROPERTIES StateShown
CHECK_DEADLOCK FALSE
