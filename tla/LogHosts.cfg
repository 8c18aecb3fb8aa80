CONSTANTS
    Hosts = {a, b}
    MaxChanges = 3
    MaxErrors = 1
SPECIFICATION HostsSpec
PROPERTIES StreamSpecs RunningStarted StoppedClosed
