CONSTANTS
    Hosts = {a, b}
    MaxChanges = 2
    MaxErrors = 0
SPECIFICATION HostsSpec
PROPERTIES LiveTail
