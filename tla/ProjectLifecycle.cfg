CONSTANTS
    Files = {compose, override}
    MaxChanges = 3
    MaxSelects = 2
SPECIFICATION Spec
INVARIANTS OnlyOffered
PROPERTIES SingleFileLoads LeavesDashboard
CHECK_DEADLOCK FALSE
