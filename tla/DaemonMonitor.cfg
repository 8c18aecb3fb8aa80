\* The durations of connection.go:18, topbar.go and docker/service.go.
CONSTANTS
    RetryInterval = 10
    GracePeriod = 10
    RequestTimeout = 5
    TickInterval = 1
    PollInterval = 2
SPECIFICATION Spec
INVARIANTS MonitorAlive SinglePing
PROPERTIES ShowsTruth Retries
