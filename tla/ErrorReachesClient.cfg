SPECIFICATION SafeSpec
CONSTANTS
    SpeedArgs = {50, 700, 65586}
    RampArgs = {20, 301}
    DownArgs = {5000}
    Readings = {7}
    QueueLength = 2
INVARIANT ErrorReachesClient
CHECK_DEADLOCK FALSE
