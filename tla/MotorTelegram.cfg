SPECIFICATION Spec
CONSTANTS
    SpeedArgs = {50, 700, 65586}
    RampArgs = {20, 301}
    DownArgs = {5000}
    Readings = {7}
    QueueLength = 2
INVARIANTS TypeOK OneTelegram NothingHalfDone SuccessShowsOnDrive OnlyWaitsForMessage
PROPERTIES NoWriteAfterAnswer Answered ImplementsToken
CHECK_DEADLOCK FALSE
