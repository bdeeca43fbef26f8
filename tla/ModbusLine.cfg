SPECIFICATION Spec
CONSTANTS
    WriteLen <- MCWriteLen
    ReadLen <- MCReadLen
    MAX_STRLEN = 5
    MaxCalls <- MCMaxCalls
    MaxFaults = 1
INVARIANTS TypeOK ConfirmedMeansApplied CleanBetweenCalls LineGoesOn
PROPERTY CallEnds
CHECK_DEADLOCK FALSE
