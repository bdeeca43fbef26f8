SPECIFICATION Spec
CONSTANTS
    WriteLen <- MCWriteLen
    ReadLen <- MCReadLen
    MAX_STRLEN = 5
    MaxCalls <- MCMaxCalls
    MaxFaults = 1
INVARIANT CommandCanReturn
CHECK_DEADLOCK FALSE
