SPECIFICATION Spec
CONSTANT MaxInterrupts = 2
INVARIANTS TypeOK OwnAnswer CleanBetween NoStaleGive NeverStuck
PROPERTY TransferEnds
CHECK_DEADLOCK FALSE
