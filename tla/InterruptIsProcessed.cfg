SPECIFICATION Spec
CONSTANT MaxLines = 2
PROPERTY InterruptIsProcessed
CHECK_DEADLOCK FALSE
