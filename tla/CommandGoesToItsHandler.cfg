SPECIFICATION Spec
CONSTANT Lines <- MCLines
PROPERTY CommandGoesToItsHandler
