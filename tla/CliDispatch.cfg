SPECIFICATION Spec
CONSTANT Lines <- MCLines
INVARIANTS TypeOK CursorsAgree Resynchronises
PROPERTIES HelpInOrder EmptyLineRepeats
