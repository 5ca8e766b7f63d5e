SPECIFICATION Spec
INVARIANTS Represents Answers
PROPERTY DictIsMap
CHECK_DEADLOCK FALSE
