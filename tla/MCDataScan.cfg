SPECIFICATION Spec
INVARIANT ScanComplete
CHECK_DEADLOCK FALSE
