SPECIFICATION Spec
CHECK_DEADLOCK FALSE
INVARIANT ProductRight
