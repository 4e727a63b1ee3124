SPECIFICATION Spec
INVARIANT MainReady
CHECK_DEADLOCK FALSE
