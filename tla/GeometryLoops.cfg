SPECIFICATION Spec
INVARIANT EveryWireAdapts
CHECK_DEADLOCK FALSE
