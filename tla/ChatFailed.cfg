SPECIFICATION Spec
CONSTANT Call = {c1}
INVARIANT FailedWasNotServed
CHECK_DEADLOCK FALSE
