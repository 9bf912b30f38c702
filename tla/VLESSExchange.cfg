SPECIFICATION Spec
CONSTANT HostLens = {3, 12, 13, 20}
CHECK_DEADLOCK FALSE
INVARIANT Served
