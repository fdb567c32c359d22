SPECIFICATION Spec
CONSTANT Indices = {0, 1, 6, 7}
INVARIANT Ranked
PROPERTY NeverPromoted
CHECK_DEADLOCK FALSE
