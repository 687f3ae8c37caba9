SPECIFICATION LogSpec
CONSTANT MaxLength = 6
INVARIANT ReplayIsExact
CHECK_DEADLOCK FALSE
