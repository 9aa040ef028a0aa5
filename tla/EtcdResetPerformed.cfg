SPECIFICATION Spec
CONSTANTS
    MaxStarts = 3
INVARIANT ResetPerformed
CHECK_DEADLOCK FALSE
