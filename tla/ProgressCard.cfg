SPECIFICATION Spec
CONSTANTS
    MaxActivities = 3
    MaxFailures = 2
INVARIANT EndIsShown
PROPERTY HeartbeatsEnd
CHECK_DEADLOCK FALSE
