SPECIFICATION Spec
CONSTANTS
    MaxActivities = 1
    MaxFailures = 0
INVARIANTS
    NoStaleCard
CHECK_DEADLOCK FALSE
