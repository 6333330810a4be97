\* Two deliveries, three requests, two at a time, two faults.
SPECIFICATION Spec
CONSTANTS
    Deliveries = {d1, d2}
    Slots = {s1, s2}
    MaxSends = 3
    MaxFaults = 2
INVARIANTS
    EnqueuedOnce
    ForgeriesLeaveNoTrace
CHECK_DEADLOCK FALSE
