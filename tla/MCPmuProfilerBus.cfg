SPECIFICATION Spec
CONSTANTS
    Callers = {p}
    Descriptors = {3, 4, 5, 6, 7}
    MaxCount = 1
    Closed = Closed
    Unused = Unused
    Other = Other
    Nobody = Nobody
INVARIANT BusCyclesAreProfiled
