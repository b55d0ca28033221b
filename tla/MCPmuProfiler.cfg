SPECIFICATION Spec
CONSTANTS
    Callers = {p, q}
    Descriptors = {3, 4, 5, 6, 7}
    MaxCount = 1
    Closed = Closed
    Unused = Unused
    Other = Other
    Nobody = Nobody
SYMMETRY Symmetry
INVARIANTS TypeOK OwnDescriptors NoLeak ReadsLiveSession MeasuredThisSession
CONSTRAINT Bounds
