SPECIFICATION Spec
CONSTANTS
    Callers = {worker, admin}
    Ips = {a, b, c}
    Malformed = {garbled}
    MapEntries = 2
    MaxDrops = 2
    Nobody = Nobody
SYMMETRY Symmetry
INVARIANTS TypeOK MirrorAgrees NothingLeftAttached
PROPERTIES TrueMeansInKernel CountersOnlyGrow
CHECK_DEADLOCK FALSE
