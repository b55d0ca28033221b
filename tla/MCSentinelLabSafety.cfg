SPECIFICATION Safety
CONSTANTS
    Sources = {a, b}
    Labels = {1}
    Noise = noise
    QueueBound = 1
    SocketBuffer = 1
    MapEntries = 1
    MaxFrames = 3
    Scores = {10, 85}
    Nobody = Nobody
    Nothing = Nothing
SYMMETRY Symmetry
INVARIANTS TypeOK Accounting VerdictsAreBacked ReportIsFinal NoUseAfterDestroy
PROPERTY TelemetryMonotone
CHECK_DEADLOCK FALSE
