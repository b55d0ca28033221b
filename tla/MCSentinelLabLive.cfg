SPECIFICATION BusySpec
CONSTANTS
    Sources = {a}
    Labels = {1}
    Noise = noise
    QueueBound = 1
    SocketBuffer = 1
    MapEntries = 1
    MaxFrames = 2
    Scores = {10, 85}
    Nobody = Nobody
    Nothing = Nothing
PROPERTIES QueuedIsRecorded CtrlCReports
CHECK_DEADLOCK FALSE
