SPECIFICATION Spec
CONSTANTS
    Sources = {a}
    Labels = {1}
    Noise = noise
    QueueBound = 1
    SocketBuffer = 1
    MapEntries = 1
    MaxFrames = 1
    Scores = {10}
    Nobody = Nobody
    Nothing = Nothing
PROPERTY CtrlCReports
CHECK_DEADLOCK FALSE
