SPECIFICATION Safety
CONSTANTS
    Sources = {a}
    Labels = {1}
    Noise = noise
    QueueBound = 1
    SocketBuffer = 1
    MapEntries = 1
    MaxFrames = 1
    Scores = {10, 85}
    Nobody = Nobody
    Nothing = Nothing
INVARIANT TruePositivesAreDropped
CHECK_DEADLOCK FALSE
