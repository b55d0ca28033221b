SPECIFICATION Spec
CONSTANTS
    BlockSize = 2
    Deadline = 20
    MaxDimensions = 3
    EventsFor <- MCEventsFor
    MaxEvents = 110
    MaxSafe = 120
    Temps = {99, 100, 120, 121}
    Latencies = {1, 2, 21}
    MaxSnapshots = 5
    ClearingSla = 50
    Times = {0, 1, 2}
    MaxSamples = 4
    Threshold = 120
    MaxFrames = 3
    Cells <- MCCells
    Scores = {88, 90}
    BwtMinThreshold <- MCBwtMinThreshold
    SeqBits = 3
    Cycles = {0, 1, 2, 7}
    HonestGradients <- MCHonestGradients
    ByzantineGradients <- MCByzantineGradients
    MaxClients = 7
    LogitPairs <- MCLogitPairs
    Attributions = {0, 1, 2}
    MaxFeatures = 3
INVARIANTS VerdictsAgree CertificateMeaning SlaCoversCompleteBlocks ClearingIsFirstBreach AlertFollowsBreach ForgettingIsSeen SessionFollowsScript KrumStaysNear SlaMeansSameRanking HandshakeReadsOwnBytes
PROPERTIES MatrixIsTextbook PercentilesBracketed
CONSTRAINT Bounds
CHECK_DEADLOCK FALSE
