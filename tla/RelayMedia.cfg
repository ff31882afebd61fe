CONSTANTS
    Ingest = "rtsp"
    Identified = TRUE
    MaxTime = 7
    MaxMedia = 2
    MaxTrouble = 1
SPECIFICATION Spec
CHECK_DEADLOCK FALSE
INVARIANTS SilenceNoticed
PROPERTIES RetiredStays ResetEarned Recovered
