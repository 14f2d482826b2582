SPECIFICATION FairSpec
CONSTANT Total = 5
PROPERTY CloseStopsTelemetry
