\* Two writes among flushes, shutdowns and dropped calls; a peer of two frames.
SPECIFICATION FairSpec
CONSTANTS
    MaxWrites = 2
    MaxFrames = 2
    MaxChunk = 2
INVARIANT EofHonest
PROPERTIES ImplementsSend CallsEnd
CHECK_DEADLOCK FALSE
