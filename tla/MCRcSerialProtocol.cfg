CONSTANTS
    Streams <- MCStreams
    Chunks = {1, 7, 30}
    Losses = {9}
    Cuts = 1
SPECIFICATION Spec
INVARIANTS FramesRecovered BytesAccounted
CHECK_DEADLOCK FALSE
