CONSTANTS
    Items <- MCItems
    Tracks = {t1, t2}
    Formats = {"m4a", "webm"}
    Attempts = 2
    Deaths = 1
    Cancels = 1
    Lapses = 1
    NoTrack = NoTrack
    Duration = 11
    ChunkSize = 6
    Overlap = 2
    Speech <- MCSpeech
SPECIFICATION FairSpec
CHECK_DEADLOCK FALSE
INVARIANTS
    HeardOnce
    OneAudioFile
    PublishedAsClaimed
    InputIsKept
    MediaIsDisposed
PROPERTIES
    HandlerEnds
