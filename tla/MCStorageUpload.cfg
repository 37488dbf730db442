\* Two uploads of one session, its finalize request and cleanup.
SPECIFICATION UploadSpec
CONSTANT None = None
INVARIANT RegisteredStays
CHECK_DEADLOCK FALSE
