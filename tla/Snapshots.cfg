SPECIFICATION SnapshotSpec
CONSTANTS
    Fields = {frames, ready}
    MaxAttempts = 2
    MaxInterrupts = 2
    MaxFileChanges = 1
    MaxPublications = 3
    MaxRequests = 2
INVARIANTS
    PublishedIsWhole
    SnapshotIsPublished
    AnsweredSeesEffect
