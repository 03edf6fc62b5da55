SPECIFICATION Spec
CONSTANTS
    d1 = d1
    Drafts = {d1}
    Uploads <- SmallUploads
    MaxFiles = 3
    MaxFileSize = 2
    MaxTotalSize = 3
    MaxRatio = 2
    MaxChapters = 3
    MaxRevision = 3
    Archives <- SmallArchives
    NewProjects = {"new"}
    MaxStarts = 3
    MaxCrashes = 1
INVARIANTS
    ChaptersComplete
    FrozenAgrees
PROPERTIES
    NeverTakenBack
CHECK_DEADLOCK FALSE
