SPECIFICATION Spec
CONSTANTS
    t1 = t1
    t2 = t2
    Blank = blank
    Chapters <- TwoChapters
    Texts <- SmallTexts
    MaxRuns = 1
    MaxActs = 2
SYMMETRY Symmetry
INVARIANTS
    OneHand
    ConfirmedAsReviewed
PROPERTIES
    SavedOnlyGrows
    AdoptedBehindHandover
CHECK_DEADLOCK FALSE
