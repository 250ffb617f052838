CONSTANTS
    a = a
    b = b
    Blank = Blank
    Writers = {w1, w2}
    w1 = w1
    w2 = w2
    d1 = d1
    d2 = d2
    Deciders = {d1, d2}
    Disk <- MCDisk
    Contents <- MCContents
    Texts <- MCTexts
    Missing = Missing
    NoReview = NoReview
    Free = Free
    MaxEdits = 1
SPECIFICATION FairSpec
CHECK_DEADLOCK FALSE
INVARIANTS
    TypeOK
    HunksAreRight
    OutcomeIsReviewed
PROPERTIES
    StagedIsShown
    DecisionsSettle
