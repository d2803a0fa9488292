SPECIFICATION PartsSpec
CONSTANTS
    Comments = {a1, a2, a3}
    Sizes = {"small", "large"}
    MaxLanes = 2
    LaneCounts <- MCLaneCounts
    Viewports = {"mobile", "pc"}
    Limits <- MCLimits
    Attempts = {a1, a2, a3}
    NoAttempt = none
    Variants = {1}
    Offers = {{1}}
    Credentials = {c1}
    MaxChanges = 2
    Polls = {p1, p2}
    PageSize = 1
    MaxComments = 2
    MaxTokens = 2
    MaxSends = 2
    MaxEdits = 1
    MaxRuns = 2
    Platforms = {"element", "native"}
SYMMETRY PartsSymmetry
INVARIANTS
    PartsTypeOK
    NotStranded
    AttachedIsCurrent
    LanesMatchRunning
    PagesContiguous
    ButtonsTellTheTruth
    ControlsHideOnce
    ButtonsFollowBrowser
    NoticesAreTrue
    FilesAgree
PROPERTIES
    EndedStays
CHECK_DEADLOCK FALSE
