\* One fetch, and an action that shares its pause.
CONSTANTS
    f1 = f1
    a1 = a1
    Fetch = {f1}
    Req = {f1, a1}
    MaxRetries = 1
    MaxPause = 1
    ScanRestarts = 1
    PageRereads = 1
    MaxPages = 6
    PageSize = 2
    Sizes = {5}
    MaxRows = 5
SPECIFICATION Spec
INVARIANTS
    ReportsWhatHappened
    ReturnsTheWholeFeed
PROPERTIES
 FetchesEnd
