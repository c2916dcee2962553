SPECIFICATION ScreenSpec
CONSTANTS
    Ids = {1}
    People = {ann, bob}
    Nobody = nobody
    Reader = ann
    Reads = {r1}
    PageSize = 2
    MaxRows = 2
    MaxPages = 1
    MaxTraversals = 2
    RequestsFail = TRUE
    MaxVersion = 3
PROPERTY OverwritesOnlyWhatWasRead
