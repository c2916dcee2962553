SPECIFICATION MCSpec
CONSTANTS
    Ids = {1, 2, 3, 4}
    People = {ann, bob}
    Nobody = nobody
    Reader = ann
    Reads = {r1}
    PageSize = 2
    MaxRows = 1
    MaxPages = 3
    MaxTraversals = 2
    RequestsFail = TRUE
    MaxVersion = 1
    Absent = absent
    Unreadable = unreadable
    Values = {"0", "7", "1.5", "1.125"}
    Zero = "0"
    Scale <- MCScale
    Drafts <- MCDrafts
    Inputs <- MCInputs
    LegacyRecords <- MCLegacy
    s1 = s1
    Status = s1
    MaxWrites = 2
INVARIANTS StoredRowsAreExportable ImportsMatchTheirSource FactorsStayReadable
PROPERTIES ReadsAreComplete EveryReadEnds FormsSayFirst
