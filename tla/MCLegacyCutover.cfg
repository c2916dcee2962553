SPECIFICATION Spec
CONSTANTS
    t1 = t1
    t2 = t2
    laptop = laptop
    phone = phone
    None = None
    Tabs = {t1, t2}
    Devices = {laptop, phone}
    Ids <- TheIds
    Forms = {"v1", "v2"}
    Lists <- TheLists
    ListOf <- TheListOf
    SameSku <- TheTwins
    Scenes <- TheScenes
    MaxFaults = 1
INVARIANTS
    MarkedDevicesHoldNothing
    ImportedOnce
PROPERTIES
    RetiresOnlyWhatIsKept
    UpgradeIsProtected
    EveryActionEnds
CHECK_DEADLOCK FALSE
