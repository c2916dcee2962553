SPECIFICATION TabsSpec
CONSTANTS
  t1 = t1
  t2 = t2
  pia = pia
  quinn = quinn
  x = x
  y = y
  z = z
  Tabs = {t1, t2}
  People = {pia, quinn}
  Organizations = {x, y, z}
  Nobody = Nobody
  Undecided = Undecided
  Companies <- MCCompanies
  Links <- LinkOfQuinn
  BootIdentityAttempts = 3
  RequestsFail = TRUE
  MaxActs = 2
  MaxChanges = 1
  MaxTurns = 3
  Pages = {t1, t2}
  BuildOf <- MCBuildOf
  Latest = 4
  Keys = {"k1", "k2", "k3"}
  StoreOf <- MCStoreOf
  Indexes = {"active", "sku"}
  Declared <- MCDeclared
  Drops <- MCDrops
  Rewrites <- MCRewrites
  Missing = Missing
  MaxOpenings = 3
  MaxFailures = 1
INVARIANTS
  SettledTabsShowTheSession
  DatabaseIsOfItsVersion
PROPERTIES
  OneChangeIsNoticed
  OpeningLosesNothing
CHECK_DEADLOCK FALSE
