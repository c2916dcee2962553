SPECIFICATION LinkSpec
CONSTANTS
  t1 = t1
  t2 = t2
  pia = pia
  quinn = quinn
  x = x
  y = y
  z = z
  Tabs = {t1, t2}
  People = {pia, quinn}
  Organizations = {x, y, z}
  Nobody = Nobody
  Undecided = Undecided
  Companies <- MCCompanies
  Links <- LinkOfQuinn
  BootIdentityAttempts = 3
  RequestsFail = TRUE
  MaxActs = 2
  MaxChanges = 1
  MaxTurns = 2
PROPERTIES
  EveryTabDecides
CHECK_DEADLOCK FALSE
