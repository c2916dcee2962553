SPECIFICATION MCSpec
CONSTANTS
  ann = ann
  ben = ben
  cem = cem
  uma = uma
  vic = vic
  x = x
  y = y
  e1 = e1
  e2 = e2
  r1 = r1
  r2 = r2
  aMail = aMail
  bMail = bMail
  cMail = cMail
  newMail = newMail
  None = None
  Emails = {aMail, bMail, cMail, newMail}
  EmailOf <- MCEmailOf
  Users = {ann, ben, cem}
  Organizations = {x}
  Calls = {k1}
  Runs = {e1}
  Transactions = {e1, k1}
  Requests = {r1}
  Drafts <- ColleaguesDrafts
  PurgeTargets = {cem}
INVARIANTS
  KeepsAnActiveOwner
PROPERTIES
  WritesUnderAuthority
  EveryoneIsAnswered
CHECK_DEADLOCK FALSE
