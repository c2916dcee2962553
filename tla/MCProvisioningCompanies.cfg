SPECIFICATION MCSpec
CONSTANTS
  ann = ann
  ben = ben
  cem = cem
  uma = uma
  vic = vic
  x = x
  y = y
  e1 = e1
  e2 = e2
  r1 = r1
  r2 = r2
  aMail = aMail
  bMail = bMail
  cMail = cMail
  newMail = newMail
  None = None
  Emails = {aMail, bMail, cMail, newMail}
  EmailOf <- MCEmailOf
  Users = {ann, uma, vic}
  Organizations = {x, y}
  Calls = {}
  Runs = {e1, e2}
  Transactions = {e1, e2}
  Requests = {r1, r2}
  Drafts <- CompaniesDrafts
  PurgeTargets = {uma}
SYMMETRY Symmetry
INVARIANTS
  SuccessIsOfThisInvitation
  OnboardingIsOwed
PROPERTIES
  GrantsOncePerRequest
CHECK_DEADLOCK FALSE
