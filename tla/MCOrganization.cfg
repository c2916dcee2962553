SPECIFICATION MCSpec
CONSTANTS
  c1 = c1
  c2 = c2
  x = x
  None = None
  Absent = Absent
  Unreadable = Unreadable
  Values = {"1"}
  Zero = "1"
  Scale <- MCScale
  RecordIds = {1, 2, 3}
  MaxRecords = 2
  u1 = u1
  u2 = u2
  u3 = u3
  Users = {u1, u2, u3}
  Administered = {u2}
  IdOf <- MCIdOf
  Calls = {c1, c2}
  Transactions = {c1, c2}
  Organizations = {x}
  Company = x
  Person = u2
  ScreenCalls = {c1}
  Loads = {l1}
  Invitations = {i0, i1, i2}
  EmptyInvitation = i0
  Malformed = {i2}
  MaxEditions = 3
  Accounts = {u1, u2}
  InitialStores <- MCInitialStores
  Creations <- MCCreations
  Details <- MCDetails
  MaxVersion = 3
  MaxEdits = 2
INVARIANTS
  LastOwnerGuardIsUnreachable
  InvitationsKeepTheirId
  FilesAreComplete
  ExportsReadBack
  ReadingIsWritingBack
PROPERTIES
  ChangesOnlyWhatWasSeen
  OffersWhatIsAccepted
CHECK_DEADLOCK FALSE
