SPECIFICATION AccountsSpec
CONSTANTS
  x1 = x1
  x2 = x2
  y1 = y1
  y2 = y2
  job = job
  email = email
  Sids <- TwoX
  Handlers <- TwoY
  MaxRotations = 1
  MaxFaults = 1
  Operations <- AllOps
  Orgs <- TwoX
  Emails <- OneEmail
  Personal = Personal
  NoUser = NoUser
  MaxInvitations = 2
  FreeSeats = 1
  Clients <- TwoY
  Copilots <- TwoY
  Jobs <- OneJob
  Costs <- CostsChecked
  Limit = 1
  MaxSpent = 2
  MaxChanges = 2
  MaxLlmFaults = 1
CHECK_DEADLOCK FALSE
SYMMETRY Symmetry
INVARIANTS
  AccountsTypeOK
  OneLiveToken
  RowNamesToken
  NoRenewalAfterRevocation
  ListedIsRenewable
  InvitationsHonoured
  OverrunBounded
  NativesLastResort
PROPERTIES
  AcceptedStays
