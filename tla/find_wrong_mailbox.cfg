SPECIFICATION Spec
CONSTANTS
  Clients = {c1}
  NoClient = NoClient
  Links = {k1, k2}
  NoLink = NoLink
  MailboxCounts = {2}
  FetchAttempts = 2
  MaxUid = 2
  MaxRebuilds = 0
  Threshold = 1
  MaxFailures = 1
  MaxAttempts = 1
  MaxStarts = 1
  Faults = {}
SYMMETRY ClientAndLinkSymmetry
INVARIANTS
  NewMailNamesMessage
CHECK_DEADLOCK FALSE
