SPECIFICATION Spec
CONSTANTS
  Clients = {c1, c2}
  NoClient = NoClient
  Links = {k1, k2}
  NoLink = NoLink
  MailboxCounts = {2}
  FetchAttempts = 2
  MaxUid = 2
  MaxRebuilds = 0
  Threshold = 2
  MaxFailures = 1
  MaxAttempts = 2
  MaxStarts = 1
  Faults = {}
SYMMETRY ClientAndLinkSymmetry
INVARIANTS
  CaughtUp
CHECK_DEADLOCK FALSE
