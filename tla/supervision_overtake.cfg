SPECIFICATION SupSpec
CONSTANTS
  Clients = {c1, c2, c3}
  NoClient = NoClient
  MailboxCounts = {0, 2}
  Threshold = 2
  MaxFailures = 2
  MaxAttempts = 3
  MaxStarts = 2
  Faults = {"overtake", "linger", "lateError"}
SYMMETRY ClientSymmetry
INVARIANTS
  SupTypeOK
  NeverAbandoned
CHECK_DEADLOCK FALSE
