SPECIFICATION SupFairSpec
CONSTANTS
  Clients = {c1, c2, c3}
  NoClient = NoClient
  MailboxCounts = {0, 1, 2}
  Threshold = 2
  MaxFailures = 3
  MaxAttempts = 5
  MaxStarts = 1
  Faults = {"linger"}
INVARIANTS
  AtMostOneConnection
  NoForgottenListeners
  AttemptsAccounted
  ClientIsHeard
PROPERTIES
  Recovery
  ReleasedAfterStop
  ImplementsPolicy
CHECK_DEADLOCK FALSE
