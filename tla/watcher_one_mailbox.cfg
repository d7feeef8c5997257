SPECIFICATION FairSpec
CONSTANTS
  Clients = {c1}
  NoClient = NoClient
  Links = {k1, k2}
  NoLink = NoLink
  MailboxCounts = {1}
  FetchAttempts = 2
  MaxUid = 2
  MaxRebuilds = 0
  Threshold = 2
  MaxFailures = 2
  MaxAttempts = 3
  MaxStarts = 2
  Faults = {"expunge", "fetch", "lateError", "noExists"}
INVARIANTS
  TypeOK
  NothingSkipped
  NoDuplicateNewMail
PROPERTIES
  EventuallyAccounted
  ImplementsFeed
CHECK_DEADLOCK FALSE
