SPECIFICATION Spec
CONSTANTS
  Clients = {c1}
  NoClient = NoClient
  Links = {k1, k2}
  NoLink = NoLink
  MailboxCounts = {2}
  FetchAttempts = 2
  MaxUid = 2
  MaxRebuilds = 1
  Threshold = 1
  MaxFailures = 1
  MaxAttempts = 1
  MaxStarts = 1
  Faults = {"linger", "rebuild", "noUidNext", "noUidValidity"}
SYMMETRY ClientAndLinkSymmetry
INVARIANTS
  CountMirrorsSession
PROPERTIES
  WatermarkKept
CHECK_DEADLOCK FALSE
