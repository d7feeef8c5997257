SPECIFICATION OpsSpec
CONSTANTS
  Callers = {c1, c2}
  Accounts = {a1, a2}
  NoAccount = NoAccount
  ReadOnly = {a2}
  MatchingIds = {}
  Ops = {"export_message", "move_message", "create_draft"}
  StorageConfigs = {TRUE}
  LateResets = FALSE
SYMMETRY CallerSymmetry
INVARIANTS
  OpsTypeOK
  ReadOnlyUntouched
  AnswerMatchesEffect
  NoSessionLeaks
CHECK_DEADLOCK FALSE
