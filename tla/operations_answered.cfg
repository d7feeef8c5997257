SPECIFICATION OpsFairSpec
CONSTANTS
  Callers = {c1}
  Accounts = {a1, a2}
  NoAccount = NoAccount
  ReadOnly = {a2}
  MatchingIds = {}
  Ops = {"list_accounts", "list_mailboxes", "list_messages", "get_message", "get_attachment", "export_message",
         "move_message", "set_flags", "create_draft"}
  StorageConfigs = {TRUE, FALSE}
  LateResets = TRUE
INVARIANTS
  AnswerMatchesEffect
  NotFoundIsTrue
  FrontsAgree
  MetricTellsAnswer
PROPERTIES
  EveryRequestAnswered
CHECK_DEADLOCK FALSE
