SPECIFICATION PagingSpec
CONSTANTS
  MaxUid = 6
  Limits = {1, 2}
  MaxPages = 4
INVARIANTS
  PagingTypeOK
  NewestIncluded
  ShortPagesMissNothing
CHECK_DEADLOCK FALSE
