SPECIFICATION StructureSpec
CONSTANTS
  Structures <- MCStructures
  TextTypes = {"text/plain", "text/html"}
  BodyCap = 1
  MaxLength = 2
INVARIANTS
  ListedIsFound
  BodyIsPreferredText
  NothingOutOfReach
