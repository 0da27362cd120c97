SPECIFICATION Spec
CONSTANTS
  NULL = NULL
  Thread = {"idle", "t1", "t2", "t3"}
  List = {"ready", "running"}
  Cell <- ThreadCells
  Node <- ThreadNodes
  Priority = {0, 1, 2}
  AnchorIsNode = FALSE
INVARIANTS
  InItsList
