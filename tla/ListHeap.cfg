SPECIFICATION ListSpec
CONSTANTS
  NULL = NULL
  List = {"a", "b"}
  Cell = {"n1", "n2", "n3", "n4"}
  Node = {"n1", "n2", "n3", "n4"}
INVARIANT RingsClosed
PROPERTY ImplementsSequences
