SPECIFICATION Spec
INVARIANTS
  ParseRight
  ReadsBack
  SplitRight
  WordsRight
  LexRight
  RewriteRight
  ArithRight
PROPERTIES
  StreamSpec
  MatchRight
CHECK_DEADLOCK FALSE
