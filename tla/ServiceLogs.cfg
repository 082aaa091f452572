CONSTANTS
  Follower = {f1, f2}
  None = None
  HistoryTail = 1
  MaxPage = 2
  Limits = {2, 3}
  MaxLines = 4
  MaxBlank = 1
  MaxAsked = 1
SPECIFICATION Spec
SYMMETRY Symmetry
INVARIANTS TypeOK OnlyOpenStreamsRun 
PROPERTIES ShownOnce
