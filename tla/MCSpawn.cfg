CONSTANTS
  one = one
  two = two
  Thread = {one, two}
  Fd <- MCFd
  in = in
  out = out
  err = err
  file = file
  other = other
  Streams = {in, out, err}
  Opened = {file, other}
  Tables <- MCTables
  Requests <- MCRequests
SPECIFICATION Spec
INVARIANTS
  GivesWhatWasAsked
  AnswersTruly
  OpenedStaysBehind
  NothingLeft
PROPERTIES
  StartIsAnswered
CHECK_DEADLOCK FALSE
