CONSTANTS
  Thread = {main, other}
  Caller = {main}
  Reader = {main}
  Signal = {int, kill}
  Uncatchable = {kill}
  Pipe = {p, q}
  Room = 1
  None = None
SPECIFICATION Spec
INVARIANTS
  SignalsFindTheirReader
  ErrnoIsOwn
PROPERTIES
  StopRestores
CHECK_DEADLOCK FALSE
