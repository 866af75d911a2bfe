CONSTANTS
  Last = 6
  Size = 3
  UtfMax = 2
  Longest = 5
SPECIFICATION Spec
INVARIANTS
  StreamIntact
PROPERTIES
  SinkLeftAlone
  CountWhenFailing
  CallsEnd
