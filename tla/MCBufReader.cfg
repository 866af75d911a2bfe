CONSTANTS
  Last = 5
  Size = 3
  UtfMax = 2
  Delims = {4}
  Returns = {3}
  Width <- MCWidth
  Lookahead <- MCLookahead
  Clients <- MCClients
  MaxOwed = 1
SPECIFICATION Spec
INVARIANTS
  StreamIntact
  NoFailureLost
  NothingDropped
PROPERTIES
  FailureInPlace
  EdgeDoesNotShow
  CallsEnd
