CONSTANTS
  Pthread = {main, t1, t2}
  Main = main
  Address = {b1, b2}
  Content = {r1, r2}
  Null = Null
SPECIFICATION SlotSpec
INVARIANTS
  OneOwner
PROPERTIES
  IsCell
  ExitFrees
