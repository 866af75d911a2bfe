CONSTANTS
  Handle = {h1, h2, h3, h4}
  Block = {b1, b2}
  None = None
SPECIFICATION Spec
INVARIANTS
  NoUseAfterFree
  ReleasedOnce
PROPERTIES
  EventuallyFreed
