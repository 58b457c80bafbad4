SPECIFICATION Spec
CONSTANTS
  old = old
  new = new
  other = other
  post = post
  tab = tab
  laptop = laptop
  None = None
  Note = Note
  Conn = {old, other}
  Post = {}
  ClientId = {tab, laptop}
  ClientOf <- MCClientOf
  Cap = 1
  MaxFrames = 1
INVARIANTS
  FanOutCompletes
CHECK_DEADLOCK FALSE
