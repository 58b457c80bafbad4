SPECIFICATION Spec
CONSTANTS
  old = old
  new = new
  other = other
  post = post
  tab = tab
  laptop = laptop
  None = None
  Note = Note
  Conn = {old, new, other}
  Post = {}
  ClientId = {tab, laptop}
  ClientOf <- MCClientOf
  Cap = 1
  MaxFrames = 1
INVARIANTS
  TypeOK
  ListedIsOpen
  UniqueStaysListed
  NoCommitMissed
CHECK_DEADLOCK FALSE
