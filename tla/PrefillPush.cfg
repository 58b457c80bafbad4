SPECIFICATION FairPushSpec
CONSTANTS
  first = first
  second = second
  a1 = a1
  a2 = a2
  a = a
  Absent = Absent
  Stream = {first, second}
  Key = {a1, a2}
  KeyOf <- MCKeyOf
  Session = {a}
  SessionOf <- MCSessionOf
  Event <- MCEvent
  TTL = 0
  DoneTTL = 0
  MaxEvents = 1
  Client = {c1}
  Message <- PushMessage
  SendCap = 1
INVARIANTS
  HubTypeOK
  ClientLearnsDone
PROPERTIES
  StreamGoesOn
  GoneIsReleased
CHECK_DEADLOCK FALSE
