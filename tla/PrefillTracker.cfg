SPECIFICATION FairSpec
CONSTANTS
  first = first
  retry = retry
  a1 = a1
  a = a
  Absent = Absent
  Stream = {first, retry}
  Key = {a1}
  KeyOf <- MCKeyOf
  Session = {a}
  SessionOf <- MCSessionOf
  Event <- MCEvent
  TTL = 2
  DoneTTL = 1
  MaxEvents = 2
INVARIANTS
  TypeOK
  RestingSessionIsDone
  RestingRecordIsDone
  PushFollowsRecord
PROPERTIES
  RecordsGoAway
CHECK_DEADLOCK FALSE
