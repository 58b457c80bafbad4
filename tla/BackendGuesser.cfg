SPECIFICATION FairSpec
CONSTANTS
  image = image
  chat = chat
  painter = painter
  writer = writer
  FindSD = FindSD
  Nothing = Nothing
  Request = {image, chat}
  Model = {painter, writer}
  TypeOf <- MCTypeOf
  Asks <- MCAsks
  TTL = 1
  Timeout = 1
  Loads = {painter}
  MaxClock = 3
INVARIANTS
  TypeOK
  RoutedToRunning
  NotFoundIsTrue
PROPERTIES
  RequestsEnd
CHECK_DEADLOCK FALSE
