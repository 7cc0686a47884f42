SPECIFICATION FairSpec
CONSTANTS
  c1 = c1
  c2 = c2
  c3 = c3
  p1 = p1
  Client = {c1, c2, c3}
  Proc = {p1, p2}
  Nobody = Nobody
  Timer = Timer
  Scenarios <- Mix
  Slots = 1
INVARIANTS
  RootOfTheRequest
  WaitedReplyIsSettled
  ToldIsOnFile
PROPERTIES
  RequestsAnswered
