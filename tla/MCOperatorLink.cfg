SPECIFICATION FairSpec
CONSTANTS
  Statuses = {idle, armed}
  idle = idle
  armed = armed
  Commands = {"arm"}
  Requests = {first, second}
  first = first
  second = second
  Unpublished = Unpublished
  NoRequest = NoRequest
INVARIANTS
  PublishedReachesClient
  ResponseIsTheRequests
  LongOnlyWhenNegotiated
  ClientMovesWhileConnected
PROPERTIES
  LinkOnceBothReady
  ClientLearnsMode
  TelemetryKeepsComing
