\* Events on their way to two streams and to a feed request, with a pool of two
\* connections, failing streams and deaths of the process.
CONSTANTS
  Reader = {r1}
  MaxItems = 2
  MaxEvents = 4
  MaxGrowth = 3
  Stream = {"redis", "log"}
  MaxActive = 2
  MaxCallers = 1
  MaxTasks = 3
SPECIFICATION FairDelivery
INVARIANTS TypeOK KeepsLatest ReadersUndisturbed EventsConserved
PROPERTIES SharedItemsFrozen EventsArrive
CHECK_DEADLOCK FALSE
