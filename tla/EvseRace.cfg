\* Two proposals merged in the wrong order.
SPECIFICATION Spec
CONSTANTS
  MaxEvents = 2
  Starts = {"loop"}
  Kinds = {"targets"}
  Days = {d1}
  QueueDepth = 1
INVARIANT
  CacheMatchesDevice
