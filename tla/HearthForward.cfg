\* Verdicts, pushes and deferred fetches: two commands, from begin() on.
SPECIFICATION FairSpec
CONSTANTS
  MaxEvents = 2
  Starts = {"begin"}
  Kinds = {"boost", "cancel", "targets"}
  Days = {d1}
  QueueDepth = 1
INVARIANTS
  VerdictBeforePush
  VerdictKept
  LastErrorOwn
PROPERTIES
  ForwardsResolved
