\* Two endpoints, two begins, one reboot and two changes of the callback.
SPECIFICATION FairSpec
CONSTANTS
  e1 = e1
  e2 = e2
  light = light
  fan = fan
  Endpoints = {e1, e2}
  TypeOf <- MCTypeOf
  Stored <- MCStored
  MaxBegins = 2
  MaxReboots = 1
  MaxToggles = 2
INVARIANTS
  AdoptedIds
  AppliesBounded
  ArmScoped
  SeenMeansApplied
  StateResent
PROPERTIES
  BeginEnds
  SubscriptionFollows
