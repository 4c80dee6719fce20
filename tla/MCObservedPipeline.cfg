SPECIFICATION ObservedSpec
CONSTANTS
  Stages = {s1, s2, s3}
  Ids = {a, b}
  NoStage = NoStage
  MaxActs = 3
  NoDetail = NoDetail
  NoEvent = NoEvent
INVARIANTS
  EventsDelivered
  HooksPaired
PROPERTIES
  RunIsSeen
