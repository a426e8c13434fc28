SPECIFICATION Spec
CONSTANTS
  any = any
  AnySlot = any
  NumEvents = 4
  NSlots = 4
  Masks <- SomeMasks
INVARIANTS TypeOK ResultIsMatching SkipsOnlyIfUnavoidable
