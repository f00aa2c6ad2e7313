SPECIFICATION MCSpec
CONSTANTS
  a = a
  b = b
  c = c
  Ids = {a, b, c}
  Recent = 2
  InFlight = 2
  Capacity = 2
  SilentTicks = 0
  MaxFrames = 4
  SlotFrames = 2
  SlotIds = {a, b}
  MaxEvents = 1
  MayStall = TRUE
INVARIANT ExchangeIsSound
INVARIANT ReplayWindow
PROPERTY SlotReturned
CHECK_DEADLOCK FALSE
