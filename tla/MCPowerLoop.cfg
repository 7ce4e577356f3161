SPECIFICATION Spec
CONSTANTS
  Key = {k1}
  DebounceTimes = {2}
  Timeouts <- RgbStays
  Grace = 3
  FlushDelay = 4
  FlushWait = 2
  FlushTicks = 0
  SleepDelay = 2
  MaxTime = 9
  RenderRounds = 2
  FlashFails = TRUE
  KeyEdits = TRUE
  UsbOn = TRUE
  ViaOn = FALSE
  HostLeds = FALSE
INVARIANTS TypeOK SuspendedAsWanted OffIsDark SuspendedIsDark SuspendNeedsHost
PROPERTY SleepDecision
