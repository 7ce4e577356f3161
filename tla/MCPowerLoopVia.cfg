SPECIFICATION Spec
CONSTANTS
  Key = {k1}
  DebounceTimes = {1}
  Timeouts <- TwoSettings
  Grace = 2
  FlushDelay = 2
  FlushWait = 1
  FlushTicks = 0
  SleepDelay = 1
  MaxTime = 6
  RenderRounds = 1
  FlashFails = FALSE
  KeyEdits = FALSE
  UsbOn = TRUE
  ViaOn = TRUE
  HostLeds = TRUE
INVARIANTS SuspendedAsWanted AnimationGoesOn FlushInTime SleepsOnTime LedReportSeen
