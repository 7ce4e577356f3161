SPECIFICATION FairSpec
CONSTANTS
  Key = {k1, k2}
  DebounceTimes = {2}
  Timeouts <- PastGrace
  Grace = 7
  FlushDelay = 8
  FlushWait = 2
  FlushTicks = 0
  SleepDelay = 2
  MaxTime = 10
  RenderRounds = 3
  FlashFails = FALSE
  KeyEdits = TRUE
  UsbOn = FALSE
  ViaOn = FALSE
  HostLeds = FALSE
INVARIANTS SettledAsleep RailFollowsRgb RgbSavedAsleep
PROPERTY UnattendedSleeps
