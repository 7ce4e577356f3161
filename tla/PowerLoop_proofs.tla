-------------------------- MODULE PowerLoop_proofs --------------------------
(***************************************************************************)
(* What the main loop guarantees for every key set, every setting of the   *)
(* timeouts and every order of keys, USB messages, LED reports and VIA     *)
(* commands. The inductive invariants: SleepInv (what the loop decided     *)
(* stays right until its sleep ends, or it is about to be woken), DarkInv  *)
(* and SuspendNeedsHost, each next to TypeOK.                              *)
(***************************************************************************)
EXTENDS PowerLoop, TLAPS

\* The constants, in the form the provers need them.
LEMMA Times ==
  /\ MaxTime \in Nat /\ Grace \in Nat /\ SleepDelay \in Nat /\ SleepDelay > 0
  /\ FlushTicks \in Nat /\ FlushWait \in Nat /\ FlushWait > 0
  /\ QuietMax \in Nat /\ RenderRounds \in Nat \ {0}
  /\ Forever = -1
BY TimeAssumption DEF QuietMax, Forever

LEMMA TimeoutTypes ==
  \A t \in Timeouts : /\ t.idle \in 0 .. MaxTime
                      /\ t.rgb \in 0 .. MaxTime
                      /\ t.sleep \in 0 .. MaxTime
BY TimeoutAssumption

-----------------------------------------------------------------------------
(* The parts the actions are made of.                                      *)

LEMMA GiveType ==
  ASSUME TypeOK, Give PROVE left' \in Int /\ left' >= Forever /\ sem' \in BOOLEAN
<1>1. (left' = 0 /\ sem' = sem) \/ (left' = left /\ sem' = TRUE)
  BY Zenon DEF Give
<1>2. left \in Int /\ left >= Forever /\ sem \in BOOLEAN
  BY DEF TypeOK
<1>3. sem' \in BOOLEAN
  BY <1>1, <1>2, Zenon
<1>4. left' \in Int /\ left' >= Forever
  BY <1>1, <1>2, Times
<1>5. QED
  BY <1>3, <1>4

LEMMA PowerType ==
  ASSUME TypeOK, SuspendUpdate \/ PowerDown
  PROVE  /\ suspended' \in BOOLEAN
         /\ rgb_on' \in BOOLEAN /\ rgb_task_state' \in RgbTask /\ rail' \in BOOLEAN
         /\ drawn' \in 0 .. RenderRounds - 1
         /\ host_leds' \in BOOLEAN /\ last_led_status' \in BOOLEAN
         /\ caps_led' \in BOOLEAN
         /\ dirty' \in BOOLEAN /\ rgb_unsaved' \in BOOLEAN /\ quiet' \in 0 .. QuietMax
<1>1. drawn' \in 0 .. RenderRounds - 1
  <2>1. drawn' = drawn \/ drawn' = 0
    BY Zenon DEF SuspendUpdate, PowerDown, Wakeup, rgbVars
  <2>2. QED
    BY <2>1, Times DEF TypeOK
<1>2. /\ dirty' \in BOOLEAN /\ rgb_unsaved' \in BOOLEAN
      /\ quiet' \in 0 .. QuietMax
  <2>1. UNCHANGED eeVars \/ SettingsEdited(FALSE)
    BY Zenon DEF SuspendUpdate, PowerDown, Wakeup
  <2>2. CASE UNCHANGED eeVars
    BY <2>2 DEF TypeOK, eeVars
  <2>3. CASE SettingsEdited(FALSE)
    <3>1. dirty' \in BOOLEAN /\ rgb_unsaved' \in BOOLEAN
      BY <2>3, Zenon DEF SettingsEdited
    <3>2. quiet' = 0 \/ quiet' = quiet
      BY <2>3, Zenon DEF SettingsEdited
    <3>3. QED
      BY <3>1, <3>2, Times DEF TypeOK
  <2>4. QED
    BY <2>1, <2>2, <2>3
<1>3. QED
  BY <1>1, <1>2 DEF TypeOK, SuspendUpdate, PowerDown, Wakeup, RgbTask, rgbVars, ledVars

\* The last step of the RGB task before a suspension may save, and changes nothing else
\* of the settings.
LEMMA PowerSaves ==
  ASSUME TypeOK, SuspendUpdate \/ PowerDown \/ UNCHANGED eeVars
  PROVE  /\ quiet' = 0 \/ (quiet' = quiet /\ (dirty' => dirty))
         /\ rgb_unsaved' => rgb_unsaved
<1>1. UNCHANGED eeVars \/ (SettingsEdited(FALSE) /\ rgb_on' = rgb_on)
  BY Zenon DEF SuspendUpdate, PowerDown, Wakeup
<1>2. CASE UNCHANGED eeVars
  BY <1>2 DEF eeVars
<1>3. CASE SettingsEdited(FALSE) /\ rgb_on' = rgb_on
  <2>1. CASE SavesRgb
    BY <1>3, <2>1, Zenon DEF SettingsEdited
  <2>2. CASE ~SavesRgb
    <3>1. dirty' = (dirty \/ FALSE \/ SavesRgb) /\ dirty \in BOOLEAN /\ rgb_unsaved \in BOOLEAN
      BY <1>3, Zenon DEF SettingsEdited, TypeOK
    <3>2. dirty' => dirty
      BY <2>2, <3>1, Zenon
    <3>3. quiet' = quiet /\ (rgb_unsaved' => rgb_unsaved)
      BY <1>3, <2>2, Zenon DEF SettingsEdited
    <3>4. QED
      BY <3>2, <3>3
  <2>3. QED
    BY <2>1, <2>2
<1>4. QED
  BY <1>1, <1>2, <1>3

LEMMA ScanType ==
  ASSUME TypeOK, Scan
  PROVE  /\ raw' \in SUBSET Key /\ prev_raw' \in SUBSET Key /\ cooked' \in SUBSET Key
         /\ counter' \in [Key -> 0 .. MaxTime] /\ since' \in 0 .. MaxTime
<1>1. \A k \in Key : Remaining(k) \in 0 .. MaxTime
  BY Times DEF TypeOK, Remaining
<1>2. debounce_time \in 0 .. MaxTime
  BY Times, DebounceAssumption DEF TypeOK
<1>3. \A k \in Key : Started(k) \in 0 .. MaxTime
  BY <1>1, <1>2, Times DEF Started
<1>4. counter' \in [Key -> 0 .. MaxTime]
  BY <1>3 DEF Scan
<1>5. cooked' \in SUBSET Key
  BY DEF Scan, Transferred, Expired, TypeOK
<1>6. QED
  BY <1>4, <1>5, Times DEF Scan, TypeOK

\* The shortest of the deadlines is a positive number of ticks, and no later
\* than the RGB timeout when that is still to come.
LEMMA WaitBound ==
  ASSUME TypeOK, NEW wait \in ActivityWait
  PROVE  /\ wait \in Nat
         /\ Pending(timeout.rgb) => 0 < wait /\ wait <= timeout.rgb - inactive
<1>1. /\ timeout.idle \in 0 .. MaxTime /\ timeout.rgb \in 0 .. MaxTime
      /\ timeout.sleep \in 0 .. MaxTime /\ inactive \in 0 .. MaxTime
  BY TimeoutTypes DEF TypeOK
<1>2. \A n \in Deadlines : n \in Nat /\ n > 0
  BY <1>1, Times DEF Deadlines, Pending
<1>3. Pending(timeout.rgb) => timeout.rgb - inactive \in Deadlines
  BY DEF Deadlines
<1>4. CASE Deadlines # {}
  <2>1. wait \in Deadlines /\ \A p \in Deadlines : wait <= p
    BY <1>4 DEF ActivityWait, Nearest
  <2>2. QED
    BY <2>1, <1>2, <1>3
<1>5. CASE Deadlines = {}
  BY <1>5, <1>1, <1>3, Times DEF ActivityWait
<1>6. QED
  BY <1>4, <1>5

LEMMA IdleWaitBound ==
  ASSUME NEW wait \in Nat
  PROVE  /\ IdleWait(wait) \in Nat
         /\ wait > 0 => IdleWait(wait) > 0 /\ IdleWait(wait) <= wait
         /\ rgb_on /\ ~suspended => IdleWait(wait) = 1
<1> DEFINE saving == IF dirty THEN AtMost(wait, FlushWait) ELSE wait
<1>1. saving \in Nat /\ (wait > 0 => saving > 0 /\ saving <= wait)
  BY Times DEF AtMost
<1>2. IdleWait(wait) = IF rgb_on /\ ~suspended THEN AtMost(saving, 1) ELSE saving
  BY DEF IdleWait
<1>3. AtMost(saving, 1) = 1
  BY <1>1 DEF AtMost
<1>4. QED
  BY <1>1, <1>2, <1>3

-----------------------------------------------------------------------------
USE DEF keyVars, eeVars, setVars, usbVars, rgbVars, ledVars, semVars

\* The types, in the two kinds that different provers are good at.
Flags ==
  /\ sem \in BOOLEAN /\ dirty \in BOOLEAN /\ rgb_unsaved \in BOOLEAN
  /\ vbus \in BOOLEAN /\ vbus_removed \in BOOLEAN
  /\ is_configured \in BOOLEAN /\ usb_suspended \in BOOLEAN
  /\ suspended \in BOOLEAN /\ rgb_on \in BOOLEAN /\ rail \in BOOLEAN
  /\ host_leds \in BOOLEAN /\ last_led_status \in BOOLEAN /\ caps_led \in BOOLEAN

Ranges ==
  /\ main \in MainAt
  /\ left \in Int /\ left >= Forever
  /\ inactive \in 0 .. MaxTime
  /\ raw \in SUBSET Key /\ prev_raw \in SUBSET Key /\ cooked \in SUBSET Key
  /\ counter \in [Key -> 0 .. MaxTime] /\ since \in 0 .. MaxTime
  /\ quiet \in 0 .. QuietMax
  /\ timeout \in Timeouts /\ debounce_time \in DebounceTimes
  /\ rgb_task_state \in RgbTask /\ drawn \in 0 .. RenderRounds - 1
  /\ via \in {"rest", "set"}

LEMMA TypeParts == TypeOK <=> Flags /\ Ranges
BY Zenon DEF TypeOK, Flags, Ranges

LEMMA TypePartsNext == TypeOK' <=> Flags' /\ Ranges'
BY Zenon DEF TypeOK, Flags, Ranges

LEMMA TypeInit == Init => TypeOK
<1> SUFFICES ASSUME Init PROVE TypeOK
  OBVIOUS
<1>1. vbus \in BOOLEAN
  BY SwitchAssumption DEF Init
<1>2. Flags
  BY <1>1, Zenon DEF Init, Flags
<1>3. Ranges
  BY Times, DebounceAssumption DEF Init, Ranges, MainAt, BlockedAt, RgbTask
<1>4. QED
  BY <1>2, <1>3, TypeParts

LEMMA TickType == TypeOK /\ Tick => TypeOK'
<1> SUFFICES ASSUME TypeOK, Tick PROVE TypeOK'
  OBVIOUS
<1>1. left' \in Int /\ left' >= Forever
  BY Times DEF TypeOK, Tick, Blocked
<1>2. inactive' \in 0 .. MaxTime /\ since' \in 0 .. MaxTime /\ quiet' \in 0 .. QuietMax
  BY Times DEF TypeOK, Tick, CountUp
<1>3. QED
  BY <1>1, <1>2 DEF TypeOK, Tick

LEMMA KeyboardType == TypeOK /\ KeyboardTask => TypeOK'
<1> SUFFICES ASSUME TypeOK, KeyboardTask PROVE TypeOK'
  OBVIOUS
<1>1. rgb_on' \in BOOLEAN
  BY DEF TypeOK, KeyboardTask, KeyCode
<1>2. rgb_task_state' \in RgbTask /\ drawn' \in 0 .. RenderRounds - 1
  <2> DEFINE state == IF rgb_on' # rgb_on THEN "STARTING" ELSE rgb_task_state
  <2>1. state \in RgbTask
    BY DEF TypeOK, RgbTask
  <2>2. \/ rgb_task_state' \in RgbTask /\ drawn' = 0
        \/ /\ rgb_task_state' = rgb_task_state
           /\ drawn + 1 < RenderRounds /\ drawn' = drawn + 1
    BY <2>1, Zenon DEF KeyboardTask, RgbMatrixTask, RgbTaskStep, RgbTask
  <2>3. QED
    BY <2>2, Times DEF TypeOK
<1>3. rail' \in BOOLEAN
  <2> DEFINE state == IF rgb_on' # rgb_on THEN "STARTING" ELSE rgb_task_state
  <2>1. state \in RgbTask
    BY DEF TypeOK, RgbTask
  <2>2. rail' = rail \/ rail' = (rgb_on' /\ ~suspended)
    BY <2>1, Zenon DEF KeyboardTask, RgbMatrixTask, RgbTaskStep, RgbTask
  <2>3. QED
    BY <2>2, <1>1, Zenon DEF TypeOK
<1>4. /\ dirty' \in BOOLEAN /\ rgb_unsaved' \in BOOLEAN
      /\ quiet' \in 0 .. QuietMax
  <2>1. \E edits \in BOOLEAN : SettingsEdited(edits)
    BY DEF KeyboardTask, KeySettings
  <2>2. QED
    BY <2>1, Times DEF TypeOK, SettingsEdited
<1>5. caps_led' \in BOOLEAN /\ last_led_status' \in BOOLEAN /\ host_leds' \in BOOLEAN
  BY DEF TypeOK, KeyboardTask, LedTask
<1>6. main' \in MainAt /\ left' = left /\ sem' = sem
  BY DEF KeyboardTask, Go, MainAt
<1>7. QED
  BY <1>1, <1>2, <1>3, <1>4, <1>5, <1>6, ScanType DEF TypeOK, KeyboardTask

LEMMA ComputeType == TypeOK /\ ComputeWait => TypeOK'
<1> SUFFICES ASSUME TypeOK, ComputeWait PROVE TypeOK'
  OBVIOUS
<1>1. left' \in Int /\ left' >= Forever
  <2>1. PICK wait \in ActivityWait :
          left' = IF IdleWait(wait) = 0 THEN Forever ELSE IdleWait(wait)
    BY DEF ComputeWait
  <2>2. IdleWait(wait) \in Nat
    BY WaitBound, IdleWaitBound
  <2>3. QED
    BY <2>1, <2>2, Times
<1>2. main' \in MainAt
  BY DEF ComputeWait, MainAt
<1>3. QED
  BY <1>1, <1>2 DEF TypeOK, ComputeWait

\* The other steps of the main thread.
LEMMA LoopType == TypeOK /\ Loop => TypeOK'
<1> SUFFICES ASSUME TypeOK, Loop PROVE TypeOK'
  OBVIOUS
<1> USE DEF Go, Block, MainAt, BlockedAt
<1>1. CASE UpdateSuspend \/ LastSuspendUpdate
  BY <1>1, PowerType DEF TypeOK, UpdateSuspend, LastSuspendUpdate
<1>2. CASE Darken
  BY <1>2, PowerType, Times DEF TypeOK, Darken
<1>3. CASE EepromTask \/ EnterSleep
  BY <1>3, Times DEF TypeOK, EepromTask, EnterSleep
<1>4. CASE EepromFlushed \/ LastFlushed
  <2>0. dirty' \in BOOLEAN
    BY <1>4 DEF EepromFlushed, LastFlushed, Flushed
  <2>1. Flags'
    <3>1. Flags
      BY TypeParts
    <3>2. UNCHANGED <<sem, rgb_unsaved, usbVars, suspended, rgbVars, ledVars>>
      BY <1>4 DEF EepromFlushed, LastFlushed, Flushed
    <3>3. QED
      BY <2>0, <3>1, <3>2, Zenon DEF Flags
  <2>2. Ranges'
    BY <1>4, TypeParts, Times DEF Ranges, EepromFlushed, LastFlushed, Flushed
  <2>3. QED
    BY <2>1, <2>2, TypePartsNext
<1>5. CASE CheckIdle \/ NapOver \/ ActivityUpdate \/ PowerOff \/ WaitOver
  BY <1>5, Times DEF TypeOK, CheckIdle, NapOver, ActivityUpdate, PowerOff, WaitOver
<1>6. CASE WaitActivity
  <2>1. Flags'
    BY <1>6, TypeParts, Zenon DEF Flags, WaitActivity
  <2>2. Ranges'
    BY <1>6, TypeParts, Times DEF Ranges, WaitActivity
  <2>3. QED
    BY <2>1, <2>2, TypePartsNext
<1>7. QED
  BY <1>1, <1>2, <1>3, <1>4, <1>5, <1>6, KeyboardType, ComputeType DEF Loop

\* The other threads, and the reset.
LEMMA EventType == TypeOK /\ (Event \/ VbusRemoved \/ ViaWake \/ Reset) => TypeOK'
<1> SUFFICES ASSUME TypeOK, Event \/ VbusRemoved \/ ViaWake \/ Reset PROVE TypeOK'
  OBVIOUS
<1>1. CASE KeyEvent
  BY <1>1, GiveType, Times DEF TypeOK, KeyEvent
<1>2. CASE Plug \/ UsbConfiguration \/ Unplug
  <2>0. Flags
    BY TypeParts
  <2>1. Flags'
    <3>1. CASE Plug BY <3>1, <2>0, Zenon DEF Flags, Plug
    <3>2. CASE UsbConfiguration BY <3>2, <2>0, Zenon DEF Flags, UsbConfiguration
    <3>3. CASE Unplug BY <3>3, <2>0, Zenon DEF Flags, Unplug
    <3>4. QED BY <1>2, <3>1, <3>2, <3>3
  <2>2. Ranges'
    BY <1>2, TypeParts DEF Ranges, Plug, UsbConfiguration, Unplug
  <2>3. QED
    BY <2>1, <2>2, TypePartsNext
<1>3. CASE UsbSuspend \/ UsbResume \/ VbusRemoved
  <2>0. Flags
    BY TypeParts
  <2>1. Flags'
    <3>1. sem' \in BOOLEAN /\ usb_suspended' \in BOOLEAN
      BY <1>3, GiveType DEF UsbSuspend, UsbResume, VbusRemoved, SuspendCallback
    <3>2. vbus_removed' \in BOOLEAN /\ is_configured' \in BOOLEAN
      <4>1. CASE UsbSuspend \/ UsbResume
        BY <4>1, <2>0, Zenon DEF UsbSuspend, UsbResume, Flags
      <4>2. CASE VbusRemoved
        BY <4>2 DEF VbusRemoved
      <4>3. QED
        BY <1>3, <4>1, <4>2
    <3>3. UNCHANGED <<dirty, rgb_unsaved, vbus, suspended, rgb_on, rail, host_leds,
                      last_led_status, caps_led>>
      BY <1>3, Zenon DEF UsbSuspend, UsbResume, VbusRemoved, eeVars, setVars, rgbVars, ledVars
    <3>4. QED
      BY <2>0, <3>1, <3>2, <3>3, Zenon DEF Flags
  <2>2. Ranges'
    BY <1>3, TypeParts, GiveType DEF Ranges, UsbSuspend, UsbResume, VbusRemoved, SuspendCallback
  <2>3. QED
    BY <2>1, <2>2, TypePartsNext
<1>4. CASE LedReport
  BY <1>4, GiveType DEF TypeOK, LedReport
<1>5. CASE ViaCommand
  <2>0. Flags
    BY TypeParts
  <2>1. Flags'
    <3>1. UNCHANGED <<semVars, usbVars, suspended, rail, ledVars>>
      BY <1>5, Zenon DEF ViaCommand, rgbVars
    <3>2. dirty' \in BOOLEAN /\ rgb_unsaved' \in BOOLEAN /\ rgb_on' \in BOOLEAN
      BY <1>5, <2>0, Zenon DEF ViaCommand, Flags, eeVars
    <3>3. QED
      BY <2>0, <3>1, <3>2, Zenon DEF Flags, semVars, usbVars, ledVars
  <2>2. Ranges'
    <3>1. quiet' = quiet \/ quiet' = 0
      BY <1>5, Zenon DEF ViaCommand, eeVars
    <3>2. timeout' \in Timeouts /\ debounce_time' \in DebounceTimes
      BY <1>5, TypeParts DEF Ranges, ViaCommand, setVars
    <3>3. \/ UNCHANGED <<rgb_task_state, drawn>>
          \/ rgb_task_state' = "STARTING" /\ drawn' = 0
      BY <1>5, Zenon DEF ViaCommand
    <3>4. UNCHANGED <<main, left, inactive, raw, prev_raw, cooked, counter, since>> /\ via' = "set"
      BY <1>5, Zenon DEF ViaCommand, semVars, keyVars
    <3>5. QED
      BY <3>1, <3>2, <3>3, <3>4, TypeParts, Times DEF Ranges, RgbTask
  <2>3. QED
    BY <2>1, <2>2, TypePartsNext
<1>6. CASE ViaWake
  BY <1>6, GiveType DEF TypeOK, ViaWake
<1>7. CASE Reset
  <2>1. Flags'
    BY <1>7, TypeParts, Zenon DEF Flags, Reset, RgbTask, MainAt
  <2>2. Ranges'
    BY <1>7, TypeParts, Times DEF Ranges, Reset, RgbTask, MainAt
  <2>3. QED
    BY <2>1, <2>2, TypePartsNext
<1>8. QED
  BY <1>1, <1>2, <1>3, <1>4, <1>5, <1>6, <1>7 DEF Event, Usb

LEMMA TypeStep == TypeOK /\ [Next]_vars => TypeOK'
<1>1. TypeOK /\ UNCHANGED vars => TypeOK'
  BY DEF TypeOK, vars
<1>2. QED
  BY <1>1, TickType, LoopType, EventType DEF Next

\* The variables of the main loop and of the callbacks keep their types.
THEOREM TypeCorrect == Spec => []TypeOK
BY TypeInit, TypeStep, PTL DEF Spec

-----------------------------------------------------------------------------
(* SleepInv: what was decided before a sleep stays right until it ends.    *)

\* A token on the semaphore cannot be missed: whoever gives one, the loop makes
\* another round before it sleeps again.
LEMMA GiveWakes ==
  ASSUME TypeOK, SleepInv, Give, main' = main
  PROVE  /\ Woken'
         /\ main' = "take" /\ sem' => left' = 0
<1>1. main = "take" /\ sem => left = 0
  BY DEF SleepInv
<1>2. CASE main = "take" /\ left # 0
  <2>1. left' = 0 /\ sem' = sem
    BY <1>2, Zenon DEF Give
  <2>2. QED
    BY <2>1, <1>1, <1>2 DEF Woken
<1>3. CASE ~(main = "take" /\ left # 0)
  <2>1. sem' = TRUE /\ left' = left
    BY <1>3, Zenon DEF Give
  <2>2. QED
    BY <2>1, <1>3, Zenon DEF Woken
<1>4. QED
  BY <1>2, <1>3

\* Nothing in SleepInv speaks of the other places of the loop.
LEMMA ElsewhereSleeps ==
  ASSUME main' \notin {"activity", "compute", "wait", "take"}
  PROVE  SleepInv'
BY DEF SleepInv

LEMMA WokenSleeps ==
  ASSUME Woken', main' = "take" /\ sem' => left' = 0,
         main' = "activity" => raw' = {} \/ inactive' = 0
  PROVE  SleepInv'
BY Zenon DEF SleepInv

LEMMA TickSleeps == TypeOK /\ SleepInv /\ Tick => SleepInv'
<1> SUFFICES ASSUME TypeOK, SleepInv, Tick, main = "take" PROVE SleepInv'
  BY ElsewhereSleeps DEF Tick, Blocked, BlockedAt
<1>1. /\ main' = "take" /\ sem' = sem /\ via' = via /\ via = "rest"
      /\ left # 0
      /\ suspended' = suspended /\ usb_suspended' = usb_suspended
      /\ rgb_on' = rgb_on /\ timeout' = timeout
  BY DEF Tick, Blocked
<1>2. ~sem /\ ~Woken
  BY <1>1, Zenon DEF SleepInv, Woken
<1>3. /\ suspended = WantSuspended
      /\ Pending(timeout.rgb) => left # Forever /\ left <= timeout.rgb - inactive
      /\ rgb_on /\ ~suspended => left = 1
  BY <1>2, Zenon DEF SleepInv
<1>4. /\ timeout.rgb \in 0 .. MaxTime /\ inactive \in 0 .. MaxTime
      /\ left \in Int /\ left >= -1
  BY TimeoutTypes, Times DEF TypeOK
<1>5. /\ left' = IF left = -1 THEN -1 ELSE left - 1
      /\ inactive' = IF inactive < MaxTime THEN inactive + 1 ELSE inactive
  BY Times DEF Tick, CountUp
<1>6. CASE left' = 0
  BY <1>6, <1>1, WokenSleeps, Zenon DEF Woken
<1>7. CASE left' # 0
  <2>1. RgbIsIdle' <=> RgbIsIdle
    BY <1>1, <1>3, <1>4, <1>5, <1>7, Times DEF RgbIsIdle, Pending
  <2>2. suspended' = WantSuspended'
    BY <2>1, <1>1, <1>3, Zenon DEF WantSuspended
  <2>3. Pending(timeout.rgb)' => left' # Forever /\ left' <= timeout'.rgb - inactive'
    BY <1>1, <1>3, <1>4, <1>5, <1>7, Times DEF Pending
  <2>4. ~(rgb_on /\ ~suspended)
    BY <1>3, <1>5, <1>7
  <2>5. QED
    BY <2>2, <2>3, <2>4, <1>1, <1>2 DEF SleepInv
<1>8. QED
  BY <1>6, <1>7

LEMMA SuspendUpdateSettles ==
  ASSUME TypeOK, SuspendUpdate, UNCHANGED <<usb_suspended, timeout, inactive>>
  PROVE  suspended' = WantSuspended'
<1>1. WantSuspended' = WantSuspended /\ WantSuspended \in BOOLEAN
  BY DEF WantSuspended, RgbIsIdle, TypeOK
<1>2. CASE WantSuspended = suspended
  BY <1>1, <1>2, Zenon DEF SuspendUpdate
<1>3. CASE WantSuspended # suspended
  <2>1. CASE WantSuspended
    <3>1. suspended' = TRUE
      BY <2>1, <1>3, Zenon DEF SuspendUpdate, PowerDown
    <3>2. QED
      BY <3>1, <2>1, <1>1, Zenon
  <2>2. CASE ~WantSuspended
    <3>1. suspended' = FALSE
      BY <2>2, <1>3, Zenon DEF SuspendUpdate, Wakeup
    <3>2. QED
      BY <3>1, <2>2, <1>1, Zenon
  <2>3. QED
    BY <2>1, <2>2
<1>4. QED
  BY <1>2, <1>3

LEMMA LoopSleeps == TypeOK /\ SleepInv /\ Loop => SleepInv'
<1> SUFFICES ASSUME TypeOK, SleepInv, Loop PROVE SleepInv'
  OBVIOUS
<1> USE DEF Go, Block
<1>1. CASE UpdateSuspend \/ KeyboardTask \/ EepromTask \/ EepromFlushed \/ NapOver
           \/ ActivityUpdate \/ EnterSleep \/ LastFlushed \/ Darken \/ PowerOff
           \/ WaitOver
  BY <1>1, ElsewhereSleeps
  DEF UpdateSuspend, KeyboardTask, EepromTask, EepromFlushed, Flushed, NapOver,
      ActivityUpdate, EnterSleep, LastFlushed, Darken, PowerOff, WaitOver
<1>2. CASE CheckIdle
  BY <1>2 DEF CheckIdle, IsIdle, SleepInv
<1>3. CASE LastSuspendUpdate
  <2>1. suspended' = WantSuspended' /\ main' = "compute"
    BY <1>3, SuspendUpdateSettles DEF LastSuspendUpdate
  <2>2. QED
    BY <2>1 DEF SleepInv
<1>4. CASE ComputeWait
  <2>1. PICK wait \in ActivityWait :
          left' = IF IdleWait(wait) = 0 THEN Forever ELSE IdleWait(wait)
    BY <1>4 DEF ComputeWait
  <2>2. /\ main = "compute" /\ main' = "wait" /\ sem' = sem /\ via' = via
        /\ suspended' = suspended /\ usb_suspended' = usb_suspended
        /\ rgb_on' = rgb_on /\ timeout' = timeout /\ inactive' = inactive
    BY <1>4 DEF ComputeWait
  <2>3. ~Woken' => suspended' = WantSuspended'
    BY <2>2 DEF SleepInv, Woken, WantSuspended, RgbIsIdle
  <2>4. Pending(timeout.rgb)' => left' # Forever /\ left' <= timeout'.rgb - inactive'
    <3>1. wait \in Nat /\ IdleWait(wait) \in Nat
      BY WaitBound, IdleWaitBound
    <3>2. Pending(timeout.rgb) =>
            IdleWait(wait) > 0 /\ IdleWait(wait) <= timeout.rgb - inactive
      <4>1. timeout.rgb \in Int /\ inactive \in Int
        BY TimeoutTypes DEF TypeOK
      <4>2. QED
        BY <4>1, <3>1, WaitBound, IdleWaitBound
    <3>3. QED
      BY <2>1, <2>2, <3>1, <3>2, Times DEF Pending
  <2>5. rgb_on' /\ ~suspended' => left' = 1
    BY <2>1, <2>2, WaitBound, IdleWaitBound
  <2>6. QED
    BY <2>2, <2>3, <2>4, <2>5, Zenon DEF SleepInv
<1>5. CASE WaitActivity
  <2>1. CASE sem
    BY <2>1, <1>5, ElsewhereSleeps DEF WaitActivity
  <2>2. CASE ~sem
    <3>1. /\ main = "wait" /\ main' = "take" /\ sem' = FALSE /\ via' = via
          /\ left' = left /\ suspended' = suspended /\ usb_suspended' = usb_suspended
          /\ rgb_on' = rgb_on /\ timeout' = timeout /\ inactive' = inactive
      BY <2>2, <1>5 DEF WaitActivity
    <3>2. ~Woken' => ~Woken
      BY <3>1, <2>2 DEF Woken
    <3>3. ~Woken' => suspended' = WantSuspended'
      BY <3>1, <3>2 DEF SleepInv, WantSuspended, RgbIsIdle
    <3>4. ~Woken' /\ Pending(timeout.rgb)'
            => left' # Forever /\ left' <= timeout'.rgb - inactive'
      BY <3>1, <3>2 DEF SleepInv, Pending
    <3>5. ~Woken' /\ rgb_on' /\ ~suspended' => left' = 1
      BY <3>1, <3>2 DEF SleepInv
    <3>6. QED
      BY <3>1, <3>3, <3>4, <3>5, Zenon DEF SleepInv
  <2>3. QED
    BY <2>1, <2>2
<1>6. QED
  BY <1>1, <1>2, <1>3, <1>4, <1>5 DEF Loop

LEMMA EventSleeps ==
  TypeOK /\ SleepInv /\ (Event \/ VbusRemoved \/ ViaWake \/ Reset) => SleepInv'
<1> SUFFICES ASSUME TypeOK, SleepInv, Event \/ VbusRemoved \/ ViaWake \/ Reset
             PROVE  SleepInv'
  OBVIOUS
<1>1. CASE KeyEvent
  BY <1>1, GiveWakes, WokenSleeps DEF KeyEvent
<1>2. CASE UsbSuspend \/ UsbResume \/ VbusRemoved \/ LedReport \/ ViaWake
  <2>1. Give /\ main' = main /\ raw' = raw /\ inactive' = inactive
    BY <1>2, Zenon DEF UsbSuspend, UsbResume, VbusRemoved, LedReport, ViaWake,
                       SuspendCallback
  <2>2. main' = "activity" => raw' = {} \/ inactive' = 0
    BY <2>1 DEF SleepInv
  <2>3. QED
    BY <2>1, <2>2, GiveWakes, WokenSleeps
<1>3. CASE Plug \/ UsbConfiguration \/ Unplug
  <2>1. UNCHANGED <<main, sem, left, raw, inactive, via, suspended, usb_suspended,
                    timeout, rgb_on>>
    BY <1>3 DEF Plug, UsbConfiguration, Unplug
  <2>2. QED
    BY <2>1 DEF SleepInv, Woken, WantSuspended, RgbIsIdle, Pending
<1>4. CASE ViaCommand
  <2>1. Woken' /\ main' = main /\ sem' = sem /\ left' = left /\ main # "activity"
    BY <1>4 DEF ViaCommand, Woken, Blocked, BlockedAt
  <2>2. main' = "take" /\ sem' => left' = 0
    BY <2>1 DEF SleepInv
  <2>3. QED
    BY <2>1, <2>2, WokenSleeps
<1>5. CASE Reset
  BY <1>5, ElsewhereSleeps DEF Reset
<1>6. QED
  BY <1>1, <1>2, <1>3, <1>4, <1>5 DEF Event, Usb

LEMMA SleepInvAlways == Spec => [](TypeOK /\ SleepInv)
<1>1. Init => TypeOK /\ SleepInv
  BY TypeInit DEF Init, SleepInv
<1>2. TypeOK /\ SleepInv /\ [Next]_vars => (TypeOK /\ SleepInv)'
  <2>1. SleepInv /\ UNCHANGED vars => SleepInv'
    BY DEF vars, SleepInv, Woken, WantSuspended, RgbIsIdle, Pending
  <2>2. QED
    BY <2>1, TypeStep, TickSleeps, LoopSleeps, EventSleeps DEF Next
<1>3. QED
  BY <1>1, <1>2, PTL DEF Spec

\* While the loop sleeps, RGB and indicator are suspended exactly when a USB
\* suspend or the RGB timeout asks for it (qmkSuspendUpdate, qmkWake).
THEOREM NeverSleepsOverAChange == Spec => []SuspendedAsWanted
<1>1. SleepInv => SuspendedAsWanted
  BY Zenon DEF SleepInv, SuspendedAsWanted, Asleep, Woken
<1>2. QED
  BY <1>1, SleepInvAlways, PTL

\* While the loop sleeps and RGB is to be seen, it sleeps for one period
\* (qmkGetIdleWaitMs).
THEOREM AnimationNeverStops == Spec => []AnimationGoesOn
<1>1. SleepInv => AnimationGoesOn
  BY DEF SleepInv, AnimationGoesOn, Asleep, Woken
<1>2. QED
  BY <1>1, SleepInvAlways, PTL

\* System OFF is decided only with no key down, without USB power and past the
\* timeout (activityUpdate, qmkIsIdle).
THEOREM SleepDecisionIsRight == Spec => SleepDecision
<1> DEFINE Decides == main = "activity" /\ main' \in {"lastflush", "darken"}
           Rightly == raw = {} /\ ~vbus /\ inactive >= timeout.sleep
<1>1. TypeOK /\ SleepInv /\ [Next]_vars => [Decides => Rightly]_vars
  <2> SUFFICES ASSUME TypeOK, SleepInv, Next, Decides PROVE Rightly
    OBVIOUS
  <2>1. EnterSleep
    BY DEF Next, Tick, Blocked, BlockedAt, Loop, UpdateSuspend, KeyboardTask,
           EepromTask, EepromFlushed, Flushed, CheckIdle, NapOver, ActivityUpdate,
           LastFlushed, Darken, PowerOff, LastSuspendUpdate, ComputeWait,
           WaitActivity, WaitOver, Event, Usb, KeyEvent, Plug, UsbConfiguration,
           UsbSuspend, UsbResume, Unplug, LedReport, ViaCommand, VbusRemoved, ViaWake,
           Reset, Go, Block
  <2>2. raw = {} \/ inactive = 0
    BY DEF SleepInv
  <2>3. timeout.sleep \in Nat
    BY TimeoutTypes, Times DEF TypeOK
  <2>4. QED
    BY <2>1, <2>2, <2>3 DEF EnterSleep, SleepDue
<1>2. QED
  BY <1>1, SleepInvAlways, PTL DEF Spec, SleepDecision

-----------------------------------------------------------------------------
(* DarkInv: nothing is lit that is not to be.                              *)

LEMMA DarkStep == TypeOK /\ DarkInv /\ [Next]_vars => DarkInv'
<1> SUFFICES ASSUME TypeOK, DarkInv, [Next]_vars PROVE DarkInv'
  OBVIOUS
<1> USE DEF Go, Block
<1>1. CASE UpdateSuspend \/ LastSuspendUpdate
  <2>1. main' \notin {"lastnap", "off"}
    BY <1>1 DEF UpdateSuspend, LastSuspendUpdate
  <2>2. SuspendUpdate
    BY <1>1, Zenon DEF UpdateSuspend, LastSuspendUpdate
  <2>3. CASE UNCHANGED <<suspended, rgbVars, ledVars>>
    BY <2>1, <2>3, Zenon DEF DarkInv
  <2>4. CASE PowerDown
    BY <2>1, <2>4, Zenon DEF PowerDown, DarkInv
  <2>5. CASE Wakeup
    BY <2>1, <2>5, Zenon DEF Wakeup, DarkInv
  <2>6. QED
    BY <2>2, <2>3, <2>4, <2>5, Zenon DEF SuspendUpdate
<1>2. CASE KeyboardTask
  <2>1. main' \notin {"lastnap", "off"} /\ suspended' = suspended
    BY <1>2 DEF KeyboardTask
  <2>2. suspended => ~rail'
    <3> DEFINE state == IF rgb_on' # rgb_on THEN "STARTING" ELSE rgb_task_state
    <3>1. state \in RgbTask
      BY DEF TypeOK, RgbTask
    <3>2. rail' = rail \/ rail' = (rgb_on' /\ ~suspended)
      BY <1>2, <3>1, Zenon DEF KeyboardTask, RgbMatrixTask, RgbTaskStep, RgbTask
    <3>3. QED
      BY <3>2, Zenon DEF DarkInv
  <2>3. ~HostLeds => ~host_leds' /\ ~last_led_status' /\ ~caps_led'
    BY <1>2, Zenon DEF KeyboardTask, LedTask, DarkInv
  <2>4. QED
    BY <2>1, <2>2, <2>3, Zenon DEF DarkInv
<1>3. CASE Darken
  <2>1. CASE UNCHANGED <<suspended, rgbVars, ledVars>> /\ suspended
    BY <2>1, Zenon DEF DarkInv
  <2>2. CASE PowerDown
    BY <2>2, Zenon DEF PowerDown, DarkInv
  <2>3. QED
    BY <1>3, <2>1, <2>2, Zenon DEF Darken
<1>4. CASE PowerOff
  <2>1. main = "lastnap" /\ UNCHANGED <<suspended, rgbVars, ledVars>>
    BY <1>4 DEF PowerOff
  <2>2. QED
    BY <2>1, Zenon DEF DarkInv
<1>5. CASE LedReport
  BY <1>5, Zenon DEF LedReport, DarkInv
<1>6. CASE ViaCommand
  <2>1. UNCHANGED <<main, suspended, rail, ledVars>>
    BY <1>6 DEF ViaCommand
  <2>2. QED
    BY <2>1, Zenon DEF DarkInv
<1>7. CASE Reset
  BY <1>7, Zenon DEF Reset, DarkInv
<1>8. CASE Tick \/ EepromTask \/ EepromFlushed \/ CheckIdle \/ NapOver
           \/ ActivityUpdate \/ EnterSleep \/ LastFlushed \/ ComputeWait
           \/ WaitActivity \/ WaitOver \/ KeyEvent \/ Usb \/ VbusRemoved \/ ViaWake
           \/ UNCHANGED vars
  <2>1. /\ UNCHANGED <<suspended, rail, host_leds, last_led_status, caps_led>>
        /\ main' = main \/ main' \notin {"lastnap", "off"}
    BY <1>8
    DEF Tick, EepromTask, EepromFlushed, Flushed, CheckIdle, NapOver, ActivityUpdate,
        EnterSleep, LastFlushed, ComputeWait, WaitActivity, WaitOver, KeyEvent, Usb,
        Plug, UsbConfiguration, UsbSuspend, UsbResume, Unplug, VbusRemoved, ViaWake, vars
  <2>2. QED
    BY <2>1, Zenon DEF DarkInv
<1>9. QED
  BY <1>1, <1>2, <1>3, <1>4, <1>5, <1>6, <1>7, <1>8 DEF Next, Loop, Event

LEMMA DarkInvAlways == Spec => []DarkInv
<1>1. Init => DarkInv
  BY Zenon DEF Init, DarkInv
<1>2. QED
  BY <1>1, TypeInit, TypeStep, DarkStep, PTL DEF Spec

\* Without LED reports from a host, nothing is lit in System OFF
\* (activityEnterSleep, qmkSuspendForSleep).
THEOREM DarkInSystemOff == ASSUME ~HostLeds PROVE Spec => []OffIsDark
<1>1. DarkInv => OffIsDark
  BY Zenon DEF DarkInv, OffIsDark
<1>2. QED
  BY <1>1, DarkInvAlways, PTL

\* Without LED reports from a host, nothing is lit while the loop sleeps
\* suspended, although the RGB task keeps flushing (rgb_matrix_ws2812_flush).
THEOREM DarkWhileSuspended == ASSUME ~HostLeds PROVE Spec => []SuspendedIsDark
<1>1. DarkInv => SuspendedIsDark
  BY Zenon DEF DarkInv, SuspendedIsDark
<1>2. QED
  BY <1>1, DarkInvAlways, PTL

-----------------------------------------------------------------------------
\* A suspension by a USB host never outlives the cable (msg_cb).
THEOREM NoGhostSuspension == Spec => []SuspendNeedsHost
<1>1. Init => SuspendNeedsHost
  BY Zenon DEF Init, SuspendNeedsHost
<1>2. SuspendNeedsHost /\ [Next]_vars => SuspendNeedsHost'
  <2> SUFFICES ASSUME SuspendNeedsHost, [Next]_vars PROVE SuspendNeedsHost'
    OBVIOUS
  <2>1. CASE UNCHANGED usbVars
    BY <2>1 DEF SuspendNeedsHost
  <2>2. CASE Usb \/ VbusRemoved
    BY <2>2, Zenon DEF Usb, Plug, UsbConfiguration, UsbSuspend, UsbResume, Unplug,
                       VbusRemoved, SuspendCallback, SuspendNeedsHost
  <2>3. CASE Reset
    BY <2>3, Zenon DEF Reset, SuspendNeedsHost
  <2>4. UNCHANGED usbVars \/ Usb \/ VbusRemoved \/ Reset
    BY DEF Next, Loop, Tick, UpdateSuspend, KeyboardTask, EepromTask, EepromFlushed,
           Flushed, CheckIdle, NapOver, ActivityUpdate, EnterSleep, LastFlushed, Darken,
           PowerOff, LastSuspendUpdate, ComputeWait, WaitActivity, WaitOver, Event,
           KeyEvent, LedReport, ViaCommand, ViaWake, vars
  <2>5. QED
    BY <2>1, <2>2, <2>3, <2>4
<1>3. QED
  BY <1>1, <1>2, PTL DEF Spec
=============================================================================
