----------------------- MODULE PowerLoopTime_proofs -----------------------
(***************************************************************************)
(* What the main loop never sleeps over, where that is a matter of times:  *)
(* a LED report, an edit that waits for its flush, a System OFF that is    *)
(* due, a key that still bounces, a change of RGB. Each part has an        *)
(* invariant that follows the loop from place to place, and says which     *)
(* relation between the times of the firmware it needs.                    *)
(***************************************************************************)
EXTENDS PowerLoop_proofs

USE DEF keyVars, eeVars, setVars, usbVars, rgbVars, ledVars, semVars

-----------------------------------------------------------------------------
(* LED reports: what led_task has not seen yet has left a token.           *)

Token == sem \/ (main = "take" /\ left = 0)

LedInv == main \notin {"suspend", "keys"} /\ ~Token => (last_led_status <=> host_leds)

\* Nothing but led_task and the reports change what is compared.
LEMMA LedStill ==
  ASSUME LedInv, UNCHANGED ledVars,
         main' \in {"suspend", "keys"} \/ Token' \/ (~Token /\ main \notin {"suspend", "keys"})
  PROVE  LedInv'
BY Zenon DEF LedInv

LEMMA GiveToken ==
  ASSUME Give, main' = main, main = "take" /\ sem => left = 0
  PROVE  Token'
<1>1. CASE main = "take" /\ left # 0
  BY <1>1 DEF Give, Token
<1>2. CASE ~(main = "take" /\ left # 0)
  BY <1>2, Zenon DEF Give, Token
<1> QED
  BY <1>1, <1>2

LEMMA LedStep == TypeOK /\ SleepInv /\ LedInv /\ [Next]_vars => LedInv'
<1> SUFFICES ASSUME TypeOK, SleepInv, LedInv, [Next]_vars PROVE LedInv'
  OBVIOUS
<1> USE DEF Go, Block
<1>1. main = "take" /\ sem => left = 0
  BY DEF SleepInv
<1>2. CASE UpdateSuspend \/ NapOver \/ WaitOver \/ Reset
  <2>1. main' \in {"suspend", "keys"}
    BY <1>2 DEF UpdateSuspend, NapOver, WaitOver, Reset
  <2> QED
    BY <2>1 DEF LedInv
<1>3. CASE KeyboardTask
  BY <1>3, Zenon DEF KeyboardTask, LedTask, LedInv
<1>4. CASE KeyEvent \/ UsbSuspend \/ UsbResume \/ VbusRemoved \/ LedReport \/ ViaWake
  <2>1. Give /\ main' = main
    BY <1>4, Zenon DEF KeyEvent, UsbSuspend, UsbResume, VbusRemoved, LedReport, ViaWake,
                       SuspendCallback
  <2> QED
    BY <1>1, <2>1, GiveToken, Zenon DEF LedInv
<1>5. CASE EepromTask \/ EepromFlushed \/ CheckIdle \/ ActivityUpdate \/ EnterSleep
           \/ LastFlushed \/ PowerOff \/ ComputeWait
  <2>1. UNCHANGED <<ledVars, sem>> /\ main \notin {"suspend", "keys", "take"}
    BY <1>5 DEF EepromTask, EepromFlushed, CheckIdle, ActivityUpdate, EnterSleep,
                LastFlushed, Flushed, PowerOff, ComputeWait
  <2>2. Token' \/ ~Token
    BY <2>1 DEF Token
  <2> QED
    BY <2>1, <2>2, LedStill
<1>6. CASE Darken \/ LastSuspendUpdate
  <2>1. /\ main \notin {"suspend", "keys", "take"} /\ main' # "take"
        /\ UNCHANGED <<sem, last_led_status, host_leds>>
    BY <1>6, Zenon DEF Darken, LastSuspendUpdate, SuspendUpdate, PowerDown, Wakeup
  <2>2. Token' <=> Token
    BY <2>1, Zenon DEF Token
  <2> QED
    BY <2>1, <2>2, Zenon DEF LedInv
<1>7. CASE WaitActivity
  <2>1. CASE sem
    BY <1>7, <2>1 DEF WaitActivity, LedInv
  <2>2. CASE ~sem
    <3>1. main = "wait" /\ ~Token /\ UNCHANGED ledVars
      BY <1>7, <2>2 DEF WaitActivity, Token
    <3> QED
      BY <3>1, LedStill
  <2> QED
    BY <2>1, <2>2
<1>8. CASE Tick
  <2>1. UNCHANGED <<ledVars, sem, main>> /\ left # 0 /\ main \notin {"suspend", "keys"}
    BY <1>8 DEF Tick, Blocked, BlockedAt
  <2>2. Token' \/ ~Token
    BY <2>1 DEF Token
  <2> QED
    BY <2>1, <2>2, LedStill
<1>9. CASE Plug \/ UsbConfiguration \/ Unplug \/ ViaCommand \/ UNCHANGED vars
  <2>1. UNCHANGED <<ledVars, semVars, main>>
    BY <1>9 DEF Plug, UsbConfiguration, Unplug, ViaCommand, vars
  <2> QED
    BY <2>1, Zenon DEF LedInv, Token
<1> QED
  BY <1>2, <1>3, <1>4, <1>5, <1>6, <1>7, <1>8, <1>9 DEF Next, Loop, Event, Usb

\* While the loop sleeps no LED report waits for led_task, whatever the order of
\* reports, keys, USB messages and VIA commands (kb_set_report, qmkWake).
THEOREM LedReportsAreSeen == Spec => []LedReportSeen
<1>1. Init => LedInv
  BY DEF Init, LedInv
<1>2. SleepInv /\ LedInv /\ TypeOK => LedReportSeen
  <2> SUFFICES ASSUME SleepInv, LedInv, TypeOK, Asleep PROVE last_led_status = host_leds
    BY DEF LedReportSeen
  <2>1. main = "take" /\ ~Token
    BY DEF Asleep, Token, SleepInv
  <2>2. last_led_status <=> host_leds
    BY <2>1 DEF LedInv
  <2>3. last_led_status \in BOOLEAN /\ host_leds \in BOOLEAN
    BY DEF TypeOK
  <2> QED
    BY <2>2, <2>3, Zenon
<1> QED
  BY <1>1, <1>2, LedStep, SleepInvAlways, PTL DEF Spec

-----------------------------------------------------------------------------
(* How long the thread is blocked.                                         *)

BlockedFor ==
  /\ main = "nap" => left \in 0 .. 1
  /\ main \in {"flush", "lastflush"} => left \in 0 .. FlushTicks
  /\ main = "lastnap" => left \in 0 .. SleepDelay

LEMMA BlockedForStep == TypeOK /\ BlockedFor /\ [Next]_vars => BlockedFor'
<1> SUFFICES ASSUME TypeOK, BlockedFor, [Next]_vars PROVE BlockedFor'
  OBVIOUS
<1> USE DEF Go, Block
<1>1. CASE EepromTask \/ CheckIdle \/ EnterSleep \/ Darken
  BY <1>1, Times DEF EepromTask, CheckIdle, EnterSleep, Darken, BlockedFor
<1>2. CASE Tick
  BY <1>2, Times DEF Tick, Blocked, BlockedFor, TypeOK
<1>3. CASE UpdateSuspend \/ KeyboardTask \/ EepromFlushed \/ NapOver \/ ActivityUpdate
           \/ LastFlushed \/ PowerOff \/ LastSuspendUpdate \/ ComputeWait \/ WaitActivity
           \/ WaitOver \/ Reset
  BY <1>3 DEF UpdateSuspend, KeyboardTask, EepromFlushed, NapOver, ActivityUpdate, LastFlushed,
              Flushed, PowerOff, LastSuspendUpdate, ComputeWait, WaitActivity, WaitOver, Reset,
              BlockedFor
<1>4. CASE KeyEvent \/ UsbSuspend \/ UsbResume \/ VbusRemoved \/ LedReport \/ ViaWake
  <2>1. Give /\ main' = main
    BY <1>4, Zenon DEF KeyEvent, UsbSuspend, UsbResume, VbusRemoved, LedReport, ViaWake,
                       SuspendCallback
  <2> QED
    BY <2>1 DEF Give, BlockedFor
<1>5. CASE Plug \/ UsbConfiguration \/ Unplug \/ ViaCommand \/ UNCHANGED vars
  BY <1>5 DEF Plug, UsbConfiguration, Unplug, ViaCommand, vars, BlockedFor
<1> QED
  BY <1>1, <1>2, <1>3, <1>4, <1>5 DEF Next, Loop, Event, Usb

LEMMA BlockedForAlways == Spec => [](TypeOK /\ SleepInv /\ BlockedFor)
<1>1. Init => BlockedFor
  BY DEF Init, BlockedFor
<1> QED
  BY <1>1, BlockedForStep, SleepInvAlways, PTL DEF Spec

-----------------------------------------------------------------------------
(* Edits: how old the newest one may be at each place of the loop, as long *)
(* as some of them is not in the flash.                                    *)

FlushAt ==
  /\ main \in {"idle", "activity", "darken", "resuspend", "compute", "wait"}
       => quiet < FlushDelay
  /\ main = "nap" => quiet + left <= FlushDelay
  /\ main \in {"suspend", "keys", "eeprom"} => quiet < FlushDelay + FlushWait
  /\ main \in {"flush", "lastflush"} => quiet + left < FlushDelay + FlushWait + FlushTicks
  /\ main = "wait" => left \in 1 .. FlushWait
  /\ main = "take" => \/ via = "set" /\ quiet = 0
                      \/ left \in 0 .. FlushWait /\ quiet + left < FlushDelay + FlushWait
  /\ main = "lastnap" => quiet + left < FlushDelay + SleepDelay
  /\ main = "off" => quiet < FlushDelay + SleepDelay

FlushInv == dirty => FlushAt

LEMMA FlushTimes == FlushDelay \in Nat /\ FlushDelay > 0
BY TimeAssumption

\* With an edit that is not saved, qmkGetIdleWaitMs lets the loop sleep for
\* EEPROM_FLUSH_WAIT_MS at most.
LEMMA DirtyWait ==
  ASSUME dirty, NEW wait \in Nat
  PROVE  IdleWait(wait) \in 1 .. FlushWait
<1>1. AtMost(wait, FlushWait) \in 1 .. FlushWait
  BY Times DEF AtMost
<1>2. \A n \in 1 .. FlushWait : AtMost(n, 1) \in 1 .. FlushWait
  BY Times DEF AtMost
<1> QED
  BY <1>1, <1>2 DEF IdleWait

LEMMA LoopFlushes ==
  ASSUME TypeOK, FlushInv, Loop, ~FlashFails PROVE FlushInv'
<1> USE DEF Go, Block
<1> USE Times, FlushTimes
<1>1. quiet \in Nat /\ left \in Int
  BY DEF TypeOK
<1>2. CASE UpdateSuspend \/ LastSuspendUpdate
  <2>1. /\ \/ main = "suspend" /\ main' = "keys"
           \/ main = "resuspend" /\ main' = "compute"
        /\ SuspendUpdate
    BY <1>2 DEF UpdateSuspend, LastSuspendUpdate
  <2>2. quiet' = 0 \/ (quiet' = quiet /\ (dirty' => dirty))
    BY <2>1, PowerSaves
  <2> QED
    BY <1>1, <2>1, <2>2 DEF FlushInv, FlushAt
<1>3. CASE KeyboardTask
  <2>1. main = "keys" /\ main' = "eeprom" /\ \E edits \in BOOLEAN : SettingsEdited(edits)
    BY <1>3 DEF KeyboardTask, KeySettings
  <2>2. quiet' = 0 \/ (quiet' = quiet /\ (dirty' => dirty))
    BY <2>1 DEF SettingsEdited
  <2> QED
    BY <1>1, <2>1, <2>2 DEF FlushInv, FlushAt
<1>4. CASE EepromTask
  BY <1>1, <1>4 DEF EepromTask, FlushDue, FlushInv, FlushAt
<1>5. CASE EnterSleep
  BY <1>1, <1>5 DEF EnterSleep, FlushDue, FlushInv, FlushAt
<1>6. CASE EepromFlushed \/ LastFlushed
  BY <1>6 DEF EepromFlushed, LastFlushed, Flushed, FlushInv, FlushAt
<1>7. CASE CheckIdle \/ ActivityUpdate
  <2>1. /\ UNCHANGED <<dirty, quiet>> /\ main \in {"idle", "activity"}
        /\ main' \in {"activity", "resuspend"} \/ (main' = "nap" /\ left' = 1)
    BY <1>7 DEF CheckIdle, ActivityUpdate
  <2> QED
    BY <1>1, <2>1 DEF FlushInv, FlushAt
<1>8. CASE NapOver \/ WaitOver
  <2>1. /\ UNCHANGED <<dirty, quiet>> /\ main \in {"nap", "take"} /\ left = 0
        /\ main' = "suspend"
    BY <1>8 DEF NapOver, WaitOver
  <2> QED
    BY <1>1, <2>1 DEF FlushInv, FlushAt
<1>9. CASE Darken
  <2>1. /\ PowerDown \/ UNCHANGED eeVars
        /\ main = "darken" /\ main' = "lastnap" /\ left' = SleepDelay
    BY <1>9 DEF Darken, eeVars
  <2>2. quiet' = 0 \/ (quiet' = quiet /\ (dirty' => dirty))
    BY <2>1, PowerSaves
  <2> QED
    BY <1>1, <2>1, <2>2 DEF FlushInv, FlushAt
<1>10. CASE ComputeWait
  <2>1. PICK wait \in ActivityWait :
          left' = IF IdleWait(wait) = 0 THEN Forever ELSE IdleWait(wait)
    BY <1>10 DEF ComputeWait
  <2>2. main = "compute" /\ main' = "wait" /\ UNCHANGED <<dirty, quiet>>
    BY <1>10 DEF ComputeWait
  <2>3. dirty => IdleWait(wait) \in 1 .. FlushWait
    BY WaitBound, DirtyWait
  <2> QED
    BY <1>1, <2>1, <2>2, <2>3 DEF FlushInv, FlushAt
<1>11. CASE WaitActivity
  BY <1>1, <1>11 DEF WaitActivity, FlushInv, FlushAt
<1>12. CASE PowerOff
  BY <1>1, <1>12 DEF PowerOff, eeVars, FlushInv, FlushAt
<1> QED
  BY <1>2, <1>3, <1>4, <1>5, <1>6, <1>7, <1>8, <1>9, <1>10, <1>11, <1>12 DEF Loop

LEMMA GiveFlushes ==
  ASSUME TypeOK, FlushInv, Give, UNCHANGED <<main, dirty, quiet>>,
         via' = via \/ (main = "take" => left' = 0)
  PROVE  FlushInv'
<1> USE Times, FlushTimes
<1>1. quiet \in Nat /\ left \in Int
  BY DEF TypeOK
<1>2. left' = left \/ (main = "take" /\ left' = 0)
  BY DEF Give
<1> QED
  BY <1>1, <1>2 DEF FlushInv, FlushAt

LEMMA FlushStep ==
  ASSUME TypeOK, SleepInv, BlockedFor, FlushInv, [Next]_vars, ~FlashFails
  PROVE  FlushInv'
<1> USE Times, FlushTimes
<1>1. quiet \in Nat /\ left \in Int
  BY DEF TypeOK
<1>2. CASE Tick
  <2> SUFFICES ASSUME dirty, FlushAt PROVE FlushAt'
    BY <1>2 DEF Tick, FlushInv
  <2>1. /\ UNCHANGED <<main, via>> /\ via = "rest" /\ left # 0 /\ main \in BlockedAt
        /\ left' = IF left = Forever THEN Forever ELSE left - 1
        /\ quiet' = quiet \/ quiet' = quiet + 1
    BY <1>2 DEF Tick, Blocked, CountUp
  <2>2. left \in Nat \ {0}
    BY <1>1, <2>1 DEF FlushAt, BlockedAt, BlockedFor
  <2>3. quiet' + left' <= quiet + left /\ left' \in Nat /\ left' < left
    BY <1>1, <2>1, <2>2
  <2> QED
    BY <1>1, <2>1, <2>2, <2>3 DEF FlushAt, BlockedAt
<1>3. CASE KeyEvent \/ UsbSuspend \/ UsbResume \/ VbusRemoved \/ LedReport
  <2>1. Give /\ UNCHANGED <<main, dirty, quiet, via>>
    BY <1>3, Zenon DEF KeyEvent, UsbSuspend, UsbResume, VbusRemoved, LedReport,
                       SuspendCallback
  <2> QED
    BY <2>1, GiveFlushes
<1>4. CASE ViaWake
  <2>1. Give /\ UNCHANGED <<main, dirty, quiet>> /\ (main = "take" => left' = 0)
    BY <1>4 DEF ViaWake, Give, Blocked
  <2> QED
    BY <2>1, GiveFlushes
<1>5. CASE ViaCommand
  <2>1. UNCHANGED <<main, left>> /\ via' = "set" /\ main \in BlockedAt /\ via = "rest"
    BY <1>5 DEF ViaCommand, Blocked
  <2>2. CASE UNCHANGED <<dirty, quiet>>
    BY <2>1, <2>2 DEF FlushInv, FlushAt, BlockedAt
  <2>3. CASE quiet' = 0
    <3>1. FlushAt'
      BY <2>1, <2>3 DEF FlushAt, BlockedAt, BlockedFor
    <3> QED
      BY <3>1 DEF FlushInv
  <2> QED
    BY <1>5, <2>2, <2>3 DEF ViaCommand
<1>6. CASE Plug \/ UsbConfiguration \/ Unplug \/ UNCHANGED vars
  BY <1>6 DEF Plug, UsbConfiguration, Unplug, vars, FlushInv, FlushAt
<1>7. CASE Reset
  BY <1>7 DEF Reset, FlushInv, FlushAt
<1> QED
  BY <1>2, <1>3, <1>4, <1>5, <1>6, <1>7, LoopFlushes DEF Next, Event, Usb

\* No edit waits for its flush longer than the settle delay, one bounded sleep and
\* one block write, if writing does not fail and the delay before System OFF is no
\* longer than that sleep (qmkGetIdleWaitMs, eeprom_task).
THEOREM EditsAreFlushedInTime ==
  ASSUME ~FlashFails, SleepDelay <= FlushWait + FlushTicks + 1
  PROVE  Spec => []FlushInTime
<1> USE Times, FlushTimes
<1>1. Init => FlushInv
  BY DEF Init, FlushInv, FlushAt
<1>2. TypeOK /\ SleepInv /\ BlockedFor /\ FlushInv => FlushInTime
  <2> SUFFICES ASSUME TypeOK, BlockedFor, FlushInv, dirty
               PROVE  quiet <= FlushDelay + FlushWait + FlushTicks
    BY DEF FlushInTime
  <2>1. quiet \in Nat /\ left \in Int /\ main \in MainAt
    BY DEF TypeOK
  <2> QED
    BY <2>1 DEF FlushInv, FlushAt, BlockedFor, MainAt, BlockedAt
<1>3. TypeOK /\ SleepInv /\ BlockedFor /\ FlushInv /\ [Next]_vars => FlushInv'
  BY FlushStep
<1> QED
  BY <1>1, <1>2, <1>3, BlockedForAlways, PTL DEF Spec

-----------------------------------------------------------------------------
(* System OFF: without USB power and without a token, a sleep ends when the *)
(* sleep timeout is due.                                                   *)

Unpowered == ~vbus /\ ~vbus_removed /\ ~Woken /\ timeout.sleep > 0

OffInv ==
  Unpowered =>
    /\ main \in {"resuspend", "compute"} => inactive < timeout.sleep
    /\ main \in {"wait", "take"} => left # Forever /\ inactive + left <= timeout.sleep

LEMMA SleepWait ==
  ASSUME TypeOK, timeout.sleep > 0, inactive < timeout.sleep,
         timeout.idle <= timeout.sleep, timeout.rgb <= timeout.sleep,
         NEW wait \in ActivityWait
  PROVE  wait \in 1 .. timeout.sleep - inactive
<1>1. /\ timeout.idle \in 0 .. MaxTime /\ timeout.rgb \in 0 .. MaxTime
      /\ timeout.sleep \in 0 .. MaxTime /\ inactive \in 0 .. MaxTime
  BY TimeoutTypes DEF TypeOK
<1>2. \A n \in Deadlines : n \in 1 .. timeout.sleep - inactive
  BY <1>1, Times DEF Deadlines, Pending
<1>3. CASE Deadlines # {}
  BY <1>2, <1>3 DEF ActivityWait, Nearest
<1>4. CASE Deadlines = {}
  BY <1>1, <1>4, Times DEF ActivityWait
<1> QED
  BY <1>3, <1>4

\* Whoever gives a token ends the sleep.
LEMMA WokenOff == Woken' => OffInv'
BY DEF OffInv, Unpowered

LEMMA OffStep ==
  ASSUME TypeOK, SleepInv, OffInv, [Next]_vars,
         \A t \in Timeouts : t.sleep > 0 => t.idle <= t.sleep /\ t.rgb <= t.sleep
  PROVE  OffInv'
<1> USE DEF Go, Block
<1>1. /\ timeout.sleep \in Nat /\ inactive \in Nat /\ left \in Int /\ Forever = -1
      /\ timeout.sleep > 0 => timeout.idle <= timeout.sleep /\ timeout.rgb <= timeout.sleep
  BY TimeoutTypes, Times DEF TypeOK
<1>2. CASE main' \notin {"resuspend", "compute", "wait", "take"}
  BY <1>2 DEF OffInv
<1>3. CASE ActivityUpdate
  BY <1>1, <1>3 DEF ActivityUpdate, SleepDue, OffInv, Unpowered
<1>4. CASE LastSuspendUpdate
  <2>1. /\ main = "resuspend" /\ main' = "compute"
        /\ UNCHANGED <<timeout, inactive, vbus, vbus_removed, sem, via>>
    BY <1>4 DEF LastSuspendUpdate
  <2> QED
    BY <2>1 DEF OffInv, Unpowered, Woken
<1>5. CASE ComputeWait
  <2>1. PICK wait \in ActivityWait :
          left' = IF IdleWait(wait) = 0 THEN Forever ELSE IdleWait(wait)
    BY <1>5 DEF ComputeWait
  <2>2. /\ main = "compute" /\ main' = "wait"
        /\ UNCHANGED <<timeout, inactive, vbus, vbus_removed, sem, via>>
    BY <1>5 DEF ComputeWait
  <2> SUFFICES ASSUME Unpowered PROVE left' # Forever /\ inactive + left' <= timeout.sleep
    BY <2>2 DEF OffInv, Unpowered, Woken
  <2>3. inactive < timeout.sleep /\ timeout.sleep > 0
    BY <2>2 DEF OffInv, Unpowered
  <2>4. wait \in 1 .. timeout.sleep - inactive
    BY <1>1, <2>3, SleepWait
  <2>5. IdleWait(wait) \in 1 .. wait
    BY <1>1, <2>4, IdleWaitBound
  <2> QED
    BY <1>1, <2>1, <2>4, <2>5
<1>6. CASE WaitActivity
  BY <1>6 DEF WaitActivity, OffInv, Unpowered, Woken
<1>7. CASE Tick
  <2> SUFFICES ASSUME main = "take"
               PROVE  OffInv'
    BY <1>2, <1>7 DEF Tick, Blocked, BlockedAt
  <2>1. /\ UNCHANGED <<main, sem, via, timeout, vbus, vbus_removed>> /\ left # 0
        /\ left' = IF left = Forever THEN Forever ELSE left - 1
        /\ inactive' = inactive \/ inactive' = inactive + 1
    BY <1>7 DEF Tick, Blocked, CountUp
  <2>2. Unpowered' => Unpowered
    BY <2>1 DEF Unpowered, Woken
  <2>3. Unpowered => left # Forever /\ inactive + left <= timeout.sleep
    BY DEF OffInv
  <2>4. \A n \in Nat : inactive + left <= n /\ left # Forever /\ left # 0
                         => left - 1 # Forever /\ inactive' + (left - 1) <= n
    BY <1>1, <2>1
  <2> QED
    BY <1>1, <2>1, <2>2, <2>3, <2>4 DEF OffInv
<1>8. CASE KeyEvent \/ UsbSuspend \/ UsbResume \/ VbusRemoved \/ LedReport \/ ViaWake
  <2>1. Give /\ main' = main
    BY <1>8, Zenon DEF KeyEvent, UsbSuspend, UsbResume, VbusRemoved, LedReport, ViaWake,
                       SuspendCallback
  <2> QED
    BY <2>1, GiveWakes, WokenOff
<1>9. CASE ViaCommand
  BY <1>9, WokenOff DEF ViaCommand, Woken
<1>10. CASE Plug \/ UsbConfiguration \/ Unplug \/ UNCHANGED vars
  <2>1. /\ UNCHANGED <<main, sem, left, via, timeout, inactive>>
        /\ ~vbus' /\ ~vbus_removed' => ~vbus /\ ~vbus_removed
    <3>1. CASE Plug
      BY <3>1 DEF Plug
    <3>2. CASE UsbConfiguration
      BY <3>2 DEF UsbConfiguration
    <3>3. CASE Unplug
      BY <3>3 DEF Unplug
    <3>4. CASE UNCHANGED vars
      BY <3>4 DEF vars
    <3> QED
      BY <1>10, <3>1, <3>2, <3>3, <3>4
  <2>2. Unpowered' => Unpowered
    BY <2>1 DEF Unpowered, Woken
  <2> QED
    BY <2>1, <2>2 DEF OffInv
<1>11. CASE UpdateSuspend \/ KeyboardTask \/ EepromTask \/ EepromFlushed \/ CheckIdle
            \/ NapOver \/ EnterSleep \/ LastFlushed \/ Darken \/ PowerOff \/ WaitOver
            \/ Reset
  BY <1>2, <1>11
     DEF UpdateSuspend, KeyboardTask, EepromTask, EepromFlushed, Flushed, CheckIdle, NapOver,
         EnterSleep, LastFlushed, Darken, PowerOff, WaitOver, Reset
<1> QED
  BY <1>3, <1>4, <1>5, <1>6, <1>7, <1>8, <1>9, <1>10, <1>11 DEF Next, Loop, Event, Usb

\* The loop never sleeps through the time of System OFF, if the sleep timeout is the
\* longest of the three, or off (activityGetWaitMs, next_deadline; with a shorter one
\* it does).
THEOREM NeverSleepsThroughOff ==
  ASSUME \A t \in Timeouts : t.sleep > 0 => t.idle <= t.sleep /\ t.rgb <= t.sleep
  PROVE  Spec => []SleepsOnTime
<1>1. Init => OffInv
  BY DEF Init, OffInv
<1>2. TypeOK /\ SleepInv /\ OffInv => SleepsOnTime
  <2> SUFFICES ASSUME TypeOK, SleepInv, OffInv, Asleep, ~vbus, timeout.sleep > 0
               PROVE  ~(inactive > timeout.sleep)
    BY DEF SleepsOnTime
  <2>1. Unpowered /\ main = "take"
    BY DEF Unpowered, Asleep, SleepInv, Woken
  <2>2. left # Forever /\ inactive + left <= timeout.sleep
    BY <2>1 DEF OffInv
  <2>3. timeout.sleep \in Nat /\ inactive \in Nat /\ left \in Int /\ left >= -1
        /\ Forever = -1
    BY TimeoutTypes, Times DEF TypeOK
  <2> QED
    BY <2>2, <2>3
<1>3. TypeOK /\ SleepInv /\ OffInv /\ [Next]_vars => OffInv'
  BY OffStep
<1> QED
  BY <1>1, <1>2, <1>3, SleepInvAlways, PTL DEF Spec

-----------------------------------------------------------------------------
(* Keys: what the driver saw and the debouncing has not taken over is young *)
(* enough to keep the loop from sleeping.                                  *)

\* A key that was read into the driver's matrix, not yet by a scan.
UnreadInTime ==
  raw # prev_raw =>
    /\ main \in {"suspend", "keys"} => inactive <= FlushTicks + 1
    /\ main = "eeprom" => inactive = 0
    /\ main = "flush" => inactive + left <= FlushTicks
    /\ main = "idle" => inactive <= FlushTicks
    /\ main = "nap" => inactive + left <= FlushTicks + 1
    /\ main \in {"activity", "resuspend", "compute", "wait"} => inactive = 0 /\ sem
    /\ main = "take" => inactive = 0 /\ left = 0

\* What is debounced, is debounced within limit.
Settles(limit) ==
  /\ limit \in Nat /\ limit <= Grace
  /\ \A d \in DebounceTimes : d + 2 * FlushTicks + 1 <= limit

\* A key that a scan has seen bounce: its counter runs out before limit is over.
BouncingInTime(limit) ==
  \A k \in Key :
    /\ counter[k] + 2 * FlushTicks + 1 <= limit
    /\ (k \in cooked) # (k \in prev_raw) => counter[k] > 0
    /\ raw = prev_raw /\ (k \in cooked) # (k \in prev_raw)
         => counter[k] + inactive + FlushTicks <= since + limit

\* How old the last scan is.
ScanInTime ==
  /\ main = "eeprom" => since = 0
  /\ main = "flush" => since + left <= FlushTicks
  /\ main = "idle" => since <= FlushTicks
  /\ main = "nap" => since + left <= FlushTicks + 1
  /\ main \in {"suspend", "keys"} => since <= FlushTicks + 1 \/ cooked = prev_raw

IdlePlaces == {"activity", "resuspend", "compute", "wait", "take",
               "lastflush", "darken", "lastnap", "off"}

SettledInv(limit) ==
  /\ UnreadInTime /\ BouncingInTime(limit) /\ ScanInTime
  /\ main \in IdlePlaces => cooked = {} /\ prev_raw = {}

LEMMA KeyTypes ==
  ASSUME TypeOK
  PROVE  /\ inactive \in Nat /\ since \in Nat /\ since <= MaxTime /\ left \in Int
         /\ \A k \in Key : counter[k] \in Nat
         /\ raw \subseteq Key /\ prev_raw \subseteq Key /\ cooked \subseteq Key
BY Times DEF TypeOK

\* A scan starts or goes on with counters that run out in time.
LEMMA ScanSettles ==
  ASSUME NEW limit, Settles(limit), TypeOK, SettledInv(limit),
         main = "keys", Scan, inactive' = inactive
  PROVE  BouncingInTime(limit)'
<1> USE DEF Settles
<1> SUFFICES ASSUME NEW k \in Key
             PROVE  /\ counter'[k] + 2 * FlushTicks + 1 <= limit
                    /\ (k \in cooked') # (k \in prev_raw')
                         => /\ counter'[k] > 0
                            /\ counter'[k] + inactive + FlushTicks <= limit
  BY Times DEF Scan, BouncingInTime
<1>1. /\ counter'[k] = Started(k) /\ prev_raw' = raw /\ cooked' = Transferred
      /\ counter[k] \in Nat /\ since \in Nat /\ inactive \in Nat
      /\ counter[k] + 2 * FlushTicks + 1 <= limit
  BY KeyTypes DEF Scan, SettledInv, BouncingInTime
<1>2. debounce_time \in Nat /\ debounce_time > 0
      /\ debounce_time + 2 * FlushTicks + 1 <= limit
  BY DebounceAssumption DEF TypeOK
<1>3. (k \in Bouncing) <=> (k \in Transferred) # (k \in raw)
  BY KeyTypes DEF Bouncing
<1>4. Remaining(k) \in Nat /\ Remaining(k) <= counter[k]
  BY <1>1 DEF Remaining
<1>5. counter'[k] + 2 * FlushTicks + 1 <= limit
  BY <1>1, <1>2, <1>4, Times DEF Started
<1>6. CASE raw # prev_raw
  <2>1. inactive <= FlushTicks + 1
    BY <1>6 DEF SettledInv, UnreadInTime
  <2>2. k \in Bouncing => counter'[k] > 0
    BY <1>1, <1>2, <1>4, <1>6 DEF Started
  <2>3. counter'[k] \in Nat
    BY <1>1, <1>2, <1>4 DEF Started
  <2> QED
    BY <1>1, <1>3, <1>5, <2>1, <2>2, <2>3, Times
<1>7. CASE raw = prev_raw
  <2> SUFFICES ASSUME (k \in Transferred) # (k \in raw)
               PROVE  Started(k) > 0 /\ Started(k) + inactive + FlushTicks <= limit
    BY <1>1, <1>5
  <2>1. k \notin Expired
    BY DEF Transferred
  <2>2. (k \in cooked) # (k \in prev_raw)
    BY <1>7, <2>1 DEF Transferred
  <2>3. counter[k] > 0 /\ counter[k] + inactive + FlushTicks <= since + limit
    BY <1>7, <2>2 DEF SettledInv, BouncingInTime
  <2>4. counter[k] > since
    BY <1>1, <2>1, <2>3 DEF Expired
  <2>5. Started(k) = counter[k] - since
    BY <1>1, <1>7, <2>4 DEF Started, Remaining
  <2> QED
    BY <1>1, <2>3, <2>4, <2>5, Times
<1> QED
  BY <1>5, <1>6, <1>7

LEMMA GraceBound ==
  ASSUME NEW limit, Settles(limit)
  PROVE  2 * FlushTicks + 1 <= limit /\ FlushTicks < Grace
<1> USE DEF Settles
<1>1. PICK d \in DebounceTimes : TRUE
  BY DebounceAssumption
<1>2. d \in Int /\ d > 0 /\ d + 2 * FlushTicks + 1 <= limit
  BY <1>1, DebounceAssumption, Times
<1> QED
  BY <1>2, Times

\* Where the loop decides that it is idle nothing bounces.
LEMMA IdleIsSettled ==
  ASSUME NEW limit, Settles(limit), TypeOK, SettledInv(limit), main = "idle", IsIdle
  PROVE  cooked = {} /\ prev_raw = {} /\ raw = {}
<1> USE DEF Settles
<1>1. FlushTicks < Grace
  BY GraceBound
<1>2. raw = prev_raw /\ raw = {}
  BY <1>1, KeyTypes, Times DEF IsIdle, SettledInv, UnreadInTime
<1>3. \A k \in Key : k \notin cooked
  <2> SUFFICES ASSUME NEW k \in Key, k \in cooked PROVE FALSE
    OBVIOUS
  <2>1. counter[k] > 0 /\ counter[k] + inactive + FlushTicks <= since + limit
    BY <1>2 DEF SettledInv, BouncingInTime
  <2>2. since <= FlushTicks /\ inactive >= Grace
    BY DEF SettledInv, ScanInTime, IsIdle
  <2> QED
    BY <2>1, <2>2, KeyTypes, Times
<1> QED
  BY <1>2, <1>3, KeyTypes

\* What leaves keys and times alone only has to keep what it finds at its place.
LEMMA StillSettled ==
  ASSUME NEW limit, SettledInv(limit), UNCHANGED <<inactive, keyVars>>,
         UnreadInTime', ScanInTime', main' \in IdlePlaces => cooked = {} /\ prev_raw = {}
  PROVE  SettledInv(limit)'
<1>1. BouncingInTime(limit)'
  BY DEF SettledInv, BouncingInTime
<1> QED
  BY <1>1 DEF SettledInv

LEMMA LoopSettles ==
  ASSUME NEW limit, Settles(limit), TypeOK, BlockedFor, SettledInv(limit), Loop
  PROVE  SettledInv(limit)'
<1> USE DEF Settles
<1> USE DEF Go, Block
<1> USE Times, KeyTypes
<1>1. UnreadInTime /\ ScanInTime /\ (main \in IdlePlaces => cooked = {} /\ prev_raw = {})
  BY DEF SettledInv
<1>2. CASE UpdateSuspend
  BY <1>1, <1>2, StillSettled DEF UpdateSuspend, UnreadInTime, ScanInTime, IdlePlaces
<1>3. CASE KeyboardTask
  <2>1. main = "keys" /\ main' = "eeprom" /\ Scan /\ inactive' = inactive
    BY <1>3 DEF KeyboardTask
  <2>2. BouncingInTime(limit)'
    BY <2>1, ScanSettles
  <2>3. raw' = prev_raw' /\ since' = 0
    BY <2>1 DEF Scan
  <2> QED
    BY <2>1, <2>2, <2>3 DEF SettledInv, UnreadInTime, ScanInTime, IdlePlaces
<1>4. CASE EepromTask
  <2>1. /\ UNCHANGED <<inactive, keyVars>> /\ main = "eeprom"
        /\ main' = "idle" \/ (main' = "flush" /\ left' \in 0 .. FlushTicks)
    BY <1>4 DEF EepromTask
  <2> QED
    BY <1>1, <2>1, StillSettled DEF UnreadInTime, ScanInTime, IdlePlaces
<1>5. CASE EepromFlushed
  <2>1. /\ UNCHANGED <<inactive, keyVars>> /\ main = "flush" /\ left = 0 /\ main' = "idle"
    BY <1>5 DEF EepromFlushed, Flushed
  <2> QED
    BY <1>1, <2>1, StillSettled DEF UnreadInTime, ScanInTime, IdlePlaces
<1>6. CASE CheckIdle
  <2>1. UNCHANGED <<inactive, keyVars>> /\ main = "idle"
    BY <1>6 DEF CheckIdle
  <2>2. CASE IsIdle /\ main' = "activity"
    BY <2>1, <2>2, IdleIsSettled, StillSettled DEF UnreadInTime, ScanInTime
  <2>3. CASE main' = "nap" /\ left' = 1
    BY <1>1, <2>1, <2>3, StillSettled DEF UnreadInTime, ScanInTime, IdlePlaces
  <2> QED
    BY <1>6, <2>2, <2>3 DEF CheckIdle
<1>7. CASE NapOver \/ WaitOver
  <2>1. /\ UNCHANGED <<inactive, keyVars>> /\ main \in {"nap", "take"} /\ left = 0
        /\ main' = "suspend"
    BY <1>7 DEF NapOver, WaitOver
  <2>2. UnreadInTime' /\ ScanInTime'
    BY <1>1, <2>1 DEF UnreadInTime, ScanInTime, IdlePlaces
  <2> QED
    BY <2>1, <2>2, StillSettled DEF IdlePlaces
<1>8. CASE ActivityUpdate \/ LastSuspendUpdate \/ ComputeWait
  <2>1. /\ UNCHANGED <<inactive, keyVars, sem>>
        /\ main \in {"activity", "resuspend", "compute"}
        /\ main' \in {"resuspend", "compute", "wait"}
    BY <1>8 DEF ActivityUpdate, LastSuspendUpdate, ComputeWait
  <2> QED
    BY <1>1, <2>1, StillSettled DEF UnreadInTime, ScanInTime, IdlePlaces
<1>9. CASE EnterSleep \/ LastFlushed \/ Darken \/ PowerOff
  <2>1. /\ UNCHANGED <<inactive, keyVars>> /\ main \in IdlePlaces
        /\ main' \in {"lastflush", "darken", "lastnap", "off"}
    BY <1>9 DEF EnterSleep, LastFlushed, Flushed, Darken, PowerOff, IdlePlaces
  <2> QED
    BY <1>1, <2>1, StillSettled DEF UnreadInTime, ScanInTime
<1>10. CASE WaitActivity
  <2>1. /\ UNCHANGED <<inactive, keyVars>> /\ main = "wait"
        /\ main' = IF sem THEN "suspend" ELSE "take"
    BY <1>10 DEF WaitActivity
  <2> QED
    BY <1>1, <2>1, StillSettled DEF UnreadInTime, ScanInTime, IdlePlaces
<1> QED
  BY <1>2, <1>3, <1>4, <1>5, <1>6, <1>7, <1>8, <1>9, <1>10 DEF Loop

\* A wake-up leaves the loop where it is.
LEMMA GiveSettles ==
  ASSUME NEW limit, Settles(limit), TypeOK, SettledInv(limit), Give,
         UNCHANGED <<main, inactive, keyVars>>
  PROVE  SettledInv(limit)'
<1>1. (left' = 0 /\ main = "take" /\ sem' = sem) \/ (left' = left /\ sem' = TRUE)
  BY Zenon DEF Give
<1>2. UnreadInTime' /\ ScanInTime'
  BY <1>1 DEF SettledInv, UnreadInTime, ScanInTime
<1> QED
  BY <1>2, StillSettled DEF SettledInv

LEMMA KeySettles ==
  ASSUME NEW limit, Settles(limit), TypeOK, BlockedFor, SettledInv(limit), KeyEvent
  PROVE  SettledInv(limit)'
<1> USE DEF Settles
<1> USE Times, KeyTypes
<1>1. /\ inactive' = 0 /\ UNCHANGED <<main, prev_raw, cooked, counter, since>> /\ Give
  BY Zenon DEF KeyEvent
<1>2. (left' = 0 /\ main = "take" /\ sem' = sem) \/ (left' = left /\ sem' = TRUE)
  BY <1>1, Zenon DEF Give
<1>3. main = "take" => left' = 0 \/ left = 0
  BY <1>1, Zenon DEF Give
<1>4. UnreadInTime'
  BY <1>1, <1>2, <1>3 DEF UnreadInTime, BlockedFor, Give
<1>5. BouncingInTime(limit)'
  <2> SUFFICES ASSUME NEW k \in Key
               PROVE  /\ counter[k] + 2 * FlushTicks + 1 <= limit
                      /\ (k \in cooked) # (k \in prev_raw) => counter[k] > 0
                      /\ counter[k] + 0 + FlushTicks <= since + limit
    BY <1>1 DEF BouncingInTime
  <2> QED
    BY DEF SettledInv, BouncingInTime
<1>6. ScanInTime'
  BY <1>1, <1>2 DEF SettledInv, ScanInTime
<1> QED
  BY <1>1, <1>4, <1>5, <1>6 DEF SettledInv

LEMMA TickSettles ==
  ASSUME NEW limit, Settles(limit), TypeOK, BlockedFor, SettledInv(limit), Tick
  PROVE  SettledInv(limit)'
<1> USE DEF Settles
<1> USE Times, KeyTypes
<1>1. /\ UNCHANGED <<main, sem, raw, prev_raw, cooked, counter>> /\ left # 0
      /\ main \in BlockedAt
      /\ left' = IF left = Forever THEN Forever ELSE left - 1
      /\ inactive' = CountUp(inactive, MaxTime) /\ since' = CountUp(since, MaxTime)
  BY DEF Tick, Blocked
<1>2. main \in {"nap", "flush"} => left \in Nat /\ left' = left - 1
  BY <1>1 DEF BlockedFor
<1>3. inactive' \in {inactive, inactive + 1} /\ since' \in {since, since + 1}
  BY <1>1 DEF CountUp
<1>4. UnreadInTime'
  BY <1>1, <1>2, <1>3 DEF SettledInv, UnreadInTime, BlockedAt
<1>5. ScanInTime'
  BY <1>1, <1>2, <1>3 DEF SettledInv, ScanInTime, BlockedAt
<1>6. BouncingInTime(limit)'
  <2> SUFFICES ASSUME NEW k \in Key, raw = prev_raw, (k \in cooked) # (k \in prev_raw)
               PROVE  counter[k] + inactive' + FlushTicks <= since' + limit
    BY <1>1 DEF SettledInv, BouncingInTime
  <2>1. /\ counter[k] + 2 * FlushTicks + 1 <= limit
        /\ counter[k] + inactive + FlushTicks <= since + limit
    BY DEF SettledInv, BouncingInTime
  <2>2. CASE since < MaxTime
    BY <1>1, <1>3, <2>1, <2>2 DEF CountUp
  <2>3. CASE since = MaxTime
    <3>1. inactive \in 0 .. MaxTime /\ since' = MaxTime
      BY <1>1, <2>3 DEF TypeOK, CountUp
    <3>2. inactive' <= MaxTime
      BY <1>1, <3>1 DEF CountUp
    <3> QED
      BY <1>3, <2>1, <3>1, <3>2
  <2> QED
    BY <2>2, <2>3
<1> QED
  BY <1>1, <1>4, <1>5, <1>6 DEF SettledInv

LEMMA SettledStep ==
  ASSUME NEW limit, Settles(limit), TypeOK, BlockedFor, SettledInv(limit), [Next]_vars
  PROVE  SettledInv(limit)'
<1>1. CASE UsbSuspend \/ UsbResume \/ VbusRemoved \/ LedReport \/ ViaWake
  <2>1. Give /\ UNCHANGED <<main, inactive, keyVars>>
    BY <1>1, Zenon DEF UsbSuspend, UsbResume, VbusRemoved, LedReport, ViaWake,
                       SuspendCallback
  <2> QED
    BY <2>1, GiveSettles
<1>2. CASE Plug \/ UsbConfiguration \/ Unplug \/ ViaCommand \/ UNCHANGED vars
  <2>1. UNCHANGED <<main, semVars, inactive, keyVars>>
    BY <1>2 DEF Plug, UsbConfiguration, Unplug, ViaCommand, vars
  <2>2. UnreadInTime' /\ ScanInTime'
    BY <2>1 DEF SettledInv, UnreadInTime, ScanInTime
  <2> QED
    BY <2>1, <2>2, StillSettled DEF SettledInv
<1>3. CASE Reset
  <2>1. /\ main' = "suspend" /\ inactive' = 0 /\ since' = 0
        /\ raw' = {} /\ prev_raw' = {} /\ cooked' = {}
        /\ \A k \in Key : counter'[k] = 0
    BY <1>3 DEF Reset
  <2>2. 2 * FlushTicks + 1 <= limit
    BY GraceBound
  <2> QED
    BY <2>1, <2>2, Times
       DEF SettledInv, UnreadInTime, BouncingInTime, ScanInTime, IdlePlaces
<1> QED
  BY <1>1, <1>2, <1>3, LoopSettles, KeySettles, TickSettles DEF Next, Event, Usb

LEMMA SettledAlways ==
  ASSUME NEW limit, Settles(limit)
  PROVE  Spec => [](TypeOK /\ SleepInv /\ BlockedFor /\ SettledInv(limit))
<1>1. Init => SettledInv(limit)
  <2> SUFFICES ASSUME Init PROVE SettledInv(limit)
    OBVIOUS
  <2>1. \A k \in Key : counter[k] = 0
    BY DEF Init
  <2>2. 2 * FlushTicks + 1 <= limit
    BY GraceBound
  <2> QED
    BY <2>1, <2>2, Times
       DEF Init, SettledInv, UnreadInTime, BouncingInTime, ScanInTime, IdlePlaces
<1>2. TypeOK /\ SleepInv /\ BlockedFor /\ SettledInv(limit) /\ [Next]_vars => SettledInv(limit)'
  BY SettledStep
<1> QED
  BY <1>1, <1>2, BlockedForAlways, PTL DEF Spec

\* While the loop sleeps the debounced matrix shows no key, if a debounce time and
\* two block writes to the flash are over before the grace is (keyboard_task,
\* matrixIsIdle; with longer ones the host can be left with a key down).
THEOREM NeverSleepsOverABounce ==
  ASSUME \A d \in DebounceTimes : d + 2 * FlushTicks + 1 <= Grace
  PROVE  Spec => []SettledAsleep
<1>1. PICK limit : limit = Grace
  OBVIOUS
<1>2. SettledInv(limit) => SettledAsleep
  BY DEF SettledInv, SettledAsleep, Asleep, IdlePlaces
<1>3. Settles(limit)
  BY <1>1, Times DEF Settles
<1>4. Spec => [](TypeOK /\ SleepInv /\ BlockedFor /\ SettledInv(limit))
  BY <1>3, SettledAlways
<1> QED
  BY <1>2, <1>4, PTL

-----------------------------------------------------------------------------
(* RGB: how many rounds of the loop are left until a change is taken over. *)
(* With nothing to be shown there are three, and the grace of the key that *)
(* made the change is longer. A frame that is shown may take more than the *)
(* grace, but the loop then sleeps for one period at a time.               *)

Shown == rgb_on /\ ~suspended

\* Nothing is shown, and RGB was changed and is not in the mirror, or was turned off
\* and has power.
QuickPending == (rgb_unsaved /\ ~Shown) \/ (~rgb_on /\ rail)

\* How long ago the change was, at each round that is left for it.
QuickAllowed(limit) ==
  IF rgb_task_state = "SYNCING" THEN limit + 2 * (FlushTicks + 1)
  ELSE IF rgb_task_state = "FLUSHING" THEN limit + (FlushTicks + 1)
  ELSE limit

QuickInTime(limit) ==
  /\ main \in {"suspend", "keys"}
       => rgb_task_state = "SYNCING" \/ inactive <= QuickAllowed(limit) + FlushTicks + 1
  /\ main = "eeprom" => inactive <= QuickAllowed(limit)
  /\ main = "flush" => inactive + left <= QuickAllowed(limit) + FlushTicks
  /\ main = "idle" => inactive <= QuickAllowed(limit) + FlushTicks
  /\ main = "nap" => inactive + left <= QuickAllowed(limit) + FlushTicks + 1
  /\ main \in {"compute", "wait"} => sem /\ rgb_task_state = "SYNCING"
  /\ main \notin {"activity", "resuspend", "take"}

\* The rounds left in any case: a frame is drawn and flushed, rgb_task_sync saves.
RoundsLeft ==
  IF rgb_task_state = "SYNCING" THEN 1
  ELSE IF rgb_task_state = "FLUSHING" THEN 2
  ELSE RenderRounds - drawn + 2

Allowed(limit) == limit + ((RenderRounds + 2) - RoundsLeft) * (FlushTicks + 1)

UnsavedInTime(limit) ==
  /\ main \in {"suspend", "keys"} => inactive <= Allowed(limit) + FlushTicks + 1
  /\ main = "eeprom" => inactive <= Allowed(limit)
  /\ main = "flush" => inactive + left <= Allowed(limit) + FlushTicks
  /\ main \in {"idle", "activity", "resuspend", "compute", "wait"}
       => inactive <= Allowed(limit) + FlushTicks
  /\ main = "nap" => inactive + left <= Allowed(limit) + FlushTicks + 1
  /\ main = "take" => left \in 0 .. 1 /\ inactive + left <= Allowed(limit) + FlushTicks + 1

\* A USB suspend since the last qmkSuspendUpdate has left a token.
HostInv ==
  /\ main \in {"keys", "eeprom", "flush", "idle", "activity", "resuspend"}
       /\ ~suspended /\ usb_suspended => sem
  /\ via = "rest"

RgbInv(limit) ==
  /\ QuickPending => rgb_task_state # "STARTING" /\ QuickInTime(limit)
  /\ rgb_unsaved => rgb_task_state # "STARTING" /\ UnsavedInTime(limit)
  /\ ~rgb_on /\ rail => rgb_task_state # "SYNCING"

\* The grace is long enough for the debouncing and three rounds, the RGB timeouts for
\* the debouncing and a frame.
Renders(limit) ==
  /\ Settles(limit)
  /\ limit + 3 * (FlushTicks + 1) <= Grace
  /\ \A t \in Timeouts :
       t.rgb > 0 => limit + (RenderRounds + 2) * (FlushTicks + 1) <= t.rgb

LEMMA RoundTimes ==
  ASSUME NEW m \in Nat, NEW n \in Nat, NEW u \in Nat
  PROVE  /\ m * u \in Nat
         /\ (m + n) * u = m * u + n * u
         /\ n > 0 => n * u >= u
<1>1. m * u \in Nat /\ (m + n) * u = m * u + n * u
  OBVIOUS
<1>2. \A k \in Nat : (k + 1) * u = k * u + u /\ k * u \in Nat
  OBVIOUS
<1>3. n > 0 => n - 1 \in Nat /\ n = (n - 1) + 1
  OBVIOUS
<1>4. n > 0 => n * u = (n - 1) * u + u /\ (n - 1) * u \in Nat
  BY <1>2, <1>3
<1> QED
  BY <1>1, <1>4

LEMMA Rounds ==
  ASSUME TypeOK
  PROVE  RoundsLeft \in 1 .. RenderRounds + 2
BY Times DEF TypeOK, RoundsLeft

LEMMA RoundsNext ==
  ASSUME TypeOK'
  PROVE  RoundsLeft' \in 1 .. RenderRounds + 2
<1>1. drawn' \in 0 .. RenderRounds - 1
  BY DEF TypeOK
<1>2. \A n \in 0 .. RenderRounds - 1 : (RenderRounds - n) + 2 \in 1 .. RenderRounds + 2
  BY Times
<1>3. 1 \in 1 .. RenderRounds + 2 /\ 2 \in 1 .. RenderRounds + 2
  BY Times
<1> QED
  BY <1>1, <1>2, <1>3, Zenon DEF RoundsLeft

\* A round that brings the change further makes room for one more round.
LEMMA AllowedGrows ==
  ASSUME NEW limit \in Nat, TypeOK, TypeOK', RoundsLeft' <= RoundsLeft
  PROVE  /\ Allowed(limit) \in Nat /\ Allowed(limit)' \in Nat
         /\ Allowed(limit)' >= Allowed(limit)
         /\ RoundsLeft' < RoundsLeft => Allowed(limit)' >= Allowed(limit) + FlushTicks + 1
<1> DEFINE M == RenderRounds + 2
           a == M - RoundsLeft
           d == RoundsLeft - RoundsLeft'
           u == FlushTicks + 1
<1>1. a \in Nat /\ d \in Nat /\ u \in Nat /\ M - RoundsLeft' = a + d
  BY Rounds, RoundsNext, Times
<1>2. Allowed(limit) = limit + a * u /\ Allowed(limit)' = limit + (M - RoundsLeft') * u
  BY DEF Allowed
<1> HIDE DEF M, a, d, u
<1>3. a * u \in Nat /\ d * u \in Nat /\ (a + d) * u = a * u + d * u /\ (d > 0 => d * u >= u)
      /\ (M - RoundsLeft') * u = (a + d) * u
  BY <1>1, RoundTimes
<1>4. (RoundsLeft' < RoundsLeft => d > 0) /\ u = FlushTicks + 1
  BY Rounds, RoundsNext DEF d, u
<1> QED
  BY <1>1, <1>2, <1>3, <1>4, Times

LEMMA AllowedBelow ==
  ASSUME NEW limit, Renders(limit), TypeOK
  PROVE  /\ limit \in Nat /\ Allowed(limit) \in Nat
         /\ timeout.rgb > 0 => Allowed(limit) + FlushTicks + 1 <= timeout.rgb
<1> DEFINE M == RenderRounds + 2
           a == M - RoundsLeft
           u == FlushTicks + 1
<1>1. a \in Nat /\ RoundsLeft \in Nat /\ RoundsLeft > 0 /\ u \in Nat /\ M = a + RoundsLeft
  BY Rounds, Times
<1>2. Allowed(limit) = limit + a * u /\ limit \in Nat
  BY DEF Allowed, Renders, Settles
<1>3. timeout.rgb > 0 => limit + M * u <= timeout.rgb
  BY DEF Renders, TypeOK
<1>4. u = FlushTicks + 1 /\ timeout.rgb \in Nat
  BY TimeoutTypes, Times DEF TypeOK
<1> HIDE DEF M, a, u
<1>5. a * u \in Nat /\ RoundsLeft * u \in Nat /\ (a + RoundsLeft) * u = a * u + RoundsLeft * u
      /\ RoundsLeft * u >= u /\ M * u = (a + RoundsLeft) * u
  BY <1>1, RoundTimes
<1> QED
  BY <1>1, <1>2, <1>3, <1>4, <1>5, Times

LEMMA QuickBelow ==
  ASSUME NEW limit, Renders(limit)
  PROVE  QuickAllowed(limit) \in Nat /\ QuickAllowed(limit) + FlushTicks < Grace
BY Times DEF QuickAllowed, Renders, Settles

\* When a scan takes a key over, its event is not longer ago than limit.
LEMMA TakenOverInTime ==
  ASSUME NEW limit, Settles(limit), TypeOK, SettledInv(limit), main = "keys",
         Transferred # cooked
  PROVE  inactive <= limit
<1>0. 2 * FlushTicks + 1 <= limit
  BY GraceBound
<1>1. FlushTicks + 1 <= limit /\ limit \in Nat
  BY <1>0, Times DEF Settles
<1>2. CASE raw # prev_raw
  BY <1>1, <1>2, KeyTypes, Times DEF SettledInv, UnreadInTime
<1>3. CASE raw = prev_raw
  <2>1. PICK k \in Key : (k \in cooked) # (k \in prev_raw)
    BY <1>3, KeyTypes DEF Transferred, Expired
  <2>2. counter[k] > 0 /\ counter[k] + inactive + FlushTicks <= since + limit
    BY <1>3, <2>1 DEF SettledInv, BouncingInTime
  <2>3. since <= FlushTicks + 1
    BY <2>1 DEF SettledInv, ScanInTime
  <2> QED
    BY <1>1, <2>2, <2>3, KeyTypes, Times
<1> QED
  BY <1>2, <1>3

\* What one round does to a change.
LEMMA KeyboardRenders ==
  ASSUME NEW limit, Renders(limit), TypeOK, TypeOK', SettledInv(limit), RgbInv(limit),
         KeyboardTask
  PROVE  RgbInv(limit)'
<1>0. limit \in Nat /\ Settles(limit)
  BY DEF Renders, Settles
<1>1. /\ main = "keys" /\ main' = "eeprom" /\ inactive' = inactive /\ suspended' = suspended
      /\ KeyCode /\ KeySettings /\ RgbMatrixTask
  BY DEF KeyboardTask, Go
<1>2. /\ rgb_on \in BOOLEAN /\ rgb_on' \in BOOLEAN /\ rgb_unsaved \in BOOLEAN
      /\ rgb_unsaved' \in BOOLEAN /\ rail \in BOOLEAN /\ rail' \in BOOLEAN
      /\ suspended \in BOOLEAN /\ rgb_task_state \in RgbTask
      /\ inactive \in Nat /\ drawn \in 0 .. RenderRounds - 1
  BY KeyTypes DEF TypeOK
<1>3. rgb_unsaved' = (~SavesRgb /\ (rgb_unsaved \/ rgb_on' # rgb_on))
  BY <1>1, Zenon DEF KeySettings, SettingsEdited
<1>4. CASE rgb_on' # rgb_on
  <2>1. inactive <= limit
    BY <1>0, <1>1, <1>4, TakenOverInTime DEF KeyCode
  <2>2. rgb_task_state' = "RENDERING" /\ drawn' = 0
    BY <1>1, <1>4 DEF RgbMatrixTask, RgbTaskStep
  <2>3. RoundsLeft' = RenderRounds + 2
    BY <2>2, Times DEF RoundsLeft
  <2>4. Allowed(limit)' = limit + 0 * (FlushTicks + 1)
    BY <2>3, Times DEF Allowed
  <2>5. Allowed(limit)' = limit /\ QuickAllowed(limit)' = limit
    BY <1>0, <2>2, <2>4, Times DEF QuickAllowed
  <2>6. QuickInTime(limit)' /\ UnsavedInTime(limit)'
    BY <1>1, <2>1, <2>5 DEF QuickInTime, UnsavedInTime
  <2> QED
    BY <2>2, <2>6 DEF RgbInv
<1>5. CASE rgb_on' = rgb_on
  <2>0. Shown' <=> Shown
    BY <1>1, <1>5 DEF Shown
  <2>1. CASE rgb_task_state = "SYNCING"
    <3>1. ~rgb_unsaved'
      BY <1>2, <1>3, <1>5, <2>1, Zenon DEF SavesRgb
    <3>2. ~(~rgb_on /\ rail)
      BY <2>1 DEF RgbInv
    <3>3. rail' = rail
      BY <1>1, <1>5, <2>1 DEF RgbMatrixTask, RgbTaskStep
    <3> QED
      BY <1>5, <3>1, <3>2, <3>3, Zenon DEF RgbInv, QuickPending
  <2>2. CASE rgb_task_state = "STARTING"
    <3>1. ~rgb_unsaved /\ ~(~rgb_on /\ rail)
      BY <2>2, Zenon DEF RgbInv, QuickPending
    <3>2. rail' = rail
      BY <1>1, <1>5, <2>2 DEF RgbMatrixTask, RgbTaskStep
    <3>3. ~rgb_unsaved'
      BY <1>3, <1>5, <3>1, Zenon
    <3> QED
      BY <1>5, <3>1, <3>2, <3>3, Zenon DEF RgbInv, QuickPending
  <2>3. CASE rgb_task_state \in {"RENDERING", "FLUSHING"}
    <3>1. \/ /\ rgb_task_state = "FLUSHING" /\ rgb_task_state' = "SYNCING"
             /\ ~rgb_on => ~rail'
          \/ /\ rgb_task_state = "RENDERING" /\ rgb_task_state' = "FLUSHING"
             /\ rail' = rail /\ drawn' = 0
          \/ /\ rgb_task_state = "RENDERING" /\ rgb_task_state' = "RENDERING"
             /\ rail' = rail /\ drawn' = drawn + 1 /\ Shown
      BY <1>1, <1>2, <1>5, <2>3 DEF RgbMatrixTask, RgbTaskStep, Shown
    <3>2. RoundsLeft' < RoundsLeft
      BY <1>2, <3>1, Times DEF RoundsLeft
    <3>3. rgb_unsaved' => rgb_unsaved
      BY <1>3, <1>5, Zenon
    <3>4. Allowed(limit)' >= Allowed(limit) + FlushTicks + 1 /\ Allowed(limit) \in Nat
          /\ Allowed(limit)' \in Nat
      BY <1>0, <3>2, AllowedGrows, Rounds, RoundsNext
    <3>5. rgb_unsaved => inactive <= Allowed(limit) + FlushTicks + 1
      BY <1>1 DEF RgbInv, UnsavedInTime
    <3>6. rgb_unsaved' => UnsavedInTime(limit)'
      BY <1>1, <1>2, <3>3, <3>4, <3>5, Times DEF UnsavedInTime
    <3>7. QuickPending' => QuickPending /\ ~Shown
      BY <1>5, <2>0, <3>1, <3>3 DEF QuickPending, Shown
    <3>8. QuickPending => inactive <= QuickAllowed(limit) + FlushTicks + 1
      BY <1>1, <2>3 DEF RgbInv, QuickInTime
    <3>9. ~Shown => QuickAllowed(limit)' = QuickAllowed(limit) + FlushTicks + 1
                    /\ QuickAllowed(limit) \in Nat
      BY <1>0, <3>1, Times DEF QuickAllowed
    <3>10. QuickPending' => inactive' <= QuickAllowed(limit)'
      BY <1>1, <1>2, <3>7, <3>8, <3>9, Times
    <3>11. QuickPending' => QuickInTime(limit)'
      BY <1>1, <3>10 DEF QuickInTime
    <3>12. rgb_task_state' # "STARTING"
           /\ (~rgb_on' /\ rail' => rgb_task_state' # "SYNCING")
      BY <1>5, <3>1
    <3> QED
      BY <3>6, <3>11, <3>12 DEF RgbInv
  <2> QED
    BY <1>2, <2>1, <2>2, <2>3 DEF RgbTask
<1> QED
  BY <1>4, <1>5

\* To suspend turns the rail off and leaves nothing to draw.
LEMMA UpdateSuspendRenders ==
  ASSUME NEW limit, Renders(limit), TypeOK, TypeOK', RgbInv(limit), UpdateSuspend
  PROVE  RgbInv(limit)'
<1>1. /\ main = "suspend" /\ main' = "keys" /\ SuspendUpdate
      /\ UNCHANGED inactive
  BY DEF UpdateSuspend, Go
<1>1a. rgb_unsaved' => rgb_unsaved
  BY <1>1, PowerSaves
<1>2. \/ UNCHANGED rgbVars
      \/ rgb_on' = rgb_on /\ rgb_task_state' = "SYNCING" /\ drawn' = 0 /\ rail' = FALSE
  BY <1>1, Zenon DEF SuspendUpdate, PowerDown, Wakeup, Shown
<1>3. RoundsLeft' <= RoundsLeft
  BY <1>2, Rounds, RoundsNext DEF RoundsLeft
<1>4. Allowed(limit)' >= Allowed(limit) /\ Allowed(limit) \in Nat /\ Allowed(limit)' \in Nat
  BY <1>3, AllowedBelow, AllowedGrows
<1>5. rgb_unsaved' => UnsavedInTime(limit)'
  <2>1. rgb_unsaved => inactive <= Allowed(limit) + FlushTicks + 1
    BY <1>1 DEF RgbInv, UnsavedInTime
  <2> QED
    BY <1>1, <1>1a, <1>4, <2>1, KeyTypes, Times DEF UnsavedInTime
<1>6. CASE rgb_task_state' = "SYNCING" /\ ~rail'
  BY <1>1, <1>5, <1>6 DEF RgbInv, QuickInTime
<1>7. CASE UNCHANGED rgbVars /\ (suspended' => suspended)
  <2>1. QuickPending' => QuickPending
    BY <1>1, <1>1a, <1>7, Zenon DEF QuickPending, Shown
  <2>2. QuickAllowed(limit)' = QuickAllowed(limit)
    BY <1>7 DEF QuickAllowed
  <2>3. QuickPending => rgb_task_state = "SYNCING"
                        \/ inactive <= QuickAllowed(limit) + FlushTicks + 1
    BY <1>1 DEF RgbInv, QuickInTime
  <2>4. QuickPending' => QuickInTime(limit)'
    BY <1>1, <1>7, <2>1, <2>2, <2>3 DEF QuickInTime
  <2> QED
    BY <1>1, <1>1a, <1>5, <1>7, <2>1, <2>4 DEF RgbInv
<1>8. \/ rgb_task_state' = "SYNCING" /\ ~rail'
      \/ UNCHANGED rgbVars /\ (suspended' => suspended)
  BY <1>1, Zenon DEF SuspendUpdate, PowerDown, Wakeup
<1> QED
  BY <1>6, <1>7, <1>8

\* To suspend a second time in a round takes a USB suspend, and then a token.
LEMMA LastSuspendRenders ==
  ASSUME NEW limit, Renders(limit), TypeOK, TypeOK', HostInv, RgbInv(limit),
         LastSuspendUpdate
  PROVE  RgbInv(limit)'
<1>1. /\ main = "resuspend" /\ main' = "compute" /\ SuspendUpdate
      /\ UNCHANGED <<inactive, sem>>
  BY DEF LastSuspendUpdate, Go
<1>1a. rgb_unsaved' => rgb_unsaved
  BY <1>1, PowerSaves
<1>2. ~QuickPending
  BY <1>1 DEF RgbInv, QuickInTime
<1>3. ~(~rgb_on /\ rail) /\ (rgb_unsaved => Shown)
  BY <1>2, Zenon DEF QuickPending
<1>4. rgb_unsaved => inactive <= Allowed(limit) + FlushTicks
  BY <1>1 DEF RgbInv, UnsavedInTime
<1>5. Allowed(limit) \in Nat
      /\ (timeout.rgb > 0 => Allowed(limit) + FlushTicks + 1 <= timeout.rgb)
  BY AllowedBelow
<1>6. rgb_unsaved => ~RgbIsIdle
  BY <1>4, <1>5, KeyTypes, TimeoutTypes, Times DEF RgbIsIdle, TypeOK
<1>7. rgb_unsaved /\ WantSuspended => sem
  BY <1>1, <1>3, <1>6 DEF WantSuspended, HostInv, Shown
<1>8. CASE PowerDown /\ WantSuspended
  <2>1. rgb_task_state' = "SYNCING" /\ rail' = FALSE /\ drawn' = 0
    BY <1>8 DEF PowerDown
  <2>2. RoundsLeft' <= RoundsLeft
    BY <2>1, Rounds DEF RoundsLeft
  <2>3. Allowed(limit)' >= Allowed(limit) /\ Allowed(limit)' \in Nat
    BY <2>2, AllowedBelow, AllowedGrows
  <2>4. rgb_unsaved' => UnsavedInTime(limit)'
    BY <1>1, <1>1a, <1>4, <1>5, <2>3, KeyTypes, Times DEF UnsavedInTime
  <2>5. rgb_unsaved' => QuickInTime(limit)'
    BY <1>1, <1>1a, <1>7, <1>8, <2>1 DEF QuickInTime
  <2> QED
    BY <2>1, <2>4, <2>5 DEF RgbInv, QuickPending
<1>9. CASE UNCHANGED rgbVars /\ (suspended' => suspended)
  <2>1. ~QuickPending'
    BY <1>1, <1>1a, <1>2, <1>9, Zenon DEF QuickPending, Shown
  <2>2. Allowed(limit)' = Allowed(limit)
    BY <1>9 DEF Allowed, RoundsLeft
  <2>3. rgb_unsaved' => UnsavedInTime(limit)'
    BY <1>1, <1>1a, <1>4, <2>2 DEF UnsavedInTime
  <2> QED
    BY <1>1, <1>1a, <1>9, <2>1, <2>3 DEF RgbInv
<1>10. \/ PowerDown /\ WantSuspended
       \/ UNCHANGED rgbVars /\ (suspended' => suspended)
  BY <1>1, Zenon DEF SuspendUpdate, Wakeup
<1> QED
  BY <1>8, <1>9, <1>10

\* What leaves RGB alone only has to keep the times of its place.
LEMMA StillRenders ==
  ASSUME NEW limit, RgbInv(limit), UNCHANGED <<rgbVars, suspended, rgb_unsaved>>,
         QuickPending /\ QuickInTime(limit) => QuickInTime(limit)',
         rgb_unsaved /\ UnsavedInTime(limit) => UnsavedInTime(limit)'
  PROVE  RgbInv(limit)'
<1>1. QuickPending' <=> QuickPending
  BY Zenon DEF QuickPending, Shown
<1> QED
  BY <1>1 DEF RgbInv

LEMMA AllowedSame ==
  ASSUME NEW limit, UNCHANGED rgbVars
  PROVE  Allowed(limit)' = Allowed(limit) /\ QuickAllowed(limit)' = QuickAllowed(limit)
BY DEF Allowed, RoundsLeft, QuickAllowed

LEMMA LoopRenders ==
  ASSUME NEW limit, Renders(limit), TypeOK, TypeOK', SleepInv, BlockedFor,
         SettledInv(limit), HostInv, RgbInv(limit), Loop
  PROVE  RgbInv(limit)'
<1> USE DEF Go, Block
<1> USE Times, KeyTypes
<1>1. limit \in Nat /\ Allowed(limit) \in Nat
      /\ QuickAllowed(limit) \in Nat /\ QuickAllowed(limit) + FlushTicks < Grace
  BY AllowedBelow, QuickBelow
<1>2. CASE KeyboardTask
  BY <1>2, KeyboardRenders
<1>3. CASE UpdateSuspend \/ LastSuspendUpdate
  BY <1>3, UpdateSuspendRenders, LastSuspendRenders
<1>4. CASE Darken
  <2>1. /\ main = "darken" /\ main' = "lastnap"
        /\ UNCHANGED <<rgbVars, suspended, rgb_unsaved>> \/ PowerDown
    BY <1>4 DEF Darken, eeVars
  <2>2. QuickInTime(limit)' /\ UnsavedInTime(limit)'
    BY <2>1 DEF QuickInTime, UnsavedInTime
  <2>3. CASE PowerDown
    BY <2>2, <2>3 DEF RgbInv, PowerDown
  <2>4. CASE UNCHANGED <<rgbVars, suspended, rgb_unsaved>>
    BY <2>2, <2>4, StillRenders
  <2> QED
    BY <2>1, <2>3, <2>4
<1>5. CASE EepromTask \/ EepromFlushed \/ CheckIdle \/ NapOver \/ ComputeWait
           \/ WaitOver \/ ActivityUpdate
  <2>1. UNCHANGED <<rgbVars, suspended, rgb_unsaved, inactive, sem>>
    BY <1>5 DEF EepromTask, EepromFlushed, CheckIdle, NapOver, ComputeWait, Flushed,
                WaitOver, ActivityUpdate
  <2>2. \/ main = "eeprom" /\ main' = "flush" /\ left' \in 0 .. FlushTicks
        \/ main = "eeprom" /\ main' = "idle"
        \/ main = "flush" /\ left = 0 /\ main' = "idle"
        \/ main = "idle" /\ main' = "activity" /\ IsIdle
        \/ main = "idle" /\ main' = "nap" /\ left' = 1
        \/ main = "nap" /\ left = 0 /\ main' = "suspend"
        \/ main = "activity" /\ main' = "resuspend"
        \/ main = "compute" /\ main' = "wait"
        \/ main = "take" /\ left = 0 /\ main' = "suspend"
    BY <1>5 DEF EepromTask, EepromFlushed, CheckIdle, NapOver, ComputeWait, Flushed,
                WaitOver, ActivityUpdate
  <2>3. Allowed(limit)' = Allowed(limit) /\ QuickAllowed(limit)' = QuickAllowed(limit)
    BY <2>1, AllowedSame
  <2>4. QuickInTime(limit) /\ main = "idle" => ~IsIdle
    BY <1>1 DEF IsIdle, QuickInTime
  <2>5. QuickInTime(limit) => QuickInTime(limit)'
    BY <1>1, <2>1, <2>2, <2>3, <2>4 DEF QuickInTime
  <2>6. UnsavedInTime(limit) => UnsavedInTime(limit)'
    BY <1>1, <2>1, <2>2, <2>3 DEF UnsavedInTime
  <2> QED
    BY <2>1, <2>5, <2>6, StillRenders
<1>6. CASE EnterSleep \/ LastFlushed \/ PowerOff
  <2>1. /\ UNCHANGED <<rgbVars, suspended, rgb_unsaved>>
        /\ main' \in {"lastflush", "darken", "off"}
    BY <1>6 DEF EnterSleep, LastFlushed, PowerOff, Flushed
  <2>2. QuickInTime(limit)' /\ UnsavedInTime(limit)'
    BY <2>1 DEF QuickInTime, UnsavedInTime
  <2> QED
    BY <2>1, <2>2, StillRenders
<1>7. CASE WaitActivity
  <2>1. /\ UNCHANGED <<rgbVars, suspended, rgb_unsaved, inactive, left>>
        /\ main = "wait" /\ main' = IF sem THEN "suspend" ELSE "take"
    BY <1>7 DEF WaitActivity
  <2>2. Allowed(limit)' = Allowed(limit) /\ QuickAllowed(limit)' = QuickAllowed(limit)
    BY <2>1, AllowedSame
  <2>3. QuickInTime(limit) => QuickInTime(limit)'
    BY <2>1 DEF QuickInTime
  <2>4. CASE sem
    <3>1. UnsavedInTime(limit) => UnsavedInTime(limit)'
      BY <1>1, <2>1, <2>2, <2>4 DEF UnsavedInTime
    <3> QED
      BY <2>1, <2>3, <3>1, StillRenders
  <2>5. CASE ~sem /\ rgb_unsaved
    <3>1. ~QuickPending
      BY <2>1, <2>5 DEF RgbInv, QuickInTime
    <3>2. Shown
      BY <2>5, <3>1, Zenon DEF QuickPending
    <3>3. left = 1
      BY <2>1, <2>5, <3>2 DEF SleepInv, Woken, HostInv, Shown
    <3>4. UnsavedInTime(limit) => UnsavedInTime(limit)'
      BY <1>1, <2>1, <2>2, <2>5, <3>3 DEF UnsavedInTime
    <3> QED
      BY <2>1, <2>3, <3>4, StillRenders
  <2>6. CASE ~rgb_unsaved
    BY <2>1, <2>3, <2>6, StillRenders
  <2> QED
    BY <2>4, <2>5, <2>6
<1> QED
  BY <1>2, <1>3, <1>4, <1>5, <1>6, <1>7 DEF Loop

LEMMA EventRenders ==
  ASSUME NEW limit, Renders(limit), TypeOK, BlockedFor, RgbInv(limit),
         UNCHANGED <<main, rgbVars, suspended, rgb_unsaved>>,
         inactive' = inactive \/ inactive' = 0,
         sem' = sem \/ sem' = TRUE,
         left' = left \/ (main = "take" /\ left' = 0)
  PROVE  RgbInv(limit)'
<1> USE Times, KeyTypes
<1>1. /\ Allowed(limit) \in Nat /\ Allowed(limit)' = Allowed(limit)
      /\ QuickAllowed(limit) \in Nat /\ QuickAllowed(limit)' = QuickAllowed(limit)
  BY AllowedBelow, QuickBelow, AllowedSame
<1>2. QuickInTime(limit) => QuickInTime(limit)'
  BY <1>1 DEF QuickInTime, BlockedFor
<1>3. UnsavedInTime(limit) => UnsavedInTime(limit)'
  BY <1>1 DEF UnsavedInTime, BlockedFor
<1> QED
  BY <1>2, <1>3, StillRenders

LEMMA TickRenders ==
  ASSUME NEW limit, Renders(limit), TypeOK, BlockedFor, RgbInv(limit), Tick
  PROVE  RgbInv(limit)'
<1> USE Times, KeyTypes
<1>1. /\ Allowed(limit) \in Nat /\ Allowed(limit)' = Allowed(limit)
      /\ QuickAllowed(limit) \in Nat /\ QuickAllowed(limit)' = QuickAllowed(limit)
  BY AllowedBelow, QuickBelow, AllowedSame DEF Tick
<1>2. /\ UNCHANGED <<main, rgbVars, suspended, rgb_unsaved, sem>> /\ main \in BlockedAt
      /\ left' = IF left = Forever THEN Forever ELSE left - 1
      /\ inactive' = inactive \/ inactive' = inactive + 1
      /\ left # 0
  BY DEF Tick, Blocked, CountUp
<1>3. main \in {"nap", "flush"} => left \in Nat /\ left' = left - 1
  BY <1>2 DEF BlockedFor
<1>4. QuickInTime(limit) => QuickInTime(limit)'
  BY <1>1, <1>2, <1>3 DEF QuickInTime, BlockedAt
<1>5. UnsavedInTime(limit) => UnsavedInTime(limit)'
  BY <1>1, <1>2, <1>3 DEF UnsavedInTime, BlockedAt
<1> QED
  BY <1>2, <1>4, <1>5, StillRenders

LEMMA HostStep ==
  ASSUME TypeOK, HostInv, ~ViaOn, [Next]_vars
  PROVE  HostInv'
<1> USE DEF Go, Block
<1>1. CASE UpdateSuspend
  <2>1. SuspendUpdate /\ UNCHANGED <<usb_suspended, timeout, inactive, via>>
    BY <1>1 DEF UpdateSuspend
  <2>2. suspended' = WantSuspended'
    BY <2>1, SuspendUpdateSettles
  <2> QED
    BY <2>1, <2>2 DEF HostInv, WantSuspended
<1>2. CASE KeyboardTask \/ EepromTask \/ EepromFlushed \/ CheckIdle \/ NapOver
           \/ ActivityUpdate \/ EnterSleep \/ LastFlushed \/ PowerOff \/ ComputeWait
           \/ WaitActivity \/ WaitOver
  <2>1. /\ UNCHANGED <<suspended, usb_suspended, via>>
        /\ \/ sem' = sem /\ main \in {"keys", "eeprom", "flush", "idle", "activity"}
           \/ main' \notin {"keys", "eeprom", "flush", "idle", "activity", "resuspend"}
    BY <1>2 DEF KeyboardTask, EepromTask, EepromFlushed, CheckIdle, NapOver,
                ActivityUpdate, EnterSleep, LastFlushed, PowerOff, ComputeWait,
                WaitActivity, WaitOver, Flushed
  <2> QED
    BY <2>1 DEF HostInv
<1>3. CASE Darken \/ LastSuspendUpdate
  BY <1>3 DEF Darken, LastSuspendUpdate, HostInv
<1>4. CASE UsbSuspend \/ UsbResume \/ VbusRemoved
  <2>1. /\ Give /\ UNCHANGED <<main, via, suspended>>
    BY <1>4, Zenon DEF UsbSuspend, UsbResume, VbusRemoved, SuspendCallback
  <2>2. main # "take" => sem'
    BY <2>1, Zenon DEF Give
  <2> QED
    BY <2>1, <2>2 DEF HostInv
<1>5. CASE KeyEvent \/ LedReport \/ ViaWake
  <2>1. /\ Give /\ UNCHANGED <<main, suspended, usb_suspended>>
        /\ via' = via \/ via' = "rest"
    BY <1>5, Zenon DEF KeyEvent, LedReport, ViaWake
  <2>2. sem' = sem \/ sem' = TRUE
    BY <2>1, Zenon DEF Give
  <2> QED
    BY <2>1, <2>2 DEF HostInv
<1>6. CASE Tick \/ Plug \/ UsbConfiguration \/ Unplug \/ UNCHANGED vars
  <2>1. UNCHANGED <<main, suspended, usb_suspended, via, sem>>
    BY <1>6 DEF Tick, Plug, UsbConfiguration, Unplug, vars
  <2> QED
    BY <2>1 DEF HostInv
<1>7. CASE ViaCommand
  BY <1>7 DEF ViaCommand
<1>8. CASE Reset
  BY <1>8 DEF Reset, HostInv
<1> QED
  BY <1>1, <1>2, <1>3, <1>4, <1>5, <1>6, <1>7, <1>8 DEF Next, Loop, Event, Usb

LEMMA RgbStep ==
  ASSUME NEW limit, Renders(limit), ~ViaOn, TypeOK, TypeOK', SleepInv, BlockedFor,
         SettledInv(limit), HostInv, RgbInv(limit), [Next]_vars
  PROVE  RgbInv(limit)'
<1>1. CASE KeyEvent \/ UsbSuspend \/ UsbResume \/ VbusRemoved \/ LedReport \/ ViaWake
  <2>1. Give /\ UNCHANGED <<main, rgbVars, suspended, rgb_unsaved>>
        /\ (inactive' = inactive \/ inactive' = 0)
    BY <1>1, Zenon DEF KeyEvent, UsbSuspend, UsbResume, VbusRemoved, LedReport, ViaWake,
                       SuspendCallback
  <2>2. /\ left' = left \/ (main = "take" /\ left' = 0)
        /\ sem' = sem \/ sem' = TRUE
    BY <2>1, Zenon DEF Give
  <2> QED
    BY <2>1, <2>2, EventRenders
<1>2. CASE Plug \/ UsbConfiguration \/ Unplug \/ UNCHANGED vars
  <2>1. UNCHANGED <<main, rgbVars, suspended, rgb_unsaved, inactive, left, sem>>
    BY <1>2 DEF Plug, UsbConfiguration, Unplug, vars
  <2> QED
    BY <2>1, EventRenders
<1>3. CASE ViaCommand
  BY <1>3 DEF ViaCommand
<1>4. CASE Reset
  <2>1. ~rgb_unsaved' /\ ~rail'
    BY <1>4 DEF Reset
  <2> QED
    BY <2>1, Zenon DEF RgbInv, QuickPending
<1> QED
  BY <1>1, <1>2, <1>3, <1>4, LoopRenders, TickRenders DEF Next, Event, Usb

LEMMA RgbAlways ==
  ASSUME NEW limit, Renders(limit), ~ViaOn
  PROVE  Spec => [](SleepInv /\ HostInv /\ RgbInv(limit))
<1>1. Init => HostInv /\ RgbInv(limit)
  <2> SUFFICES ASSUME Init PROVE HostInv /\ RgbInv(limit)
    OBVIOUS
  <2>1. ~rgb_unsaved /\ ~rail /\ main = "suspend" /\ via = "rest"
    BY DEF Init
  <2> QED
    BY <2>1 DEF RgbInv, QuickPending, HostInv
<1>2. TypeOK /\ HostInv /\ [Next]_vars => HostInv'
  BY HostStep
<1>3. TypeOK /\ TypeOK' /\ SleepInv /\ BlockedFor /\ SettledInv(limit) /\ HostInv
        /\ RgbInv(limit) /\ [Next]_vars => RgbInv(limit)'
  BY RgbStep
<1>4. Spec => [](TypeOK /\ SleepInv /\ BlockedFor /\ SettledInv(limit))
  BY SettledAlways DEF Renders
<1> QED
  BY <1>1, <1>2, <1>3, <1>4, PTL DEF Spec

\* The strip has no power while the loop sleeps with RGB off, if three rounds fit into
\* the idle grace after the debouncing, a frame ends before an RGB timeout, and nothing
\* comes from VIA (rgb_matrix_ws2812_flush, ap.c).
THEOREM RailFollows ==
  ASSUME NEW limit, Renders(limit), ~ViaOn
  PROVE  Spec => []RailFollowsRgb
<1>1. RgbInv(limit) => RailFollowsRgb
  BY DEF RgbInv, QuickPending, QuickInTime, RailFollowsRgb, Asleep
<1>2. Spec => [](SleepInv /\ HostInv /\ RgbInv(limit))
  BY RgbAlways
<1> QED
  BY <1>1, <1>2, PTL

\* An RGB change that is not in the mirror while the loop sleeps waits for a frame that
\* is drawn, one period at a time, on the same terms (rgb_task_sync).
THEOREM RgbIsSaved ==
  ASSUME NEW limit, Renders(limit), ~ViaOn
  PROVE  Spec => []RgbSavedAsleep
<1>1. SleepInv /\ HostInv /\ RgbInv(limit) => RgbSavedAsleep
  <2> SUFFICES ASSUME SleepInv, RgbInv(limit), Asleep, rgb_unsaved
               PROVE  Shown /\ left = 1
    BY DEF RgbSavedAsleep, Shown
  <2>1. main = "take" /\ left # 0 /\ via = "rest"
    BY DEF Asleep
  <2>2. ~QuickPending
    BY <2>1 DEF RgbInv, QuickInTime
  <2>3. Shown
    BY <2>2, Zenon DEF QuickPending
  <2> QED
    BY <2>1, <2>3 DEF SleepInv, Woken, Shown
<1>2. Spec => [](SleepInv /\ HostInv /\ RgbInv(limit))
  BY RgbAlways
<1> QED
  BY <1>1, <1>2, PTL
=============================================================================
