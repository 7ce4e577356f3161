----------------------------- MODULE PowerLoop -----------------------------
(***************************************************************************)
(* ap.c and what decides when its loop sleeps: port/matrix.c,              *)
(* port/activity.c, the suspend and wait logic of qmk.c, the debouncing of *)
(* sym_defer_pk.c, the RGB and LED tasks, and the callbacks that wake it.  *)
(*                                                                         *)
(* The main thread is the loop, one action per stretch between two points  *)
(* where another thread's work is read. The key matrix driver and the USB  *)
(* and Bluetooth callbacks have a higher priority and run between any two  *)
(* of them. The VIA thread has a lower priority: it runs only while the    *)
(* main thread is blocked.                                                 *)
(*                                                                         *)
(* One tick is QMK_TASK_PERIOD_MS. The code computes in no time: time      *)
(* passes only when every thread is blocked. Times are kept relative to    *)
(* now and stop counting where no comparison can tell them apart.          *)
(***************************************************************************)
EXTENDS Integers, FiniteSets

CONSTANTS
  Key,            \* the switches of the matrix
  DebounceTimes,  \* what debounce_time_get may return
  Timeouts,       \* the settings of the menu POWER: idle, rgb and sleep, 0 = never
  Grace,          \* MATRIX_IDLE_GRACE_MS
  FlushDelay,     \* EE_FLUSH_DELAY_MS
  FlushWait,      \* EEPROM_FLUSH_WAIT_MS
  FlushTicks,     \* the longest a block write to the flash takes
  SleepDelay,     \* the k_msleep before sys_poweroff
  MaxTime,        \* bound: at least every timeout and Grace
  RenderRounds,   \* the rounds the drawing of a frame is spread over
  FlashFails,     \* can a block write fail
  KeyEdits,       \* do key codes change settings
  UsbOn,          \* is there a USB host
  ViaOn,          \* does it use VIA
  HostLeds        \* does a host turn Caps Lock on and off

ASSUME TimeAssumption ==
  /\ {Grace, FlushDelay, FlushWait, SleepDelay, MaxTime, RenderRounds} \subseteq Nat \ {0}
  /\ FlushTicks \in Nat
  /\ Grace <= MaxTime
ASSUME TimeoutAssumption ==
  /\ Timeouts # {}
  /\ Timeouts \subseteq [idle : 0 .. MaxTime, rgb : 0 .. MaxTime, sleep : 0 .. MaxTime]
ASSUME DebounceAssumption ==
  /\ DebounceTimes # {} /\ DebounceTimes \subseteq 1 .. MaxTime
ASSUME SwitchAssumption ==
  {FlashFails, KeyEdits, UsbOn, ViaOn, HostLeds} \subseteq BOOLEAN

VARIABLES
  main,            \* what the main thread does next, or where it is blocked
  left,            \* blocked: ticks to go, Forever without a limit
  sem,             \* kbd_activity_sem
  inactive,        \* now - last_activity_ms
  raw,             \* raw_matrix: the keys the driver sees pressed
  prev_raw, cooked, counter, since,   \* debounce; since: now - last_time
  dirty, quiet,    \* eeprom_is_dirty, now - last_write_ms
  rgb_unsaved,     \* the RGB setting is marked for saving, the mirror is not
  timeout, debounce_time,             \* the settings
  vbus,            \* nrf_power_usbregstatus_vbusdet_get
  vbus_removed,    \* USBD_MSG_VBUS_REMOVED is on its way
  is_configured, usb_suspended, suspended,
  rgb_on, rgb_task_state, rail,       \* rgb_matrix_config.enable; ext-power
  drawn,           \* RENDERING: the rounds spent on this frame, iter
  host_leds, last_led_status, caps_led,
  via              \* "set": a command was handled, qmkWake is still to come

keyVars == <<raw, prev_raw, cooked, counter, since>>
eeVars == <<dirty, quiet, rgb_unsaved>>
setVars == <<timeout, debounce_time>>
usbVars == <<vbus, vbus_removed, is_configured, usb_suspended>>
rgbVars == <<rgb_on, rgb_task_state, rail, drawn>>
ledVars == <<host_leds, last_led_status, caps_led>>
semVars == <<sem, left>>
vars == <<main, semVars, inactive, keyVars, eeVars, setVars, usbVars, suspended,
          rgbVars, ledVars, via>>

Forever == -1
QuietMax == FlushDelay + FlushWait + FlushTicks + 1   \* bound of quiet
RgbTask == {"STARTING", "RENDERING", "FLUSHING", "SYNCING"}

\* Blocked: in k_sem_take, in k_msleep, or inside a block write to the flash.
BlockedAt == {"take", "nap", "flush", "lastflush", "lastnap"}
MainAt == BlockedAt \cup {"suspend", "keys", "eeprom", "idle", "activity", "darken",
                          "resuspend", "compute", "wait", "off"}

TypeOK ==
  /\ main \in MainAt
  /\ left \in Int /\ left >= Forever
  /\ sem \in BOOLEAN
  /\ inactive \in 0 .. MaxTime
  /\ raw \in SUBSET Key /\ prev_raw \in SUBSET Key /\ cooked \in SUBSET Key
  /\ counter \in [Key -> 0 .. MaxTime] /\ since \in 0 .. MaxTime
  /\ dirty \in BOOLEAN /\ quiet \in 0 .. QuietMax /\ rgb_unsaved \in BOOLEAN
  /\ timeout \in Timeouts /\ debounce_time \in DebounceTimes
  /\ vbus \in BOOLEAN /\ vbus_removed \in BOOLEAN
  /\ is_configured \in BOOLEAN /\ usb_suspended \in BOOLEAN
  /\ suspended \in BOOLEAN
  /\ rgb_on \in BOOLEAN /\ rgb_task_state \in RgbTask /\ rail \in BOOLEAN
  /\ drawn \in 0 .. RenderRounds - 1
  /\ host_leds \in BOOLEAN /\ last_led_status \in BOOLEAN /\ caps_led \in BOOLEAN
  /\ via \in {"rest", "set"}

-----------------------------------------------------------------------------
(* The semaphore the loop sleeps on holds at most one token; a token given *)
(* to a waiting thread ends its wait.                                      *)

Give ==
  IF main = "take" /\ left # 0
    THEN left' = 0 /\ UNCHANGED sem
    ELSE sem' = TRUE /\ UNCHANGED left

Blocked == main \in BlockedAt /\ left # 0

\* The loop sleeps and nobody is about to wake it.
Asleep == main = "take" /\ left # 0 /\ via = "rest" /\ ~vbus_removed

CountUp(n, max) == IF n < max THEN n + 1 ELSE n

Tick ==
  /\ Blocked /\ via = "rest" /\ ~vbus_removed
  /\ left' = IF left = Forever THEN Forever ELSE left - 1
  /\ inactive' = CountUp(inactive, MaxTime)
  /\ since' = CountUp(since, MaxTime)
  /\ quiet' = CountUp(quiet, QuietMax)
  /\ UNCHANGED <<main, sem, raw, prev_raw, cooked, counter, dirty, rgb_unsaved, setVars,
                 usbVars, suspended, rgbVars, ledVars, via>>

Go(to) == main' = to /\ UNCHANGED semVars
Block(at, ticks) == main' = at /\ left' = ticks /\ UNCHANGED sem

-----------------------------------------------------------------------------
(* RGB and indicator are turned off for two reasons at once: the USB host  *)
(* sleeps, the user has left.                                              *)

RgbIsIdle == timeout.rgb > 0 /\ inactive >= timeout.rgb
WantSuspended == usb_suspended \/ RgbIsIdle

\* rgb_task_sync saves an RGB change that is only marked for saving.
SavesRgb == rgb_unsaved /\ rgb_on' = rgb_on /\ rgb_task_state = "SYNCING"

\* The mirror is written now by what edits it at once, and by that save.
SettingsEdited(edits) ==
  /\ dirty' = (dirty \/ edits \/ SavesRgb)
  /\ quiet' = IF edits \/ SavesRgb THEN 0 ELSE quiet
  /\ rgb_unsaved' = (~SavesRgb /\ (rgb_unsaved \/ rgb_on' # rgb_on))

\* suspend_power_down_quantum: a last step of the RGB task, of which only a save is
\* left after the next; the LED off, a black frame, then the rail off.
PowerDown ==
  /\ UNCHANGED <<rgb_on, host_leds, last_led_status>>
  /\ SettingsEdited(FALSE)
  /\ suspended' = TRUE
  /\ caps_led' = FALSE
  /\ rgb_task_state' = "SYNCING" /\ drawn' = 0
  /\ rail' = FALSE

\* suspend_wakeup_init_quantum: the LED shows the host's state again; RGB
\* comes back with the next frame.
Wakeup ==
  /\ suspended' = FALSE
  /\ caps_led' = host_leds
  /\ UNCHANGED <<eeVars, rgbVars, host_leds, last_led_status>>

SuspendUpdate ==
  IF WantSuspended = suspended THEN UNCHANGED <<suspended, eeVars, rgbVars, ledVars>>
  ELSE IF WantSuspended THEN PowerDown
  ELSE Wakeup

\* The first step of qmkUpdate.
UpdateSuspend ==
  /\ main = "suspend"
  /\ SuspendUpdate
  /\ Go("keys")
  /\ UNCHANGED <<inactive, keyVars, setVars, usbVars, via>>

-----------------------------------------------------------------------------
(* keyboard_task: debounce the matrix, run the key codes of what changed,  *)
(* one step of the RGB task, then the LED task.                            *)

Expired == {k \in Key : counter[k] # 0 /\ counter[k] <= since}
Transferred == (cooked \ Expired) \cup (raw \cap Expired)
Remaining(k) == IF counter[k] <= since THEN 0 ELSE counter[k] - since
Bouncing == (raw \ Transferred) \cup (Transferred \ raw)

\* start_debounce_counters, when the raw matrix is not what it was.
Started(k) ==
  IF raw = prev_raw \/ (k \in Bouncing /\ Remaining(k) # 0) THEN Remaining(k)
  ELSE IF k \in Bouncing THEN debounce_time
  ELSE 0

Scan ==
  /\ cooked' = Transferred
  /\ counter' = [k \in Key |-> Started(k)]
  /\ since' = 0
  /\ prev_raw' = raw
  /\ UNCHANGED raw

\* The key codes of the keys that changed: RGB is turned on or off, or another
\* setting is edited. RGB is only marked for saving, rgb_task_sync saves it.
KeyCode ==
  IF KeyEdits /\ Transferred # cooked THEN rgb_on' \in BOOLEAN ELSE rgb_on' = rgb_on

\* A key code that changes another setting marks the mirror at once.
KeySettings ==
  \E edits \in IF KeyEdits /\ Transferred # cooked THEN BOOLEAN ELSE {FALSE} :
    SettingsEdited(edits)

\* One step of the RGB task, which shows a frame of the effect or, with
\* nothing to be shown, a black one. To flush a black frame again, which the code
\* leaves out, would change nothing.
RgbTaskStep(shown) ==
  LET state == IF rgb_on' # rgb_on THEN "STARTING" ELSE rgb_task_state
      Goes(next, power) == rgb_task_state' = next /\ rail' = power /\ drawn' = 0
  IN CASE state = "STARTING" -> Goes("RENDERING", rail)
       [] state = "RENDERING" ->
            \/ Goes("FLUSHING", rail)
            \/ /\ shown /\ drawn + 1 < RenderRounds
               /\ drawn' = drawn + 1 /\ UNCHANGED <<rgb_task_state, rail>>
       [] state = "FLUSHING" -> Goes("SYNCING", shown)
       [] state = "SYNCING" -> \E next \in {"SYNCING", "STARTING"} : Goes(next, rail)

\* Mutant: the rail follows the user's setting alone.
RgbMatrixTaskUserSetting == RgbTaskStep(rgb_on')

\* rgb_matrix_task. rgb_matrix_ws2812_flush powers the rail to match.
RgbMatrixTask == RgbTaskStep(rgb_on' /\ ~suspended)

LedTask ==
  /\ last_led_status' = host_leds
  /\ caps_led' = IF host_leds # last_led_status THEN host_leds ELSE caps_led
  /\ UNCHANGED host_leds

KeyboardTask ==
  /\ main = "keys"
  /\ Scan /\ KeyCode /\ KeySettings /\ RgbMatrixTask /\ LedTask
  /\ Go("eeprom")
  /\ UNCHANGED <<inactive, setVars, usbVars, suspended, via>>

-----------------------------------------------------------------------------
(* eeprom_task, then the decision between another round and a sleep.       *)

FlushDue == dirty /\ quiet >= FlushDelay

EepromTask ==
  /\ main = "eeprom"
  /\ \/ FlushDue /\ \E n \in 0 .. FlushTicks : Block("flush", n)
     \/ ~FlushDue /\ Go("idle")
  /\ UNCHANGED <<inactive, keyVars, eeVars, setVars, usbVars, suspended, rgbVars,
                 ledVars, via>>

Flushed(from, to) ==
  /\ main = from /\ left = 0
  /\ dirty' \in IF FlashFails THEN BOOLEAN ELSE {FALSE}
  /\ Go(to)
  /\ UNCHANGED <<inactive, keyVars, quiet, rgb_unsaved, setVars, usbVars, suspended,
                 rgbVars, ledVars, via>>

EepromFlushed == Flushed("flush", "idle")

\* Mutant: a key that is still down does not keep the loop awake.
IsIdleIgnoresKeys == inactive >= Grace

\* Mutant: idle as soon as the last key is up.
IsIdleAtOnce == raw = {}

IsIdle == raw = {} /\ inactive >= Grace

CheckIdle ==
  /\ main = "idle"
  /\ \/ IsIdle /\ Go("activity")
     \/ ~IsIdle /\ Block("nap", 1)
  /\ UNCHANGED <<inactive, keyVars, eeVars, setVars, usbVars, suspended, rgbVars,
                 ledVars, via>>

NapOver ==
  /\ main = "nap" /\ left = 0
  /\ Go("suspend")
  /\ UNCHANGED <<inactive, keyVars, eeVars, setVars, usbVars, suspended, rgbVars,
                 ledVars, via>>

-----------------------------------------------------------------------------
(* activityUpdate: System OFF, or turn off what the timeouts say.          *)

SleepDue == timeout.sleep > 0 /\ inactive >= timeout.sleep /\ ~vbus

ActivityUpdate ==
  /\ main = "activity" /\ ~SleepDue
  /\ Go("resuspend")
  /\ UNCHANGED <<inactive, keyVars, eeVars, setVars, usbVars, suspended, rgbVars,
                 ledVars, via>>

\* activityEnterSleep, up to its eeprom_update.
EnterSleep ==
  /\ main = "activity" /\ SleepDue
  /\ \/ FlushDue /\ \E n \in 0 .. FlushTicks : Block("lastflush", n)
     \/ ~FlushDue /\ Go("darken")
  /\ UNCHANGED <<inactive, keyVars, eeVars, setVars, usbVars, suspended, rgbVars,
                 ledVars, via>>

LastFlushed == Flushed("lastflush", "darken")

\* Mutant: qmkSuspendForSleep forgets the flag that the flush looks at.
DarkenKeepsRail ==
  /\ main = "darken"
  /\ caps_led' = FALSE /\ UNCHANGED <<suspended, rgbVars, host_leds, last_led_status>>
  /\ Block("lastnap", SleepDelay)
  /\ UNCHANGED <<inactive, keyVars, eeVars, setVars, usbVars, via>>

\* qmkSuspendForSleep: whatever the timeouts say, unless it is done already.
Darken ==
  /\ main = "darken"
  /\ \/ suspended /\ UNCHANGED <<suspended, eeVars, rgbVars, ledVars>>
     \/ ~suspended /\ PowerDown
  /\ Block("lastnap", SleepDelay)
  /\ UNCHANGED <<inactive, keyVars, setVars, usbVars, via>>

PowerOff ==
  /\ main = "lastnap" /\ left = 0
  /\ Go("off")
  /\ UNCHANGED <<inactive, keyVars, eeVars, setVars, usbVars, suspended, rgbVars,
                 ledVars, via>>

LastSuspendUpdate ==
  /\ main = "resuspend"
  /\ SuspendUpdate
  /\ Go("compute")
  /\ UNCHANGED <<inactive, keyVars, setVars, usbVars, via>>

-----------------------------------------------------------------------------
(* qmkGetIdleWaitMs: how long the loop may sleep; 0 is for ever.           *)

Pending(deadline) == deadline > 0 /\ inactive < deadline
Nearest(S) == {n \in S : \A p \in S : n <= p}

\* Mutant: a deadline that has passed is subtracted all the same.
DeadlinesPast == {d - inactive : d \in {timeout.idle, timeout.rgb} \ {0}}

\* Mutant: the RGB timeout is not a deadline.
DeadlinesIdleOnly == {d - inactive : d \in {e \in {timeout.idle} : Pending(e)}}

Deadlines == {d - inactive : d \in {e \in {timeout.idle, timeout.rgb} : Pending(e)}}

\* Mutant: past the other deadlines there is nothing more to wait for.
ActivityWaitsForever == IF Deadlines # {} THEN Nearest(Deadlines) ELSE {0}

\* activityGetWaitMs, a set of one.
ActivityWait ==
  IF Deadlines # {} THEN Nearest(Deadlines)
  ELSE IF timeout.sleep = 0 THEN {0}
  ELSE IF inactive < timeout.sleep THEN {timeout.sleep - inactive}
  ELSE {timeout.sleep}

AtMost(wait, limit) == IF wait = 0 \/ wait > limit THEN limit ELSE wait

IdleWait(wait) ==
  LET saving == IF dirty THEN AtMost(wait, FlushWait) ELSE wait
  IN IF rgb_on /\ ~suspended THEN AtMost(saving, 1) ELSE saving

ComputeWait ==
  /\ main = "compute"
  /\ \E wait \in ActivityWait :
        left' = IF IdleWait(wait) = 0 THEN Forever ELSE IdleWait(wait)
  /\ main' = "wait"
  /\ UNCHANGED <<sem, inactive, keyVars, eeVars, setVars, usbVars, suspended, rgbVars,
                 ledVars, via>>

\* k_sem_take
WaitActivity ==
  /\ main = "wait"
  /\ sem' = FALSE
  /\ main' = IF sem THEN "suspend" ELSE "take"
  /\ UNCHANGED <<left, inactive, keyVars, eeVars, setVars, usbVars, suspended, rgbVars,
                 ledVars, via>>

WaitOver ==
  /\ main = "take" /\ left = 0
  /\ Go("suspend")
  /\ UNCHANGED <<inactive, keyVars, eeVars, setVars, usbVars, suspended, rgbVars,
                 ledVars, via>>

-----------------------------------------------------------------------------
(* What the other threads do. The key matrix driver:                       *)

KeyEvent ==
  /\ main # "off"
  /\ \E k \in Key : raw' = IF k \in raw THEN raw \ {k} ELSE raw \cup {k}
  /\ inactive' = 0
  /\ Give
  /\ UNCHANGED <<main, prev_raw, cooked, counter, since, eeVars, setVars, usbVars,
                 suspended, rgbVars, ledVars, via>>

\* The messages of the USB stack, msg_cb. qmk_usb_suspend_cb wakes the loop.
UsbRuns == UsbOn /\ main # "off"

Plug ==
  /\ UsbRuns /\ ~vbus /\ ~vbus_removed
  /\ vbus' = TRUE
  /\ UNCHANGED <<main, semVars, inactive, keyVars, eeVars, setVars, vbus_removed,
                 is_configured, usb_suspended, suspended, rgbVars, ledVars, via>>

UsbConfiguration ==
  /\ UsbRuns /\ vbus
  /\ is_configured' \in BOOLEAN
  /\ UNCHANGED <<main, semVars, inactive, keyVars, eeVars, setVars, vbus, vbus_removed,
                 usb_suspended, suspended, rgbVars, ledVars, via>>

\* Mutant: the flag changes and the loop sleeps on.
SuspendCallbackSilent(s) ==
  usb_suspended' = s /\ UNCHANGED semVars

SuspendCallback(s) ==
  usb_suspended' = s /\ Give

UsbSuspend ==
  /\ UsbRuns /\ (vbus \/ vbus_removed)
  /\ is_configured              \* before the enumeration it means nothing
  /\ SuspendCallback(TRUE)
  /\ UNCHANGED <<main, inactive, keyVars, eeVars, setVars, vbus, vbus_removed,
                 is_configured, suspended, rgbVars, ledVars, via>>

UsbResume ==
  /\ UsbRuns /\ (vbus \/ vbus_removed)
  /\ SuspendCallback(FALSE)
  /\ UNCHANGED <<main, inactive, keyVars, eeVars, setVars, vbus, vbus_removed,
                 is_configured, suspended, rgbVars, ledVars, via>>

\* The register changes at once, the message comes later.
Unplug ==
  /\ UsbRuns /\ vbus
  /\ vbus' = FALSE /\ vbus_removed' = TRUE
  /\ UNCHANGED <<main, semVars, inactive, keyVars, eeVars, setVars, is_configured,
                 usb_suspended, suspended, rgbVars, ledVars, via>>

\* Mutant: the suspension is left for a RESUME that cannot come.
VbusRemovedKeepsSuspend ==
  /\ UsbRuns /\ vbus_removed
  /\ vbus_removed' = FALSE
  /\ is_configured' = FALSE
  /\ UNCHANGED <<main, semVars, inactive, keyVars, eeVars, setVars, vbus,
                 usb_suspended, suspended, rgbVars, ledVars, via>>

VbusRemoved ==
  /\ UsbRuns /\ vbus_removed
  /\ vbus_removed' = FALSE
  /\ is_configured' = FALSE
  /\ SuspendCallback(FALSE)
  /\ UNCHANGED <<main, inactive, keyVars, eeVars, setVars, vbus, suspended, rgbVars,
                 ledVars, via>>

\* Mutant: the report is stored and the loop sleeps on.
LedReportSilent ==
  /\ HostLeds /\ main # "off"
  /\ host_leds' = ~host_leds
  /\ UNCHANGED <<main, semVars, inactive, keyVars, eeVars, setVars, usbVars, suspended,
                 rgbVars, last_led_status, caps_led, via>>

\* A LED report, kb_set_report or led_outp_rep_handler, that changes something.
LedReport ==
  /\ HostLeds /\ main # "off"
  /\ host_leds' = ~host_leds
  /\ Give
  /\ UNCHANGED <<main, inactive, keyVars, eeVars, setVars, usbVars, suspended, rgbVars,
                 last_led_status, caps_led, via>>

\* The VIA thread handles a command of a host: a setting at once, saved by
\* another command.
ViaCommand ==
  /\ ViaOn /\ is_configured /\ Blocked /\ via = "rest"
  /\ via' = "set"
  /\ \/ /\ timeout' \in Timeouts /\ debounce_time' \in DebounceTimes
        /\ UNCHANGED <<rgb_on, rgb_task_state, drawn, eeVars>>
     \/ /\ rgb_on' = ~rgb_on /\ rgb_task_state' = "STARTING" /\ drawn' = 0
        /\ UNCHANGED <<setVars, eeVars>>
     \/ /\ dirty' = TRUE /\ quiet' = 0 /\ rgb_unsaved' \in {FALSE, rgb_unsaved}
        /\ UNCHANGED <<setVars, rgb_on, rgb_task_state, drawn>>
  /\ UNCHANGED <<main, semVars, inactive, keyVars, usbVars, suspended, rail, ledVars>>

\* Mutant: via_hid_receive returns without qmkWake.
ViaWakeForgotten ==
  /\ Blocked /\ via = "set"
  /\ via' = "rest"
  /\ UNCHANGED <<main, semVars, inactive, keyVars, eeVars, setVars, usbVars, suspended,
                 rgbVars, ledVars>>

ViaWake ==
  /\ Blocked /\ via = "set"
  /\ via' = "rest"
  /\ Give
  /\ UNCHANGED <<main, inactive, keyVars, eeVars, setVars, usbVars, suspended, rgbVars,
                 ledVars>>

-----------------------------------------------------------------------------
\* The first time stamp is 0, as is the clock.
Init ==
  /\ main = "suspend" /\ left = 0 /\ sem = FALSE
  /\ inactive = 0
  /\ raw = {} /\ prev_raw = {} /\ cooked = {}
  /\ counter = [k \in Key |-> 0] /\ since = 0
  /\ dirty = FALSE /\ quiet = 0 /\ rgb_unsaved = FALSE
  /\ timeout \in Timeouts /\ debounce_time \in DebounceTimes
  /\ vbus \in IF UsbOn THEN BOOLEAN ELSE {FALSE}
  /\ vbus_removed = FALSE /\ is_configured = FALSE
  /\ usb_suspended = FALSE /\ suspended = FALSE
  /\ rgb_on \in BOOLEAN /\ rgb_task_state = "SYNCING" /\ rail = FALSE /\ drawn = 0
  /\ host_leds = FALSE /\ last_led_status = FALSE /\ caps_led = FALSE
  /\ via = "rest"

\* A key wakes the chip from System OFF with a reset: the RAM starts anew, the
\* settings come from the flash.
Reset ==
  /\ main = "off"
  /\ main' = "suspend" /\ left' = 0 /\ sem' = FALSE
  /\ inactive' = 0
  /\ raw' = {} /\ prev_raw' = {} /\ cooked' = {}
  /\ counter' = [k \in Key |-> 0] /\ since' = 0
  /\ dirty' = FALSE /\ quiet' = 0 /\ rgb_unsaved' = FALSE
  /\ vbus_removed' = FALSE /\ is_configured' = FALSE
  /\ usb_suspended' = FALSE /\ suspended' = FALSE
  /\ rgb_task_state' = "SYNCING" /\ rail' = FALSE /\ drawn' = 0
  /\ host_leds' = FALSE /\ last_led_status' = FALSE /\ caps_led' = FALSE
  /\ via' = "rest"
  /\ UNCHANGED <<vbus, setVars, rgb_on>>

Loop ==
  \/ UpdateSuspend \/ KeyboardTask \/ EepromTask \/ EepromFlushed
  \/ CheckIdle \/ NapOver
  \/ ActivityUpdate \/ EnterSleep \/ LastFlushed \/ Darken \/ PowerOff
  \/ LastSuspendUpdate \/ ComputeWait \/ WaitActivity \/ WaitOver

Usb == Plug \/ UsbConfiguration \/ UsbSuspend \/ UsbResume \/ Unplug
Event == KeyEvent \/ Usb \/ LedReport \/ ViaCommand

Next == Tick \/ Loop \/ Event \/ VbusRemoved \/ ViaWake \/ Reset

Spec == Init /\ [][Next]_vars

\* Threads that are ready run, and time passes when none is.
FairSpec ==
  /\ Spec
  /\ WF_vars(Tick) /\ WF_vars(Loop) /\ WF_vars(VbusRemoved) /\ WF_vars(ViaWake)

-----------------------------------------------------------------------------
\* While the loop sleeps, RGB and indicator are on or off as they have to be at
\* this moment: no timeout passes unseen, no USB message or VIA command is left
\* for later (qmkSuspendUpdate, qmk_usb_suspend_cb, next_deadline).
SuspendedAsWanted == Asleep => suspended = WantSuspended

\* While the loop sleeps and RGB is to be seen, it sleeps for one period, so that
\* the animation goes on, also after a VIA command or a resume of the host.
AnimationGoesOn == Asleep /\ rgb_on /\ ~suspended => left = 1

\* Why, step by step: from the last qmkSuspendUpdate on, either the loop is about
\* to be woken or what it decided stays right until its sleep ends.
Woken == sem \/ via = "set" \/ (main = "take" /\ left = 0)

SleepInv ==
  /\ main = "take" /\ sem => left = 0
  /\ main \in {"compute", "wait", "take"} /\ ~Woken => suspended = WantSuspended
  /\ main \in {"wait", "take"} /\ ~Woken /\ Pending(timeout.rgb)
       => left # Forever /\ left <= timeout.rgb - inactive
  /\ main \in {"wait", "take"} /\ ~Woken /\ rgb_on /\ ~suspended => left = 1
  /\ main = "activity" => raw = {} \/ inactive = 0

\* An edit waits for its flush no longer than the settle delay and one sleep of
\* the loop (qmkGetIdleWaitMs, eeprom_task).
FlushInTime == dirty => quiet <= FlushDelay + FlushWait + FlushTicks

\* Nothing is lit in System OFF: activityEnterSleep turns RGB and indicator off
\* whatever the settings, and nothing turns them on before the power goes.
OffIsDark == main = "off" => ~rail /\ ~caps_led

DarkInv ==
  /\ suspended => ~rail
  /\ main \in {"lastnap", "off"} => suspended
  /\ ~HostLeds => ~host_leds /\ ~last_led_status /\ ~caps_led

\* Nor while the loop sleeps suspended, although the RGB task goes on
\* (rgb_matrix_ws2812_flush asks qmkIsSuspended and not the RGB setting alone).
SuspendedIsDark == Asleep /\ suspended => ~rail /\ ~caps_led

\* The decision to power off is taken with no key down, without USB power and
\* past the timeout, whatever happened since the loop found itself idle.
SleepDecision ==
  [][main = "activity" /\ main' \in {"lastflush", "darken"}
       => raw = {} /\ ~vbus /\ inactive >= timeout.sleep]_vars

\* While the loop sleeps no LED report waits for led_task, which only polls
\* (led_outp_rep_handler and kb_set_report wake the loop).
LedReportSeen == Asleep => last_led_status = host_leds

\* A suspension by a USB host ends with the cable (VBUS_REMOVED in msg_cb).
SuspendNeedsHost == usb_suspended => vbus \/ vbus_removed

\* The loop sleeps only when the debounced matrix shows that no key is down
\* (ap.c: fully idle is no key pressed and the debouncing settled).
SettledAsleep == Asleep => cooked = {}

\* The loop is not asleep when System OFF is due (activity.c, next_deadline: the
\* nearest of the three timeouts counts).
SleepsOnTime ==
  Asleep /\ ~vbus => ~(timeout.sleep > 0 /\ inactive > timeout.sleep)

\* The power of the strip follows RGB being turned off
\* (rgb_matrix_drivers.c: the rail follows RGB on and off by itself).
RailFollowsRgb == Asleep /\ ~rgb_on => ~rail

\* A changed RGB setting that rgb_task_sync has not taken over yet waits for the
\* frames of an animation at most: the loop does not sleep for long before, or the
\* setting would be lost with the power for as long as the sleep lasts.
RgbSavedAsleep == Asleep /\ rgb_unsaved => rgb_on /\ ~suspended /\ left = 1

\* A keyboard nobody touches, without USB, ends in System OFF.
UnattendedSleeps ==
  /\ <>[][~Event]_vars
  /\ <>[](raw = {} /\ ~vbus /\ timeout.sleep > 0)
  => <>(main = "off")
=============================================================================
