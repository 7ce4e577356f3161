# Verification of the nRF52 QMK firmware

These modules model the firmware in `src/firmware/nrf52-qmk-fw`, a port of QMK
to Zephyr for three wireless keyboards (wish40, wish60, wish65), in TLA+. TLC
checks them on small instances, and TLAPS proves part of what they say for every
value of the constants. `PROJECT.json` lists every run, every mutant of the code
that a property must catch, the source lines of every definition, and the
hazards the properties are for. Paths below are relative to
`src/firmware/nrf52-qmk-fw/src`; `port/` is `ap/modules/qmk/port/`.

1. [The system](#the-system)
2. [The modules](#the-modules)
3. [What the runs check](#what-the-runs-check)
4. [What is proved](#what-is-proved)
5. [What the model found](#what-the-model-found)
6. [Assumptions and limits](#assumptions-and-limits)
7. [Plan](#plan)

## The system

### Threads

| Thread | Priority | Runs |
|---|---|---|
| main | 0, the default of Zephyr | `apMain`: one round of `qmkUpdate`, then a nap or a sleep |
| key matrix driver | above main | `kbd_matrix_input_cb`: the raw matrix, the time of the last event, the semaphore the loop sleeps on |
| USB stack | above main | `msg_cb`, `kb_iface_ready`, `kb_set_report` |
| `usb_tx_thread` | below main | takes reports out of the queue and waits for the host to fetch them |
| Bluetooth stack | above main | `connected`, `disconnected`, `auth_pairing_accept`, `auth_pairing_complete` |
| VIA thread | 6, below main | `via_process_thread`: commands of the VIA tool; it may be preempted between any two statements |
| UART and CLI | 5, below main | diagnostics only |

Almost nothing is locked. What protects the code is that some pairs of threads
cannot preempt each other, that callers run to their next blocking call, and
that whoever changes something while the loop sleeps gives the semaphore. The
models keep exactly that: an action is the code between two points where
another thread can run.

### Components

**Settings mirror** (`port/platforms/eeprom.c`). State: the RAM image
`eeprom_buf`, the dirty range, the time of the last write, the request for a
factory reset. Operations: the QMK `eeprom_*` calls mark cells,
`eeprom_task` writes the range to the flash once the edits have been quiet for
100 ms, `eeprom_req_clean` (VIA) flushes and asks the main loop for a reset.
Called by the main loop (key codes, boot) and by the VIA thread. Hard: edits
during the block write, a write that fails half way, power loss at any point,
two callers and no lock. Right when: what the mirror calls saved is in the
flash, no edit is left outside the dirty range, a burst of edits is written in
the end, a reset that was asked for happens.

**Main loop and sleep decision** (`ap/ap.c`, `qmk.c`, `port/matrix.c`,
`port/activity.c`). State: time since the last key, the three timeouts of the
POWER menu (idle, RGB, sleep), the semaphore, the suspended flag, what USB said
last. Operations: a round of work; a nap while busy; when idle, System OFF if
due, else a sleep until the nearest deadline. Hard: every input of the decision
may change after it was read; timeouts are changed while the loop sleeps on
them; a suspended host is unplugged; System OFF needs everything dark first.
Right when: the loop never sleeps over something that needs it, nor sleeps too
long, nor decides on System OFF while a key is down or USB gives power.

**Debouncing** (`quantum/debounce/sym_defer_pk.c`). State: a counter for each key,
the debounced matrix. It runs only in a round of the loop, so the loop must not
sleep while a counter runs.

**RGB and indicator** (`quantum/rgb_matrix/rgb_matrix.c`, `quantum/led.c`,
`quantum/quantum.c`, `keyboards/baram/*/driver`). State: the four-step RGB task,
the power rail of the strip, the Caps Lock LED, the last host report. Suspended
for two reasons at once, USB and the RGB timeout. Right when: the rail and the
LED are off while suspended and in System OFF, and a changed RGB setting is
handed to the mirror before the loop sleeps for long.

**USB** (`hw/driver/usb/`). State: configured, suspended, the interfaces that
are ready, the report queue. Hard: the cable goes while the host sleeps or
while reports are queued; configuration happens while keys are held; the queue
is full. Right when: no suspension outlives the cable and no report of one
connection reaches the next.

**Report path** (`port/protocol/`, `port/driver_*.c`, `output_select_task` in
`qmk.c`). State: the chosen driver, the last report, what each host takes for
pressed. Right when: no key sticks on a host and one host at a time has the
keys, although the result of sending is looked at nowhere.

**Bluetooth profiles** (`port/ble.c`). State: the profiles and the active one in
RAM and in the flash, the advertising flag; in the stack: bonds, connections,
pairings under way. Operations: select, clear, clear all (main loop and VIA
thread), the callbacks of the stack. Hard: three threads without a lock, each
waiting for the flash and the stack in the middle of an operation; a pairing
that takes seconds; copies of facts the stack owns. Right when: a host keeps
its profile, the flash agrees at rest, the keyboard advertises exactly when it
has to, no bond is orphaned.

**VIA menus** (`port/via/`, `keyboards/baram/*/port/via_port.c`). State: a static record
for each menu, which the rest of the firmware reads, a copy of it in the mirror, most
with a marker byte, and the confirmation bits of the factory reset. A set value acts at
once; saving is another command; `viaPortInit` restores or puts the default. Hard: a
record is written byte by byte, by a thread that can be preempted and that serves the
host before `viaPortInit` has run; power may go between two bytes of the flash. Right
when: what was saved is what the next boot restores, nothing that nobody chose comes
into force, and every setting in force is in the range of its menu.

**Key processing of QMK** (`quantum/action_tapping.c`, `action.c`, `action_layer.c`,
`action_util.c`). State: the tap key and the waiting buffer, the layers and the layer
each held key was pressed on, one-shot state, the modifiers and codes of the report.
Operations: an event from the matrix, a tick without one. Hard: an event is typed now,
waits, or makes a decision about events that wait; a release may overtake what waits;
times are 16 bits. Right when: at rest nothing is in the report that is not held, nothing
stays pressed, a release undoes what its press did, and nothing waits without a tap key
in its term. The order of the steps of `keyboard_task` is in `PowerLoop`, where what key
codes do to the other components is a choice over the outcomes.

**Not modelled.** Battery measurement (`hw/driver/battery.c`: a table
interpolation of a single sample), the GPIO expander (`gpio_595.c`: a
cached output register under a semaphore), log and UART rings, the drivers that only move
bits (`led.c`, `ws2812.c`, `ext_power.c`, `button.c`, `keys.c`, `adc.c`), the
CLI, board descriptions, and the QMK features that these boards do not compile.

### How the components interact

    key matrix ---raw matrix, semaphore---> main loop ---reports---> report path ---> USB / Bluetooth
    USB stack  ---suspend, LEDs, semaphore->    |    ---edits------> settings mirror ---> flash
    VIA thread ---timeouts, RGB, semaphore->    |    ---select-----> Bluetooth profiles ---> flash
         |--------edits, reset request--------------------------->  settings mirror
         |--------select, clear---------------------------------->  Bluetooth profiles

The modules cut the system along these arrows. Each keeps what the others can do
to it as actions of its environment: `PowerLoop` sees a dirty flag and its age
instead of the mirror, `ReportDelivery` sees a selection that may come at any
time instead of `BleProfiles`, and so on.

## The modules

| Module | Models | Built on |
|---|---|---|
| `SettingsStore` | the promise of the settings layer to its callers | |
| `EepromMirror` | the settings mirror, both its threads, and the flash driver | refines `SettingsStore` |
| `ViaMenus` | the menus of `port/via/`: set, save, restore, factory reset, boot loader | extends `EepromMirror` |
| `PowerLoop` | main loop, debouncing, RGB task, LED task, USB and VIA wake-ups, System OFF | |
| `BleProfiles` | the profiles of `ble.c` with three threads and the stack | |
| `ReportDelivery` | reports from the key codes to what each host takes for pressed | |
| `KeyActions` | what a decided event does to layers, one-shots, modifiers and codes | |
| `Tapping` | tap or hold: the tap key, the waiting buffer, the events of a scan | extends `KeyActions` |
| `*_proofs` | the theorems about the module they extend | |
| `MC*` | the values of the constants for TLC | |

### SettingsStore and EepromMirror

A cell stands for a byte; what matters of the layout is that cell 0 is the magic
of eeconfig, that a later cell is the magic of VIA, and that the VIA area
follows it. The main loop's `eeprom_mark` is one step (`MainMark`), that of the VIA
thread is a step for each statement (`ViaMark` to `ViaStamp`), since the main loop may
run in between. Time is one fact, `settled`: the last write is at least
`EE_FLUSH_DELAY_MS` old. The block write takes a step for each cell, reads the mirror
as it goes, and may fail after any of them (`ProgramCell`, `WriteDone`, `WriteFailed`).
`Boot` includes the re-initialisation of invalid areas, and the case that the
device is not ready or the read fails. `PowerLoss` may come anywhere. The factory reset is
two steps: `FactoryReset` marks the magic, and `Reboot` follows after the 250 ms that
`shutdown_quantum` waits, in which the VIA thread runs on.

`SettingsStore` has four variables: whether the firmware is up, the image a read sees, the
flash, and the claim that all is saved. The refinement maps `up` to "not off", `visible` to `eeprom_buf` and `saved` to
`loaded /\ ~dirty`.

The steps of the two threads are `MainSteps` and `ViaSteps`. `OneContext` is the system
without the second, which is what the porting notes ask for.

### ViaMenus

The composition of the mirror with its callers in the VIA thread. A menu is a record of
constants (`Power`, `Ble`, `Debounce`, `HoldOkp`): where its setting and its marker lie,
what a boot takes from the flash, what "set" makes of a byte, the default. `menu`
chooses one of them for a behaviour; the menus share no state but the mirror. `SaveByte`
is the `ViaMark` of the mirror for the next byte of the record that differs, and the
rest of `eeprom_mark` follows in the steps of `EepromMirror`. `MenuInit` is
`viaPortInit`; commands may come before it, because `via_hid_init` and a wait in
`bleInit` come first. Every step of `EepromMirror` occurs with the menus unchanged,
except those that end the program, after which the statics are zero again.

`excused` names why a promise does not bind: `raced` from the moment both threads are
inside the settings code, the main one writing the flash, creating the defaults or about to
reset, until the next start (the finding `eeprom_race` says what happens then); `early` from the first
command before `viaPortInit`, for ever, as its traces in the flash are.

### KeyActions and Tapping

`Tapping` is `matrix_task` and `action_tapping.c` as the boards configure it
(`HOLD_ON_OTHER_KEY_PRESS` is a runtime setting of a VIA menu). An action is one call of
`process_tapping` and one branch of it. `phase` says which record it is given: that of the
event, then those of the waiting buffer from its tail, until one is not processed. Times are
kept as ages, modulo `Wrap`, which is what the 16-bit differences of the code see.
`Press` includes what `pre_process_record_quantum` does to the source layer cache.

`KeyActions` has no variables. It is what an event does once its action is known, as
operators from a keyboard state to a keyboard state, with the names of the C functions:
`process_action`, the layers and their cache, one-shot modifiers and layers, tap toggle, and
the modifiers and codes of the report.

`excused` remembers five things known to leave a key on: `overflow`, the waiting buffer was
full and the keyboard was cleared, layers excepted; `again`, the finding `tapping_again`
has happened; `overtaken`, a record overtook its other half in the buffer because the loop
over the buffer had stopped early; `unscanned`, a key became the tap key again without a look
for its release in the buffer; `replaced`, a second one-shot layer took the place of the first.

### PowerLoop

`main` is the place in the loop; the actions of the loop follow `apMain` and
`qmkUpdate` in order: `UpdateSuspend`, `KeyboardTask` (debounce, key codes, RGB
task, LED task), `EepromTask`, `CheckIdle`, then either a nap, or
`ActivityUpdate`/`EnterSleep`, `LastSuspendUpdate`, `ComputeWait`,
`WaitActivity`. They are cut where a callback of a higher priority may change
something the next one reads. Callbacks run between any two of them. The VIA
thread runs only while `main` is blocked, and a command and its `qmkWake` are
two steps. `PowerDown` includes the step of the RGB task that `suspend_power_down_quantum`
makes; only its save survives, as the task starts anew and the rail is switched off.

Time: a tick is one period of the loop. Code takes no time; `Tick` is possible only
when the main thread is blocked and neither the VIA thread nor the USB thread
has work in hand. Ages are relative to now and stop counting at `MaxTime` or
`QuietMax`, where no comparison of the code can tell a larger age apart.

The edits of key codes and of VIA are the dirty flag and its age. A changed RGB
setting is marked and saved later by `rgb_task_sync`, which only runs while the
task is in its last state: that is `rgb_unsaved`.

### BleProfiles

Every call of `ble.c` into the stack or the settings ends an action, because the
caller waits there. `at[t]` is the call that thread `t` makes next and `index[t]` the
profile it works on. The code reads global variables again after each wait,
and so do the actions: `ClearUnpair` unpairs whatever the profile holds by then,
`SaveActive` saves whatever is active by then. The stack's own state is `bonds`,
`conn`, `pairing`, `advertising`; the firmware's copy of the last is `adv_running`.

`clean` is a history variable: no step was taken while another thread was inside an
operation, no call to the radio has failed, and no restart came in the middle of an
operation. `AdvertisesAtRest` and `NoOrphanBond` are stated for clean histories,
because the code does nothing to make them hold otherwise (see the hazards at
`ble.c:475`, `:894` and `:456`); `SlotKept` and `SavedAtRest` hold for all.

### ReportDelivery

It starts on the USB driver, which `qmkInit` sets before the first round. A report is the set
of keys it holds. `last` is what the firmware believes it has
said, `sees` what each host took for pressed. The USB way has the gap between
the test of `kb_ready` and the queue (`sending`), the queue, and the transfer
(`submitted`); the Bluetooth way sends at once or fails. The stack switches its
three interfaces one by one, and any of the two keyboard interfaces sets or
clears the one flag `kb_ready`.

`excused` names, for each host and kind of report, why it may disagree for now:
the last report was dropped, the profile was changed under a held key, or
consumer control moved to another driver. It is taken back by the next
report that arrives. So `NoStuckKey` says that nothing else can make a key stick.
`raced` remembers that an interface went down inside the gap of `sending`.

## What the runs check

| Run | Properties | Instance |
|---|---|---|
| `eeprom_one_context` | `TypeOK`, `OneContextInv`, `StoreSpec`, `EventuallySaved` | 4 cells, 3 values, no VIA |
| `menus` | `MenuTypeOK`, `KeepsSaved`, `OnlyChosen`, `InRange`, `RequestedReset` | 4 cells, four menus, VIA thread |
| `eeprom_race` (violated) | `NoLostEdit` | 3 cells, VIA thread |
| `eeprom_reset_lost` (violated) | `ResetTakesEffect` | 3 cells, VIA thread |
| `loop_sleep` | `TypeOK`, `SuspendedAsWanted`, `OffIsDark`, `SuspendedIsDark`, `SuspendNeedsHost`, `SleepDecision` | 1 key, USB host, RGB timeout on or off, failing flash |
| `loop_via` | `SuspendedAsWanted`, `AnimationGoesOn`, `FlushInTime`, `SleepsOnTime`, `LedReportSeen` | 1 key, USB host with VIA and LED reports, two settings |
| `loop_settled` | `SettledAsleep`, `RailFollowsRgb`, `RgbSavedAsleep`, `UnattendedSleeps` | 2 keys, no USB |
| `ble_profiles` | `TypeOK`, `SavedAtRest`, `AdvertisesAtRest`, `NoOrphanBond`, `SlotKept` | 2 hosts, 2 profiles, 3 threads |
| `report_delivery` | `TypeOK`, `NoStuckKey`, `OneHost` | 1 key, 1 usage, USB and 2 Bluetooth hosts, queue of 1 |
| `report_select` (violated) | `SelectReleases` | the same |
| `tapping` | `TappingTypeOK`, `OnlyHeld`, `NothingStuck`, `WaitsOnlyForTap`, `ActionStays` | 3 keys, 2 layers, 5 key maps, buffer of 6 |
| `tapping_again` (violated) | `SameAction` | 3 keys, 1 key map, buffer of 5 |

### What they show

*The settings.* Called from one thread, the mirror implements `SettingsStore`:
while it says that all is saved, losing power loses nothing, whatever failed
before; and a burst of edits that has ended is written. With the VIA thread,
a reset that was asked for always happens, but edits can be lost and the reset
can be without effect; both are findings below.

*The menus.* Over the same mirror, with the VIA thread cut into statements, failing
writes and power losses anywhere: at rest, what was saved is what the next boot restores
(`KeepsSaved`); a setting in force is the default or one the host sent (`OnlyChosen`) and
one that "set" lets through (`InRange`), also when a write was torn. `InRange` has one
exception: `hold_okp` takes any byte behind a valid marker, and a save before `viaPortInit`
that meets its defaults can leave the marker in the flash with the value still erased. The
firmware only asks whether the byte is 0, so the setting is on; the menu shows 255.
`OnlyChosen` shows what the order of the bytes is worth. `hold_okp` has its marker behind its value and is safe. The power
menus have theirs in front: cut off during the first write ever, the marker is valid and
the timeout is the erased byte, 255, which is what the last disjunct of the property
concedes. A reset that was confirmed ends in a reboot although the VIA thread goes on
editing (`RequestedReset`).

*Tap and hold.* Whatever three keys do on five key maps, at any pace: when no key is
held and nothing waits, no code, modifier or momentary layer is left on (`NothingStuck`);
what the report holds has a key that is held for it or its release on the way (`OnlyHeld`); and
events wait only behind a tap key within its term (`WaitsOnlyForTap`). A release is looked up
as its press was, whatever the layers did meanwhile (`ActionStays`).

*The loop.* Whatever comes from the driver, the USB host or VIA, at whatever
point of the loop: while the loop sleeps, RGB and indicator are suspended
exactly when they should be at that moment (`SuspendedAsWanted`), an animation
goes on (`AnimationGoesOn`), no LED report waits (`LedReportSeen`), no edit waits
longer than the settle delay and one bounded sleep (`FlushInTime`), no System OFF
is overdue (`SleepsOnTime`). System OFF is decided rightly (`SleepDecision`) and
is dark (`OffIsDark`), and so is suspension (`SuspendedIsDark`); a suspension ends
with the cable (`SuspendNeedsHost`). With a debounce time well below the idle grace
the loop sleeps over no bouncing key (`SettledAsleep`) and no rail that should be
off (`RailFollowsRgb`), and over no RGB change that would be lost, except for a period between the
rounds of a frame (`RgbSavedAsleep`); and
a keyboard that is left alone powers off (`UnattendedSleeps`).

*The profiles.* Two hosts, two profiles, the main loop and the VIA thread
selecting and clearing at the same time, pairings that complete late, restarts
anywhere: a profile is never taken over, and the flash is right whenever nobody
is inside an operation. Without overlaps, the keyboard advertises exactly while
its active profile has no host connected, and no bond is left without a profile.

*The reports.* With the cable plugged and pulled, hosts connecting and leaving,
a queue that fills up and notifications that fail, a key sticks only for the
reasons `excused` names, and the keys go to one host at a time.

### Bounds, and why they are enough

* **Cells and values.** Four cells give each magic and each area a cell of its own, with an
  order in which the dirty range can grow on both sides. Three values: erased, default,
  edited. The violated runs leave out the user cell, since the VIA magic and
  a key map cell already give the two ends of a range. `menus` has a record of two bytes
  between the magics, and the bytes are numbers, since they are clamped; of the three
  confirmations of the reset it has one, sent as 0 or 1 as the toggles of the menu do
  (`LastToggle` and `ToggleBits`; the theorems are for any). Each menu is sent one byte: a
  second timeout, a TX power out of range, a debounce time below the least, `hold_okp` off.
  The default is the other setting, so that what is in force and what is saved can differ;
  the theorems are for hosts that send any bytes.
* **Times of the loop.** The scale is small but the order is that of the firmware: idle below
  RGB below sleep, debounce below grace, grace no more than the flush delay, flush wait
  below flush delay, all below the timeouts; drawing a frame takes two rounds in
  `loop_sleep` and three in `loop_settled`, where debouncing and a frame together so outlast
  the grace. The boards draw a frame in one round (`RGB_MATRIX_LED_PROCESS_LIMIT` is the
  number of LEDs); QMK's own value is five. `MaxTime` is the saturation of the ages and is
  at or above every timeout and the grace, which `TimeAssumption` and `TimeoutAssumption` state. The runs differ in what
  they turn on, as the table says, because all of it at once is beyond TLC: key edits and
  a failing flash with USB in `loop_sleep`, VIA and LED reports in `loop_via`, two keys that
  bounce in `loop_settled`, where the grace is long enough for a key to settle and for the RGB task
  to finish a black frame. A block write takes no time in the runs (`FlushTicks` is 0);
  the proofs are for any `FlushTicks`.
* **Keys.** One key for the decisions, which only ask whether any is down; two where debounce
  counters run one against the other.
* **Hosts and profiles.** Two of each: a host can hold one, both or no profile, and a pairing can
  meet a profile of another host. Hosts, and the two user threads, are symmetric. A third
  host adds no pair of operations that could meet.
* **Queue.** One place, so that it is full after one report; the firmware has eight. The
  properties speak of the order and of losing items, not of the length.
* **Tapping.** Three keys: a tap key, one that interrupts it, one more that waits behind. Two
  layers suffice for a release on another layer than its press. The five key maps have, between
  them, every kind of action. The waiting buffer has 6 places (8 in the firmware; one stays empty in
  both): enough for two presses and releases behind a tap key, and to
  overflow. A term of 2, a clock of 4 (the proofs ask for two terms; the firmware has 327 of 200 ms), a tap toggle at 2 taps, counts up to 3. What
  follows an excuse is not looked at (the constraint `Unexcused`); that cuts
  `WaitsOnlyForTap` too, which does not depend on an excuse, but its theorem is for all states.
* Nothing else is bounded: no other run has a state constraint.

### Fairness

Only three properties need it. `EventuallySaved` uses `FairSpec` of `EepromMirror` and
`RequestedReset` the same fairness in `MenusSpec` of `ViaMenus`: the main loop starts and
goes round (no step of it waits for anything but the driver and, in a reset, 250 ms), time passes, and the driver
returns; nothing is assumed of the VIA thread. `UnattendedSleeps` uses `FairSpec` of
`PowerLoop`: a thread that is ready runs, and time passes when all are blocked. Nothing is
assumed about keys, hosts, VIA or the power. `EventuallySaved` is only claimed for
executions in which edits and failing writes stop, `UnattendedSleeps` for those in which
events stop with no key down, no USB power and a sleep timeout set.

`Tapping` needs none: its properties are about every state.

Deadlock is checked in every run.

## What is proved

All for every value of the constants that the ASSUMEs allow: any size of the settings
area, any timeouts and debounce times, any number of keys, hosts and profiles, any
length of the queue.

| Theorem | Says |
|---|---|
| `EepromMirror_proofs!TypeCorrect` | types, with the VIA thread too |
| `EepromMirror_proofs!OneContextInductive` | the invariant `OneContextInv`, in `OneContext` |
| `EepromMirror_proofs!NothingForgotten` | what the flash lacks is in the dirty range, in `OneContext` |
| `EepromMirror_proofs!MirrorImplementsStore` | the mirror implements `SettingsStore`, in `OneContext` |
| `PowerLoop_proofs!TypeCorrect` | types; in particular a wait is never negative |
| `PowerLoop_proofs!NeverSleepsOverAChange` | `SuspendedAsWanted` |
| `PowerLoop_proofs!AnimationNeverStops` | `AnimationGoesOn` |
| `PowerLoop_proofs!SleepDecisionIsRight` | `SleepDecision` |
| `PowerLoop_proofs!DarkInSystemOff`, `DarkWhileSuspended` | `OffIsDark`, `SuspendedIsDark`, without LED reports |
| `PowerLoop_proofs!NoGhostSuspension` | `SuspendNeedsHost` |
| `PowerLoopTime_proofs!LedReportsAreSeen` | `LedReportSeen` |
| `PowerLoopTime_proofs!EditsAreFlushedInTime` | `FlushInTime`, if writing does not fail and the delay before System OFF is at most `FlushWait + FlushTicks + 1` |
| `PowerLoopTime_proofs!NeverSleepsThroughOff` | `SleepsOnTime`, if no sleep timeout is below the other two |
| `PowerLoopTime_proofs!NeverSleepsOverABounce` | `SettledAsleep`, if a debounce time, two block writes and a tick fit into the grace |
| `PowerLoopTime_proofs!RailFollows`, `RgbIsSaved` | `RailFollowsRgb`, `RgbSavedAsleep`, without VIA, if three rounds more fit into the grace and a frame ends before an RGB timeout (`Renders`) |
| `BleProfiles_proofs!TypeCorrect` | types |
| `BleProfiles_proofs!ProfilesAreKept` | `SlotKept` |
| `BleProfiles_proofs!SettingsAreSaved` | `SavedAtRest` |
| `BleProfiles_proofs!AdvertisesRightly` | `AdvertisesAtRest` |
| `BleProfiles_proofs!BondsAreKnown` | `NoOrphanBond` |
| `ReportDelivery_proofs!TypeCorrect` | types: in particular the queue holds only items, and no more than its length |
| `ReportDelivery_proofs!NoKeySticks` | `NoStuckKey` |
| `ReportDelivery_proofs!KeysGoToOneHost` | `OneHost` |
| `ViaMenus_proofs!MenusTypeCorrect` | types |
| `ViaMenus_proofs!MenusKeepSaved` | `KeepsSaved` |
| `ViaMenus_proofs!MenusOnlyChosen` | `OnlyChosen` |
| `ViaMenus_proofs!MenusInRange` | `InRange` |
| `ViaMenus_proofs!MenusLoseNoEdit` | `NoLostEdit` of the mirror with both threads, unless `raced` |
| `Tapping_proofs!TypeCorrect` | types: in particular the waiting buffer is never over-full |
| `Tapping_proofs!NothingWaitsLonger` | `WaitsOnlyForTap` |
| `TappingHeld_proofs!OnlyHeldKeys` | `OnlyHeld` |
| `TappingHeld_proofs!NothingStays` | `NothingStuck` |
| `TappingHeld_proofs!ReleasedAsPressed` | `ActionStays` |

**The mirror.** `DirtyCovers` is not inductive: while a block write runs, `dirty` will be
cleared at its end whatever happened meanwhile. `BlockCoversRange` adds that the write
still goes over the whole dirty range and that no cell it has passed has changed since.
That holds because the one thread that marks is the one that waits for the write, which
is the specification `OneContext`; the finding `eeprom_race` is this step failing without it.
The refinement then needs one fact: all is saved means that flash and mirror are equal.

**The menus.** Here the VIA thread is there, so the invariant of the mirror has to know where
in `eeprom_mark` it is. `Coverage` says that every cell the flash does not hold is in the
dirty range or is the one cell that is on its way into it (`UnderMark`), and that a block
write of either thread agrees with the mirror up to where it is. It holds from a boot until
`raced`: then a mark has met a flush. `RecordInv` is about the values a record can have in
flash, mirror and RAM (`Cellular`: the default, what the host sent, erased; the initial 0 for
the record without marker), and does not need that the threads keep apart. Where the marker
comes last (`MarkerLast`), `ValueFirst` says that a value still erased in the flash is in
front of every block write that is under way (`Ahead`), so that no marker gets past it; this
is why such a record is safe against a torn write and the other is not. `MenuPlaces` keeps
what `viaPortInit` separates. What the four menus have in common is stated once, as
`MenuFacts`; `MenusAssumption` only says that each menu is one of the four, with any set of
bytes for what the host sends.

**The loop.** `SuspendedAsWanted` speaks of a loop that is asleep, but is decided three
steps before it falls asleep. `SleepInv` says what carries it there: from the last `qmkSuspendUpdate` on,
either somebody is about to wake the loop (`Woken`: a token in the semaphore, a VIA command
whose `qmkWake` is still to come, a wait that is over) or the decision is right and the
wait ends before the RGB timeout. The last conjunct, about the key that may have been
pressed since the idle test, is for `SleepDecision`. `DarkInv` is the order of the
switching: suspended implies that the rail is off, and past `qmkSuspendForSleep` the
loop is suspended.

**The times of the loop.** Each of the theorems of `PowerLoopTime_proofs` has an invariant that
says at every place of the loop how old a fact may be there. `LedInv`: a LED report that
`led_task` has not seen has left a token. `FlushInv`: an edit is younger than the settle
delay, plus the sleep or the block write the loop is in. `OffInv`: without USB power a sleep
ends no later than the sleep timeout. `SettledInv(limit)`: a key that no scan has seen is
younger than a round, the counter of one that bounces runs out before its event is `limit`
old, and where the loop has found itself idle nothing is pressed. `RgbInv(limit)`: how many rounds a
change of RGB needs yet (`RoundsLeft`) against how long ago its key was; a frame
that is shown may take longer than the grace, but then the loop sleeps for one period at
a time, and to suspend in the middle of it takes a USB suspend, which leaves a token
(`HostInv`). The premises are about the times of the firmware. They hold for its
default values as long as no block write falls into the grace: a period is 2 ms, the debounce time 5
periods, the grace 10, a frame one round, RGB timeouts are seconds or more. They do not with a long
debounce time from the menu, or a block write (`FlushTicks`) that erases a page; see below.

**The reports.** The invariant follows a report along its way (`sending`, queue, `submitted`,
`sees`): the last one on the way to an interface says no more than `last` does, unless the
host is excused (`UsbWay`, `BleWay`), and interfaces that are off, drivers that are not
chosen and profiles that are not active have nothing.

**The profiles.** Saving writes what is there by then, not what the thread meant to save. So the
invariant is not about values but about obligations: `PendingSaves` says that a profile or
a selection that is not saved yet has a thread in front of its save. At rest there is none.
While a history is clean at most one thread is inside an operation, and `CleanInv` follows that
thread: at each of its calls it says what the stack advertises, what the thread is about to
ask for, and which bond it has taken out of the profiles but not yet out of the stack.

**Tap and hold.** Type correctness goes by lemmas on the operators of `KeyActions`: each returns a
keyboard of the right type. `WaitsOnlyForTap` speaks of an idle matrix after the ticks;
the invariant says what a tick that changes nothing has shown: the tap key is within its
term, and the oldest record of the buffer is one that an undecided tap key keeps.

`OnlyHeld` needs more, `HeldInv`. A release takes back what its own reading of the action says,
and reads the action of a tap key as a tap or as a hold by the tap count of its record. So
`Backed` does not say that a key is there for whatever is on, but that the part of its action
that its next release will undo contains it; `Taps` are the keys whose next release is one of
a tap. Which record that is follows from `Queue`, about the events that are on their way
(`Pending`, the buffer and the event of the call, in order): those of a key alternate up to
where the key is now (`Alternates`, `UpToDate`); a key acted upon, or the open tap key, is
released before it is pressed again (`Expects`); only the next event of its key is marked as
the release of a tap, and never while its key is open (`Marks`); no event that waits is older
than a term, or than the press it follows (`Ages`). `Scanned` is the reason for the excuse
`unscanned`: an open tap key has no release in the buffer within its term. A step takes one
event out, the first or the last of the queue (`Without`), marks one, adds one (`AppendQueue`)
or ages all (`AgedQueue`), and there is a lemma for each; `BranchHeld` then goes through the
branches of `process_tapping`. From the constants it needs that two terms fit into the clock
(`TermAssumption`), so that an event that waits never looks as if it came before the tap key.
`ActionStays` comes from the same invariant: the cache of source layers is written for a key
by the press the loop of `process_tapping` takes up, and `Expects` says that this key is not
acted upon then. The write at the scanned press is the excuse `again`.

**Only model-checked:** the liveness properties (`EventuallySaved`, `RequestedReset`,
`UnattendedSleeps`), because liveness under fairness is out of the prover's reach.

## What the model found

Each is a run that TLC finds violated; the entry in `PROJECT.json` quotes the text that the
code contradicts.

* `eeprom_race` (`port/platforms/eeprom.c:63`). The flush clears `dirty` after its block
  write; an edit that another thread made meanwhile behind the write is then in no range
  any more. The porting notes ask for one context; VIA is a second one.
* `eeprom_reset_lost` (`eeprom.c:85`). The factory reset clears the magic in the mirror and
  reboots 250 ms later without a flush, so the next boot finds valid settings.
* `report_select` (`port/ble.c:862`). The comment says that an empty report is sent to the
  previous host when the profile changes; none is.
* `tapping_again` (`quantum/quantum.c:247`). The source layer of a key is cached at every press,
  before anyone asks whether its last release still waits: pressed again on another layer, the
  waiting release is looked up on the wrong one, and the code it should release stays.

Two runs of an earlier state of this project are now described only. With a debounce time
above the idle grace of 20 ms (`port/matrix.c:176`; VIA allows 40 ms), the loop sleeps while the
host still sees a released key pressed: `SettledAsleep` fails. So it does when a block write that
takes longer than the grace follows the release: the scan after it only starts the counter,
and the loop is idle at once (the premise of `NeverSleepsOverABounce` excludes both). A LED report during suspension
lights Caps Lock, and System OFF keeps it lit (`quantum/led.c:188`): `OffIsDark` holds
with `HostLeds = FALSE` only.

On the menus: the power menus write their marker before their values (`power_cfg.c:27`), so
that a first write that is cut off leaves timeouts nobody chose; a save that arrives before
`viaPortInit` (`qmk.c:159`) writes zeros over a stored setting; the confirmation bits of the
factory reset are never taken back, although the menu shows them off and `sys_port.c` says that
the confirmation starts anew each time. On tap and hold: the comment
at `action_tapping.c:89` says that an overflow of the waiting buffer clears everything, but no layer
is cleared: with eight places TLC finds a layer-tap key that becomes a hold while its release is in
the full buffer, whose layer stays on with every key up. The loop over the waiting buffer can stop at a record that has just decided the tap key,
and the rest waits for the next tick. Two more came out of the proof of `OnlyHeld`, and TLC confirms
them on larger instances than the run's. A key that is pressed again within its term, but not as a
repeated tap, becomes the tap key without `waiting_buffer_scan_tap`
(`action_tapping.c:401`): with eight places in the buffer its release can be there
already; the key is then decided as held by time, its release taken for that of a tap, and the
layer stays on. And a one-shot layer that is set while another is on replaces it in
`oneshot_layer_data` (`action_util.c:174`), so that nobody turns the first layer off. Both are in
`excused`.

Some behaviours contradict no text, and are recorded as hazards with a note instead: the
last flush before System OFF obeys the settle delay (`activity.c:75`), a key pressed
between the decision and `sys_poweroff` is not seen, a failing
advertising start is not tried again (`ble.c:456`), a held consumer key does not move with
the output (`qmk.c:51`), a Caps Lock change around the wake-up can be missed
(`quantum.c:559`). One is about settings: `next_deadline` is asked for the sleep timeout only
when neither the idle nor the RGB deadline is left, so with a sleep timeout below the RGB
timeout the loop sleeps through the time of System OFF (`activity.c:192`);
`SleepsOnTime` is checked for the order idle, RGB, sleep.

## Assumptions and limits

* **Stacks.** A Bluetooth connection is found by its peer until `disconnected()` was called for
  it; connecting attempts that fail are left out; `settings_save_one` never fails; the bond
  table is never full. A USB interface that goes down aborts its transfer, and a host that
  loses a keyboard releases its keys. The reset out of System OFF finds in the flash what
  the settings were.
* **Granularity.** A word is read and written at once. The main loop computes in no time,
  although switching the rail on waits 2 ms (`ws2812.c:88`) and the key codes of Bluetooth wait
  for the flash in `settings_save_one`. `connected()` of `ble.c`, which waits for the controller
  inside, is one step of `BleProfiles`. `usb_tx_thread` submits what it took at once.
* **Key codes.** `process_record_quantum` is taken to let every key through; the path of
  `process_record` where it does not, which ends a one-shot layer, is part of the plan.
* **Data.** Key codes, colours, addresses and report layouts are members of small sets. The six
  places of a keyboard report are not modelled: a key that finds none changes nothing.
* **The 32-bit clock** does not wrap in the model; the code subtracts unsigned values, and
  the hazard at `matrix.c:189` says what is left.

## Plan

Done, in the order of importance: settings mirror, main loop, profiles, report path, tap and
hold, the VIA menus, each with its runs; proofs as listed.

1. `KeyActions`: the key codes of `process_record_quantum`, and a remap by VIA under a held key.
2. Small parts: battery interpolation as an operator against its table, the GPIO expander, the
   log and UART rings.
3. A composition of `EepromMirror` and `PowerLoop`, so that the dirty flag of the loop is the
   mirror's, with the last flush before System OFF.
