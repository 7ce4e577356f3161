---------------------------- MODULE EepromMirror ----------------------------
(***************************************************************************)
(* port/platforms/eeprom.c: the settings live in a RAM mirror, a write     *)
(* only widens a dirty range, and one block write brings the range to the  *)
(* flash when the edits have been quiet for EE_FLUSH_DELAY_MS.             *)
(*                                                                         *)
(* Two threads use it. The main loop marks cells (keycodes, boot) and      *)
(* flushes; the VIA thread marks cells (a key map or a menu edited by the  *)
(* host) and flushes once before a factory reset. There is no lock. The    *)
(* VIA thread has the lower priority, so the code of the main loop is one  *)
(* step between two of its blocking points, which are the wait between two *)
(* rounds and the block write; the VIA thread can be preempted between any *)
(* two statements.                                                         *)
(*                                                                         *)
(* Time is the single fact `settled': EE_FLUSH_DELAY_MS have passed since  *)
(* last_write_ms. Losing power is possible at any time.                    *)
(***************************************************************************)
EXTENDS Integers

CONSTANTS
  Size,       \* TOTAL_EEPROM_BYTE_COUNT, in cells
  ViaMagic,   \* VIA_EEPROM_MAGIC_ADDR; the key map and macros follow it
  Value,      \* what a cell can hold
  Blank,      \* 0xFF: erased, and what an invalid magic is set to
  Default     \* what eeconfig_init writes; in a magic cell, the magic

ASSUME SizeAssumption == Size \in Nat \ {0} /\ ViaMagic \in 1 .. Size - 1
ASSUME ValueAssumption == {Blank, Default} \subseteq Value /\ Blank # Default

Offset == 0 .. Size - 1
Magic == 0                          \* EECONFIG_MAGIC
ViaArea == ViaMagic .. Size - 1

\* What a caller writes to a cell. The settings code has no business in the
\* magics; the VIA command id_eeprom_reset clears and sets its own.
Writable(o) == IF o \in {Magic, ViaMagic} THEN {} ELSE Value \ {Blank}
ViaWritable(o) == IF o = ViaMagic THEN {Blank, Default} ELSE Writable(o)

VARIABLES
  flash,         \* the emulated EEPROM: survives the loss of power
  eeprom_buf,    \* the mirror every read is served from
  ee_ready,      \* device_is_ready at boot
  loaded,        \* history: the mirror was read from the flash at this boot
  dirty, dirty_min, dirty_max,
  settled,       \* millis() - last_write_ms >= EE_FLUSH_DELAY_MS
  is_req_clean,  \* the VIA thread asks for a factory reset
  main,          \* where the main thread is
  via,           \* where the VIA thread is
  via_off,       \* the argument of its eeprom_mark, 0 outside
  block          \* block[t]: the block write of thread t

devVars == <<flash, ee_ready, loaded>>
rangeVars == <<dirty, dirty_min, dirty_max>>
viaVars == <<via, via_off>>
vars == <<devVars, eeprom_buf, rangeVars, settled, is_req_clean, main, viaVars,
          block>>

Thread == {"main", "via"}
Writes == [at : 0 .. Size, last : Offset]   \* next cell and last cell
NoWrite == [at |-> 0, last |-> 0]

\* off: no power. loop: between two rounds. task, sleep: inside the block
\* write of eeprom_task or of activityEnterSleep. check: eeprom_task after
\* eeprom_update. down: activityEnterSleep after eeprom_update. reset: the 250 ms
\* that shutdown_quantum waits before mcu_reset.
MainAt == {"off", "loop", "task", "check", "sleep", "down", "reset"}

\* The statements of eeprom_mark, and of eeprom_req_clean around its flush.
ViaAt == {"idle", "test", "set", "setmin", "raise", "min", "max", "stamp", "write",
          "request"}

TypeOK ==
  /\ flash \in [Offset -> Value]
  /\ eeprom_buf \in [Offset -> Value]
  /\ ee_ready \in BOOLEAN /\ loaded \in BOOLEAN
  /\ dirty \in BOOLEAN /\ settled \in BOOLEAN /\ is_req_clean \in BOOLEAN
  /\ dirty_min \in Offset /\ dirty_max \in Offset
  /\ main \in MainAt
  /\ via \in ViaAt
  /\ via_off \in Offset
  /\ block \in [Thread -> Writes]

-----------------------------------------------------------------------------
(* Boot: eeprom_init, then via_init and quantum_init re-create what is not *)
(* valid. No other thread uses the settings yet.                           *)

\* eeconfig_init (everything) or eeconfig_init_via (its area) on this image.
Reinitialised(image) ==
  CASE image[Magic] # Default -> Offset
    [] image[Magic] = Default /\ image[ViaMagic] # Default -> ViaArea
    [] OTHER -> {}

Booted(image) ==
  [o \in Offset |-> IF o \in Reinitialised(image) THEN Default ELSE image[o]]

\* The cells eeprom_mark saw change. The VIA magic is cleared and set again.
Touched(image) ==
  {o \in Reinitialised(image) : o = ViaMagic \/ image[o] # Default}

Lowest(S) == {o \in S : \A p \in S : o <= p}
Highest(S) == {o \in S : \A p \in S : p <= o}

Boot ==
  /\ main = "off"
  /\ ee_ready' \in BOOLEAN
  /\ loaded' \in {FALSE, ee_ready'}           \* the read itself may fail
  /\ LET image == IF loaded' THEN flash ELSE [o \in Offset |-> Blank]
         touched == Touched(image)
     IN /\ eeprom_buf' = Booted(image)
        /\ dirty' = (touched # {})
        /\ dirty_min' \in IF touched = {} THEN {0} ELSE Lowest(touched)
        /\ dirty_max' \in IF touched = {} THEN {0} ELSE Highest(touched)
  /\ settled' = FALSE
  /\ is_req_clean' = FALSE
  /\ main' = "loop"
  /\ UNCHANGED <<flash, viaVars, block>>

\* Everything but the flash is RAM.
Lost ==
  /\ main' = "off"
  /\ via' = "idle"
  /\ block' = [t \in Thread |-> NoWrite]
  /\ via_off' = 0
  /\ UNCHANGED <<devVars, eeprom_buf, rangeVars, settled, is_req_clean>>

PowerLoss == main # "off" /\ Lost

-----------------------------------------------------------------------------
(* eeprom_mark by the main thread: a whole round cannot be preempted by    *)
(* the VIA thread.                                                         *)

\* Mutant: the range grows upwards only.
MarkedUpwardsOnly(o, v) ==
  /\ eeprom_buf[o] # v
  /\ eeprom_buf' = [eeprom_buf EXCEPT ![o] = v]
  /\ dirty' = TRUE
  /\ dirty_min' = IF dirty THEN dirty_min ELSE o
  /\ dirty_max' = IF dirty /\ dirty_max >= o THEN dirty_max ELSE o
  /\ settled' = FALSE

Marked(o, v) ==
  /\ eeprom_buf[o] # v
  /\ eeprom_buf' = [eeprom_buf EXCEPT ![o] = v]
  /\ dirty' = TRUE
  /\ dirty_min' = IF dirty /\ dirty_min <= o THEN dirty_min ELSE o
  /\ dirty_max' = IF dirty /\ dirty_max >= o THEN dirty_max ELSE o
  /\ settled' = FALSE

MainMark ==
  /\ main = "loop"
  /\ \E o \in Offset : \E v \in Writable(o) : Marked(o, v)
  /\ UNCHANGED <<devVars, is_req_clean, main, viaVars, block>>

Settle ==
  /\ main # "off" /\ ~settled
  /\ settled' = TRUE
  /\ UNCHANGED <<devVars, eeprom_buf, rangeVars, is_req_clean, main, viaVars,
                 block>>

-----------------------------------------------------------------------------
(* eeprom_flush. The arguments of the block write are computed when it is  *)
(* called, and the driver programs the range cell by cell from the mirror. *)
(* A range that a race left upside down has a length of 2^32 less a few    *)
(* bytes, and the driver refuses it.                                       *)

Refused == dirty_max + 1 < dirty_min

\* Mutant: the length is one too many.
OpenBlockTooLong(t) ==
  block' = [block EXCEPT ![t] = [at |-> dirty_min, last |-> dirty_max + 1]]

OpenBlock(t) ==
  block' = [block EXCEPT ![t] = [at |-> dirty_min, last |-> dirty_max]]

Writing(t) == IF t = "via" THEN via = "write" ELSE main \in {"task", "sleep"}

\* The return of eeprom_flush to its caller.
Return(t) ==
  /\ IF t = "via"
       THEN via' = "request" /\ UNCHANGED main
       ELSE main' = (IF main = "task" THEN "check" ELSE "down") /\ UNCHANGED via
  /\ block' = [block EXCEPT ![t] = NoWrite]
  /\ UNCHANGED <<eeprom_buf, dirty_min, dirty_max, settled, is_req_clean, via_off,
                 ee_ready, loaded>>

ProgramCell(t) ==
  /\ Writing(t)
  /\ LET o == block[t].at
     IN /\ o <= block[t].last
        /\ flash' = [flash EXCEPT ![o] = eeprom_buf[o]]
        /\ block' = [block EXCEPT ![t].at = o + 1]
  /\ UNCHANGED <<ee_ready, loaded, eeprom_buf, rangeVars, settled, is_req_clean,
                 main, viaVars>>

WriteDone(t) ==
  /\ Writing(t)
  /\ block[t].at > block[t].last
  /\ dirty' = FALSE
  /\ UNCHANGED flash
  /\ Return(t)

\* Mutant: a failed write is taken for a good one.
WriteFailedClears(t) ==
  /\ Writing(t)
  /\ dirty' = FALSE
  /\ UNCHANGED flash
  /\ Return(t)

\* The driver reports an error: dirty stays, the next task tries again.
WriteFailed(t) ==
  /\ Writing(t)
  /\ UNCHANGED <<flash, dirty>>
  /\ Return(t)

\* Mutant: the comparison with the flush delay is the wrong way round.
DueReversed == dirty /\ ~settled

\* eeprom_update: flush once the edits are quiet. Without a backend there is
\* nothing to write and the flush only clears dirty.
Due == dirty /\ settled

\* Mutant: eeprom_task returns when no flush is due, before it looks at is_req_clean.
EepromUpdateSkipsCheck(during, after) ==
  /\ IF Due /\ ee_ready /\ ~Refused
       THEN main' = during /\ OpenBlock("main") /\ UNCHANGED dirty
       ELSE main' = (IF after = "check" /\ ~Due THEN "loop" ELSE after)
            /\ dirty' = (dirty /\ ~(Due /\ ~ee_ready))
            /\ UNCHANGED block
  /\ UNCHANGED <<devVars, eeprom_buf, dirty_min, dirty_max, settled, is_req_clean,
                 viaVars>>

EepromUpdate(during, after) ==
  /\ IF Due /\ ee_ready /\ ~Refused
       THEN main' = during /\ OpenBlock("main") /\ UNCHANGED dirty
       ELSE main' = after /\ dirty' = (dirty /\ ~(Due /\ ~ee_ready))
                          /\ UNCHANGED block
  /\ UNCHANGED <<devVars, eeprom_buf, dirty_min, dirty_max, settled, is_req_clean,
                 viaVars>>

-----------------------------------------------------------------------------
(* The rest of eeprom_task, and the two ways to a stop the firmware takes  *)
(* by itself.                                                              *)

EepromTask == main = "loop" /\ EepromUpdate("task", "check")

NoRequest ==
  /\ main = "check" /\ ~is_req_clean
  /\ main' = "loop"
  /\ UNCHANGED <<devVars, eeprom_buf, rangeVars, settled, is_req_clean, viaVars,
                 block>>

\* eeconfig_disable, and soft_reset_keyboard up to its wait: at the request of the
\* VIA thread, or from the key code QK_CLEAR_EEPROM.
FactoryReset ==
  /\ \/ main = "check" /\ is_req_clean
     \/ main = "loop"
  /\ \/ Marked(Magic, Blank)
     \/ eeprom_buf[Magic] = Blank /\ UNCHANGED <<eeprom_buf, rangeVars, settled>>
  /\ main' = "reset"
  /\ UNCHANGED <<devVars, is_req_clean, viaVars, block>>

\* mcu_reset
Reboot == main = "reset" /\ Lost

EnterSleep == main = "loop" /\ EepromUpdate("sleep", "down")

PowerOff == main = "down" /\ Lost

-----------------------------------------------------------------------------
(* The VIA thread, statement by statement.                                 *)

ViaRuns(at) ==
  /\ main \in {"loop", "task", "sleep", "down", "reset"}
  /\ via = at

ViaGoes(to) ==
  /\ via' = to
  /\ UNCHANGED <<devVars, is_req_clean, main, block>>

ViaMark ==
  /\ ViaRuns("idle")
  /\ \E o \in Offset : \E v \in ViaWritable(o) :
        /\ eeprom_buf[o] # v
        /\ eeprom_buf' = [eeprom_buf EXCEPT ![o] = v]
        /\ via_off' = o
  /\ ViaGoes("test")
  /\ UNCHANGED <<rangeVars, settled>>

ViaTest ==
  /\ ViaRuns("test")
  /\ ViaGoes(IF dirty THEN "min" ELSE "set")
  /\ UNCHANGED <<eeprom_buf, rangeVars, settled, via_off>>

\* dirty_min = dirty_max = off; dirty = true
ViaSet ==
  /\ ViaRuns("set")
  /\ dirty_max' = via_off
  /\ ViaGoes("setmin")
  /\ UNCHANGED <<eeprom_buf, dirty, dirty_min, settled, via_off>>

ViaSetMin ==
  /\ ViaRuns("setmin")
  /\ dirty_min' = via_off
  /\ ViaGoes("raise")
  /\ UNCHANGED <<eeprom_buf, dirty, dirty_max, settled, via_off>>

ViaRaise ==
  /\ ViaRuns("raise")
  /\ dirty' = TRUE
  /\ ViaGoes("stamp")
  /\ UNCHANGED <<eeprom_buf, dirty_min, dirty_max, settled, via_off>>

ViaMin ==
  /\ ViaRuns("min")
  /\ dirty_min' = IF via_off < dirty_min THEN via_off ELSE dirty_min
  /\ ViaGoes("max")
  /\ UNCHANGED <<eeprom_buf, dirty, dirty_max, settled, via_off>>

ViaMax ==
  /\ ViaRuns("max")
  /\ dirty_max' = IF via_off > dirty_max THEN via_off ELSE dirty_max
  /\ ViaGoes("stamp")
  /\ UNCHANGED <<eeprom_buf, dirty, dirty_min, settled, via_off>>

ViaStamp ==
  /\ ViaRuns("stamp")
  /\ settled' = FALSE
  /\ via_off' = 0
  /\ ViaGoes("idle")
  /\ UNCHANGED <<eeprom_buf, rangeVars>>

\* eeprom_req_clean: flush whatever is dirty, quiet or not, then ask.
ViaReqClean ==
  /\ ViaRuns("idle")
  /\ IF dirty /\ ee_ready /\ ~Refused
       THEN via' = "write" /\ OpenBlock("via") /\ UNCHANGED dirty
       ELSE via' = "request" /\ dirty' = (dirty /\ ee_ready) /\ UNCHANGED block
  /\ UNCHANGED <<devVars, eeprom_buf, dirty_min, dirty_max, settled, is_req_clean,
                 main, via_off>>

ViaRequest ==
  /\ ViaRuns("request")
  /\ is_req_clean' = TRUE
  /\ via' = "idle"
  /\ UNCHANGED <<devVars, eeprom_buf, rangeVars, settled, main, via_off, block>>

-----------------------------------------------------------------------------
Init ==
  /\ flash = [o \in Offset |-> Blank]
  /\ eeprom_buf = [o \in Offset |-> Blank]
  /\ ee_ready = FALSE /\ loaded = FALSE
  /\ dirty = FALSE /\ dirty_min = 0 /\ dirty_max = 0
  /\ settled = FALSE
  /\ is_req_clean = FALSE
  /\ main = "off"
  /\ via = "idle" /\ via_off = 0
  /\ block = [t \in Thread |-> NoWrite]

MarkSteps ==
  \/ ViaMark \/ ViaTest \/ ViaSet \/ ViaSetMin \/ ViaRaise
  \/ ViaMin \/ ViaMax \/ ViaStamp

Driver(t) == ProgramCell(t) \/ WriteDone(t) \/ WriteFailed(t)

MainSteps ==
  \/ Boot \/ PowerLoss \/ Settle
  \/ MainMark \/ EepromTask \/ NoRequest \/ FactoryReset \/ Reboot \/ EnterSleep
  \/ PowerOff
  \/ Driver("main")

ViaSteps == MarkSteps \/ ViaReqClean \/ ViaRequest \/ Driver("via")

Next == MainSteps \/ ViaSteps

Spec == Init /\ [][Next]_vars

\* The settings used by the main thread alone: no host, or one that sends no
\* VIA command.
OneContext == Init /\ [][MainSteps]_vars

\* The main loop goes round, time passes, and the driver returns.
FairSpec ==
  /\ OneContext
  /\ WF_vars(Settle) /\ WF_vars(EepromTask) /\ WF_vars(NoRequest)
  /\ WF_vars(PowerOff) /\ WF_vars(Reboot)
  /\ WF_vars(ProgramCell("main") \/ WriteDone("main"))
  /\ WF_vars(main # "off" /\ Driver("main"))

-----------------------------------------------------------------------------
Running == main # "off"
Covered(o) == dirty /\ dirty_min <= o /\ o <= dirty_max

\* Whatever the flash does not hold yet is inside the range the next flush
\* writes: no edit can be forgotten, whatever order edits, flushes and failed
\* writes come in (eeprom_mark, eeprom_flush).
DirtyCovers ==
  Running /\ loaded => \A o \in Offset : eeprom_buf[o] # flash[o] => Covered(o)

\* Why: while a block write runs, no cell it has passed has changed since.
BlockCoversRange ==
  Writing("main") =>
    /\ dirty
    /\ dirty_min <= block["main"].at /\ block["main"].last = dirty_max
    /\ \A o \in Offset :
          dirty_min <= o /\ o < block["main"].at => flash[o] = eeprom_buf[o]

\* DirtyCovers made inductive, for one context.
OneContextInv ==
  /\ TypeOK
  /\ via = "idle"
  /\ loaded => ee_ready
  /\ dirty => dirty_min <= dirty_max
  /\ DirtyCovers
  /\ BlockCoversRange

\* The mirror keeps the promise of SettingsStore to its callers.
Store == INSTANCE SettingsStore WITH
  Cell <- Offset,
  Started <- [f \in [Offset -> Value] |-> {Booted(f), Booted([o \in Offset |-> Blank])}],
  up <- Running, visible <- eeprom_buf, saved <- loaded /\ ~dirty

StoreSpec == Store!Spec

\* When edits and failures stop, everything is saved, or the power went first
\* (the settle-flush of eeprom_task ends a burst of edits).
EventuallySaved ==
  <>[][~MainMark /\ ~WriteFailed("main")]_vars
    => (dirty ~> (~dirty \/ main = "off"))

\* A factory reset that was asked for happens (is_req_clean in eeprom_task),
\* also while edits go on and block writes fail.
RequestedReset == is_req_clean ~> main = "off"

\* With nobody in the middle of anything and nothing dirty, nothing is unsaved
\* (docs/PORTING-NOTES.md: eeprom_mark and the flush need one context).
NoLostEdit ==
  main = "loop" /\ via = "idle" /\ loaded /\ ~dirty => eeprom_buf = flash

\* A reset that was asked for over VIA leaves a flash the next boot takes as
\* invalid, so that everything is created anew (port/via/sys_port.c).
ResetTakesEffect ==
  [][Reboot /\ is_req_clean /\ loaded => flash[Magic] # Default]_vars
=============================================================================
