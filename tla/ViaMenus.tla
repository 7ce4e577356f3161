------------------------------ MODULE ViaMenus ------------------------------
(***************************************************************************)
(* port/via/*.c: the menus the host edits over VIA. Each keeps its setting *)
(* in a static record, which the rest of the firmware reads, and a copy of *)
(* it in the settings area. A command "set" changes the record at once, a  *)
(* command "save" writes it byte by byte to the mirror of EepromMirror,    *)
(* and viaPortInit reads it back after a boot and puts the default in the  *)
(* place of what it does not accept. The fifth menu is the factory reset   *)
(* with its three confirmations.                                           *)
(*                                                                         *)
(* The commands run in the VIA thread, which is there from via_hid_init    *)
(* on: bleInit blocks before viaPortInit has run. (What keyboard_init      *)
(* re-creates in between is shown re-created from the start.)              *)
(***************************************************************************)
EXTENDS EepromMirror

CONSTANTS
  Menus,      \* the menus of the boards
  None,
  LastToggle, \* the confirmations of the factory reset are 0 .. LastToggle
  ToggleBits  \* the bits a host may set in the value of a confirmation

\* The cells of a record, between the two magics. A record is one setting and,
\* where 0 is a setting too, the byte that says it was ever saved.
First == Magic + 1
Second == Magic + 2

\* valid: what viaPortInit takes from the flash; accept: what "set" makes of a
\* byte (None: it is ignored); sent: the bytes this host sends.
Menu == [value : {First, Second}, magic : {First, Second, None}, mark : Value,
         valid : SUBSET Value, default : Value, accept : [Value -> Value \cup {None}],
         sent : SUBSET (Value \ {Blank})]

\* power_cfg.c: the timeouts. Any byte is a timeout, 0 is "never".
Power(sent) ==
  [value |-> Second, magic |-> First, mark |-> 165, valid |-> Value, default |-> 30,
   accept |-> [v \in Value |-> v], sent |-> sent]

\* ble_cfg.c: an index into the eight TX powers.
Ble(sent) ==
  [value |-> Second, magic |-> First, mark |-> 165,
   valid |-> {v \in Value : v < 8}, default |-> 5,
   accept |-> [v \in Value |-> IF v < 8 THEN v ELSE None], sent |-> sent]

\* debounce_cfg.c: 0 is no debounce time, so there is no marker.
Debounce(sent) ==
  [value |-> First, magic |-> None, mark |-> Default,
   valid |-> {v \in Value : v \in 5 .. 40}, default |-> 10,
   accept |-> [v \in Value |-> CASE v < 5 -> 5 [] v > 40 -> 40 [] OTHER -> v],
   sent |-> sent]

\* hold_okp.c: off or on.
HoldOkp(sent) ==
  [value |-> First, magic |-> Second, mark |-> 90, valid |-> Value, default |-> 1,
   accept |-> [v \in Value |-> IF v = 0 THEN 0 ELSE 1], sent |-> sent]

\* The boards have these four, whatever a host sends.
BoardMenus ==
  UNION {{Power(sent), Ble(sent), Debounce(sent), HoldOkp(sent)} : sent \in SUBSET (Value \ {Blank})}

ASSUME BytesAssumption ==
  /\ Value \subseteq 0 .. 255 /\ {1, 5, 10, 30, 40, 90, 165} \subseteq Value
  /\ Blank = 255 /\ Default = 0
ASSUME MenusAssumption == Menus \subseteq BoardMenus /\ Second < ViaMagic
ASSUME NoneAssumption == None \notin Value \cup Offset
ASSUME ToggleAssumption == LastToggle \in 0 .. 7 /\ ToggleBits \subseteq 0 .. 7

VARIABLES
  menu,        \* the menu the host edits
  cfg,         \* its static record
  started,     \* viaPortInit has run
  pending,     \* the bytes of the record a save has still to write
  eep_reset_confirm,
  saved,       \* history: the record is the one saved last
  excused      \* history: why a promise does not bind

menuVars == <<menu, cfg, started, pending, eep_reset_confirm, saved>>
allVars == <<vars, menuVars, excused>>

Cells == {menu.value, menu.magic} \ {None}
Toggles == 0 .. LastToggle

MenuTypeOK ==
  /\ TypeOK
  /\ menu \in Menus \cap Menu
  /\ cfg \in [magic : Value, value : Value]
  /\ started \in BOOLEAN /\ saved \in BOOLEAN
  /\ pending \subseteq Cells
  /\ eep_reset_confirm \subseteq 0 .. 7
  /\ excused \subseteq {"early", "raced"}

\* The two threads are inside the settings code at once, and the main one is
\* writing the flash, creating the defaults or about to reset.
Raced == (Writing("main") \/ main = "reset") /\ via # "idle"
Excusing(why) == excused' = excused \cup why

\* A step that ends the program: its statics go.
Stopping(Step) ==
  /\ Step
  /\ cfg' = [magic |-> Default, value |-> Default]
  /\ started' = FALSE /\ saved' = FALSE
  /\ pending' = {} /\ eep_reset_confirm' = {}
  /\ excused' = excused \ {"raced"}
  /\ UNCHANGED menu

\* A step that leaves the menus alone.
Elsewhere(Step) ==
  /\ Step
  /\ Excusing(IF Raced' THEN {"raced"} ELSE {})
  /\ UNCHANGED menuVars

-----------------------------------------------------------------------------
(* Boot and viaPortInit.                                                   *)

\* The statics are zero.
MenuBoot == Boot /\ UNCHANGED <<menuVars, excused>>

\* eeconfig_init_..: eeprom_read_block into the record.
Read(image) ==
  [magic |-> IF menu.magic = None THEN Default ELSE image[menu.magic],
   value |-> image[menu.value]]

\* Mutant: the marker is not looked at.
RestoredWithoutMagic(image) ==
  IF Read(image).value \in menu.valid
    THEN Read(image)
    ELSE [magic |-> menu.mark, value |-> menu.default]

\* power_cfg_init, ble_cfg_init, debounce_cfg_init, hold_okp_init.
Restored(image) ==
  IF Read(image).magic = menu.mark /\ Read(image).value \in menu.valid
    THEN Read(image)
    ELSE [magic |-> menu.mark, value |-> menu.default]

Byte(record, o) == IF o = menu.magic THEN record.magic ELSE record.value

\* eeprom_update_block by the main thread: the cells that differ are marked.
UpdateBlock(record) ==
  LET changed == {o \in Cells : eeprom_buf[o] # Byte(record, o)}
      range == changed \cup IF dirty THEN {dirty_min, dirty_max} ELSE {}
  IN /\ eeprom_buf' = [o \in Offset |->
                         IF o \in Cells THEN Byte(record, o) ELSE eeprom_buf[o]]
     /\ dirty' = (dirty \/ changed # {})
     /\ IF changed = {}
          THEN UNCHANGED <<dirty_min, dirty_max, settled>>
          ELSE /\ dirty_min' \in Lowest(range) /\ dirty_max' \in Highest(range)
               /\ settled' = FALSE

MenuInit ==
  /\ main = "loop" /\ ~started
  /\ started' = TRUE
  /\ cfg' = Restored(eeprom_buf)
  /\ UpdateBlock(cfg')
  /\ saved' = (pending = {})
  /\ Excusing(IF via # "idle" THEN {"raced"} ELSE {})
  /\ UNCHANGED <<devVars, is_req_clean, main, viaVars, block, menu, pending,
                 eep_reset_confirm>>

-----------------------------------------------------------------------------
(* The commands.                                                           *)

\* Before viaPortInit a save writes zeros, and a reset flushes an area that has
\* no defaults yet. Only a record without a marker is always safe.
Command ==
  /\ ViaRuns("idle") /\ pending = {}
  /\ Excusing(IF ~started /\ menu.magic # None THEN {"early"} ELSE {})

\* Mutant: a value out of range is kept as it came.
SetValueUnchecked ==
  /\ Command
  /\ \E v \in menu.sent : cfg' = [cfg EXCEPT !.value = v]
  /\ saved' = FALSE
  /\ UNCHANGED <<vars, menu, started, pending, eep_reset_confirm>>

\* Mutant: what is to be ignored is stored.
SetValueUnguarded ==
  /\ Command
  /\ \E v \in menu.sent : cfg' = [cfg EXCEPT !.value = menu.accept[v]]
  /\ saved' = FALSE
  /\ UNCHANGED <<vars, menu, started, pending, eep_reset_confirm>>

\* id_custom_set_value: in force at once, saved by a command of its own.
SetValue ==
  /\ Command
  /\ \E v \in menu.sent :
       /\ menu.accept[v] # None
       /\ cfg' = [cfg EXCEPT !.value = menu.accept[v]]
  /\ saved' = FALSE
  /\ UNCHANGED <<vars, menu, started, pending, eep_reset_confirm>>

\* Mutant: sizeof(config) is one byte short.
SaveShort ==
  /\ Command
  /\ pending' = Lowest(Cells)
  /\ saved' = TRUE
  /\ UNCHANGED <<vars, menu, cfg, started, eep_reset_confirm>>

\* id_custom_save: eeconfig_flush_..(true), which the next steps carry out.
Save ==
  /\ Command
  /\ pending' = Cells
  /\ saved' = TRUE
  /\ UNCHANGED <<vars, menu, cfg, started, eep_reset_confirm>>

\* eeprom_update_block by the VIA thread, one eeprom_mark after the other.
SaveByte ==
  /\ ViaRuns("idle")
  /\ \E o \in Lowest(pending) :
       /\ pending' = pending \ {o}
       /\ \/ eeprom_buf[o] = Byte(cfg, o) /\ UNCHANGED vars
          \/ ViaMark /\ via_off' = o /\ eeprom_buf'[o] = Byte(cfg, o)
  /\ Excusing(IF Raced' THEN {"raced"} ELSE {})
  /\ UNCHANGED <<menu, cfg, started, eep_reset_confirm, saved>>

\* A toggle of the factory reset: the bits of its value, shifted by its place,
\* are set in the byte and never taken back, and the last toggle asks for the
\* reset when all are set and no other. (The widgets of the menus send 0 or 1.)
Confirm ==
  /\ Command
  /\ \E t \in Toggles, value \in SUBSET ToggleBits :
       /\ eep_reset_confirm' = eep_reset_confirm \cup ({t + b : b \in value} \cap 0 .. 7)
       /\ IF t = LastToggle /\ eep_reset_confirm' = Toggles THEN ViaReqClean ELSE UNCHANGED vars
  /\ UNCHANGED <<menu, cfg, started, pending, saved>>

\* id_qmk_system_dfu: bootloader_jump does not come back.
Dfu == ViaRuns("idle") /\ pending = {} /\ Stopping(Lost)

-----------------------------------------------------------------------------
MenusInit ==
  /\ Init
  /\ menu \in Menus
  /\ cfg = [magic |-> Default, value |-> Default]
  /\ started = FALSE /\ saved = FALSE
  /\ pending = {} /\ eep_reset_confirm = {}
  /\ excused = {}

\* The main loop runs after viaPortInit.
Loop(Step) == started /\ Elsewhere(Step)

MenusNext ==
  \/ MenuBoot \/ MenuInit
  \/ SetValue \/ Save \/ SaveByte \/ Confirm \/ Dfu
  \/ Stopping(PowerLoss) \/ Elsewhere(Settle)
  \/ Loop(EepromTask) \/ Loop(NoRequest) \/ Loop(EnterSleep) \/ Stopping(PowerOff)
  \/ Loop(FactoryReset) \/ Stopping(Reboot)
  \/ \E t \in Thread : Elsewhere(Driver(t))
  \/ Elsewhere(ViaTest) \/ Elsewhere(ViaSet) \/ Elsewhere(ViaSetMin)
  \/ Elsewhere(ViaRaise) \/ Elsewhere(ViaMin) \/ Elsewhere(ViaMax)
  \/ Elsewhere(ViaStamp) \/ Elsewhere(ViaRequest)

\* As in FairSpec of EepromMirror: the main loop starts and goes round, time
\* passes, and the driver returns. Nothing is assumed of the host.
MenusSpec ==
  /\ MenusInit /\ [][MenusNext]_allVars
  /\ WF_allVars(MenuInit)
  /\ WF_allVars(Elsewhere(Settle)) /\ WF_allVars(Loop(EepromTask))
  /\ WF_allVars(Loop(NoRequest))
  /\ WF_allVars(main = "check" /\ Loop(FactoryReset))
  /\ WF_allVars(Stopping(Reboot)) /\ WF_allVars(Stopping(PowerOff))
  /\ WF_allVars(Elsewhere(ProgramCell("main") \/ WriteDone("main")))
  /\ WF_allVars(Elsewhere(main # "off" /\ Driver("main")))

-----------------------------------------------------------------------------
\* A setting that was saved, or the default that was put in its place, is the
\* one the next boot restores, once nothing is left to write (the save command
\* of the menus, eeconfig_flush of the helper macro, and the mirror). Not if
\* the two threads met in the settings code ("raced"), nor if the host gave
\* commands before viaPortInit had run ("early").
KeepsSaved ==
  (/\ started /\ main = "loop" /\ via = "idle" /\ pending = {}
   /\ loaded /\ ~dirty /\ saved /\ excused = {})
    => Restored(flash) = cfg

\* Whatever power losses, failed and torn writes and resets there were, the
\* setting in force is the default or one the host sent (the marker of the
\* record, the order of its bytes). A power menu that was cut off while its
\* first record was written, marker first, takes the erased byte for a value.
\* Not if the host gave commands before viaPortInit had run.
OnlyChosen ==
  started /\ "early" \notin excused =>
    \/ cfg.value = menu.default
    \/ \E v \in menu.sent : menu.accept[v] = cfg.value
    \/ cfg.value = Blank /\ Blank \in menu.valid /\ menu.magic < menu.value

\* What "set" lets through.
Accepted == {menu.accept[v] : v \in Value} \ {None}

\* The setting in force is always one that "set" lets through, also after a
\* torn write, a race or an early save: no debounce time of 0, no index behind
\* the table of TX powers (the checks of viaPortInit and of "set"). Where
\* viaPortInit checks the marker only, an early save can leave an erased byte
\* in front of it.
InRange ==
  started /\ (menu.valid \subseteq Accepted \/ "early" \notin excused) => cfg.value \in Accepted
=============================================================================
