-------------------------- MODULE ViaMenus_proofs --------------------------
(***************************************************************************)
(* The menus over the mirror, for every size of the settings area, every   *)
(* place of the magics, every host and every number of confirmations. Type *)
(* correctness, then three invariants of their own: where the threads and  *)
(* the statics of the menus can be (MenuPlaces), which values the record   *)
(* can have in flash, mirror and RAM (RecordInv), and what the range of    *)
(* the next flush covers unless the two threads race (UnracedInv).         *)
(***************************************************************************)
EXTENDS ViaMenus, EepromMirror_proofs

\* What may be in force by right.
Choices == {menu.default} \cup ({menu.accept[v] : v \in menu.sent} \ {None})

\* No command has met a record that was not read yet.
Timely == menu.magic = None \/ "early" \notin excused

\* The marker is written after the value.
MarkerLast == menu.value = First /\ menu.magic = Second

MenuPlaces ==
  /\ main = "off" => via = "idle" /\ ~started /\ ~saved /\ pending = {}
  /\ ~started => main \in {"off", "loop"}
  /\ ~started /\ menu.magic # None /\ Timely => via = "idle" /\ pending = {}
  /\ started => cfg.magic = menu.mark /\ cfg.value \in menu.valid
  /\ \A t \in Thread : Writing(t) => ee_ready

\* The values the cell of the setting can have.
Cellular == Choices \cup {Blank} \cup IF menu.magic = None THEN {Default} ELSE {}

\* The next flush will come to this cell, and one that is on its way has it still to do.
Ahead(o) ==
  /\ Covered(o) /\ via \notin {"set", "setmin", "raise"}
  /\ \A t \in Thread : Writing(t) => block[t].at <= o /\ o <= block[t].last

\* Where the marker is written last, an erased value has no marker behind it, and no
\* block write can bring the marker to the flash before the value.
ValueFirst ==
  /\ flash[menu.magic] = menu.mark => flash[menu.value] # Blank
  /\ Running /\ ee_ready /\ flash[menu.value] = Blank =>
       IF started THEN Ahead(menu.value)
                  ELSE Covered(menu.value) \/ eeprom_buf[menu.value] = Blank

RecordInv ==
  Timely =>
    /\ flash[menu.value] \in Cellular
    /\ started => cfg.value \in Cellular /\ eeprom_buf[menu.value] \in Cellular
    /\ menu.magic = None => cfg.value \in Cellular
    /\ Running /\ Read(eeprom_buf).magic = menu.mark => eeprom_buf[menu.value] \in Cellular
    /\ MarkerLast =>
         /\ ValueFirst
         /\ started => cfg.value # Blank /\ eeprom_buf[menu.value] # Blank
         /\ Running /\ Read(eeprom_buf).magic = menu.mark => eeprom_buf[menu.value] # Blank

Marking == via \in {"test", "set", "setmin", "raise", "min", "max", "stamp"}

\* The cell eeprom_mark of the VIA thread has changed, but not brought into the range yet.
UnderMark(o) == via \in {"test", "set", "setmin", "raise", "min", "max"} /\ o = via_off

\* What a block write has passed agrees with the mirror.
PassedAgrees(t) ==
  /\ dirty_min <= block[t].at /\ block[t].last = dirty_max
  /\ \A o \in Offset : dirty_min <= o /\ o < block[t].at => flash[o] = eeprom_buf[o]

\* Unless the two threads race: every unsaved cell is in the range or about to be, and
\* a block write has no mark in its back.
Coverage ==
  /\ Marking => ~Writing("main")
  /\ loaded => \A o \in Offset : eeprom_buf[o] # flash[o] => Covered(o) \/ UnderMark(o)
  /\ via \in {"set", "setmin", "raise"} => ~dirty
  /\ via \in {"setmin", "raise"} => dirty_max = via_off
  /\ via = "raise" => dirty_min = via_off
  /\ loaded /\ via \in {"min", "max"} => dirty
  /\ via = "max" => dirty_min <= via_off
  /\ \A t \in Thread : Writing(t) => PassedAgrees(t)

UnracedInv ==
  /\ loaded => ee_ready
  /\ saved => \A o \in Cells \ pending : eeprom_buf[o] = Byte(cfg, o)
  /\ Running /\ "raced" \notin excused => Coverage

\* The inductive invariant.
MenusInv == MenuTypeOK /\ MenuPlaces /\ RecordInv /\ UnracedInv

-----------------------------------------------------------------------------
(* The four menus.                                                         *)

LEMMA Bytes ==
  /\ {0, 1, 5, 10, 30, 40, 90, 165, 255} \subseteq Value
  /\ Blank = 255 /\ Default = 0 /\ None \notin Value \cup Offset
  /\ \A v \in Value : v \in Int /\ 0 <= v /\ v <= 255
BY BytesAssumption, ValueAssumption, NoneAssumption

LEMMA Numbers == Offset \subseteq Int /\ \A w \in Writes : w.at \in Int /\ w.last \in Int
BY SizeAssumption DEF Offset, Writes

LEMMA RecordCells ==
  /\ First = 1 /\ Second = 2 /\ First \in Offset /\ Second \in Offset
  /\ Magic = 0 /\ None # First /\ None # Second
  /\ First # ViaMagic /\ Second # ViaMagic
BY SizeAssumption, MenusAssumption, NoneAssumption DEF First, Second, Magic, Offset

\* What the proofs use of the menus of the boards.
MenuFacts ==
  /\ menu \in Menu
  /\ menu.value \in {First, Second} /\ menu.magic \in {First, Second, None}
  /\ menu.value # menu.magic
  /\ menu.default \in menu.valid \ {Blank} /\ menu.valid \subseteq Value
  /\ menu.magic # None => menu.mark \in Value \ {Blank, Default}
  /\ menu.magic = None => menu.mark = Default /\ menu.valid \cap {Blank, Default} = {}
  /\ \A v \in Value : menu.accept[v] # None => menu.accept[v] \in menu.valid
  /\ \A v \in menu.sent : v \in Value /\ menu.accept[v] # Blank
  /\ menu.default \in Accepted
  /\ menu.valid \subseteq Accepted \/ MarkerLast
  /\ Blank \in menu.valid => MarkerLast \/ (menu.magic = First /\ menu.value = Second)

LEMMA PowerFacts ==
  ASSUME NEW sent \in SUBSET (Value \ {Blank}), menu = Power(sent) PROVE MenuFacts
<1> USE Bytes, RecordCells
<1>1. /\ menu.value = Second /\ menu.magic = First /\ menu.mark = 165 /\ menu.valid = Value
      /\ menu.default = 30 /\ menu.accept = [v \in Value |-> v] /\ menu.sent = sent
  BY DEF Power
<1>2. menu \in Menu
  BY DEF Power, Menu
<1>3. \A v \in Value : menu.accept[v] = v /\ v # None
  BY <1>1
<1>4. menu.valid \subseteq Accepted
  BY <1>1, <1>3 DEF Accepted
<1> QED BY <1>1, <1>2, <1>3, <1>4 DEF MenuFacts

LEMMA BleFacts ==
  ASSUME NEW sent \in SUBSET (Value \ {Blank}), menu = Ble(sent) PROVE MenuFacts
<1> USE Bytes, RecordCells
<1>1. /\ menu.value = Second /\ menu.magic = First /\ menu.mark = 165
      /\ menu.valid = {v \in Value : v < 8} /\ menu.default = 5 /\ menu.sent = sent
      /\ menu.accept = [v \in Value |-> IF v < 8 THEN v ELSE None]
  BY DEF Ble
<1>2. menu \in Menu
  BY DEF Ble, Menu
<1>3. \A v \in Value : menu.accept[v] = IF v < 8 THEN v ELSE None
  BY <1>1
<1>4. menu.valid \subseteq Accepted
  BY <1>1, <1>3 DEF Accepted
<1>5. menu.default \in menu.valid \ {Blank} /\ Blank \notin menu.valid
  BY <1>1
<1> QED BY <1>1, <1>2, <1>3, <1>4, <1>5 DEF MenuFacts

LEMMA DebounceFacts ==
  ASSUME NEW sent \in SUBSET (Value \ {Blank}), menu = Debounce(sent) PROVE MenuFacts
<1> USE Bytes, RecordCells
<1> DEFINE clamped == [v \in Value |-> CASE v < 5 -> 5 [] v > 40 -> 40 [] OTHER -> v]
<1>1. /\ menu.value = First /\ menu.magic = None /\ menu.mark = Default
      /\ menu.valid = {v \in Value : v \in 5 .. 40} /\ menu.default = 10 /\ menu.sent = sent
      /\ menu.accept = clamped
  BY DEF Debounce
<1>2. \A v \in Value : clamped[v] \in Value /\ clamped[v] \in 5 .. 40
  OBVIOUS
<1>3. clamped \in [Value -> Value \cup {None}]
  BY <1>2
<1>4. menu \in Menu
  BY <1>3 DEF Debounce, Menu
<1>5. \A v \in menu.valid : v \in Value /\ clamped[v] = v /\ v # None
  BY <1>1
<1>6. menu.valid \subseteq Accepted
  BY <1>1, <1>5 DEF Accepted
<1>7. menu.default \in menu.valid \ {Blank} /\ menu.valid \cap {Blank, Default} = {}
  BY <1>1
<1> HIDE DEF clamped
<1>8. \A v \in menu.sent : v \in Value /\ menu.accept[v] # Blank
  BY <1>1, <1>2
<1> QED BY <1>1, <1>2, <1>4, <1>6, <1>7, <1>8 DEF MenuFacts

LEMMA HoldOkpFacts ==
  ASSUME NEW sent \in SUBSET (Value \ {Blank}), menu = HoldOkp(sent) PROVE MenuFacts
<1> USE Bytes, RecordCells
<1>1. /\ menu.value = First /\ menu.magic = Second /\ menu.mark = 90 /\ menu.valid = Value
      /\ menu.default = 1 /\ menu.sent = sent
      /\ menu.accept = [v \in Value |-> IF v = 0 THEN 0 ELSE 1]
  BY DEF HoldOkp
<1>2. menu \in Menu
  BY DEF HoldOkp, Menu
<1>3. \A v \in Value : menu.accept[v] = IF v = 0 THEN 0 ELSE 1
  BY <1>1
<1>4. menu.default \in Accepted
  BY <1>1, <1>3 DEF Accepted
<1> QED BY <1>1, <1>2, <1>3, <1>4 DEF MenuFacts, MarkerLast

LEMMA FactsOfMenu == ASSUME menu \in Menus PROVE MenuFacts
<1>1. PICK sent \in SUBSET (Value \ {Blank}) :
        menu \in {Power(sent), Ble(sent), Debounce(sent), HoldOkp(sent)}
  BY MenusAssumption DEF BoardMenus
<1> QED BY <1>1, PowerFacts, BleFacts, DebounceFacts, HoldOkpFacts

-----------------------------------------------------------------------------
(* The steps, and what each kind leaves alone.                             *)

\* What the two threads do besides the menus.
MirrorWork ==
  \/ Settle \/ (started /\ (EepromTask \/ NoRequest \/ EnterSleep))
  \/ \E t \in Thread : Driver(t)
  \/ ViaTest \/ ViaSet \/ ViaSetMin \/ ViaRaise \/ ViaMin \/ ViaMax \/ ViaStamp
  \/ ViaRequest

Work ==
  /\ MirrorWork
  /\ excused' = excused \cup (IF Raced' THEN {"raced"} ELSE {})
  /\ UNCHANGED menuVars

\* Power loss, System OFF, the reset and the jump to the bootloader.
Stop ==
  /\ Lost
  /\ main' = "off" /\ via' = "idle" /\ UNCHANGED <<flash, ee_ready, loaded, menu>>
  /\ cfg' = [magic |-> Default, value |-> Default]
  /\ started' = FALSE /\ saved' = FALSE /\ pending' = {} /\ eep_reset_confirm' = {}
  /\ excused' = excused \ {"raced"}

LEMMA StopStep ==
  ASSUME Stopping(Lost) \/ Stopping(PowerLoss) \/ Stopping(PowerOff) \/ Stopping(Reboot)
  PROVE  Stop
BY DEF Stopping, PowerLoss, PowerOff, Lost, Reboot, Stop, devVars

LEMMA StepCases ==
  ASSUME [MenusNext]_allVars
  PROVE  \/ MenuBoot \/ MenuInit \/ SetValue \/ Save \/ SaveByte \/ Confirm \/ Stop \/ Work
         \/ Loop(FactoryReset) \/ UNCHANGED allVars
<1>1. CASE Dfu \/ Stopping(PowerLoss) \/ Stopping(PowerOff) \/ Stopping(Reboot)
  BY <1>1, StopStep DEF Dfu
<1>2. CASE Elsewhere(Settle) \/ Loop(EepromTask) \/ Loop(NoRequest) \/ Loop(EnterSleep)
  BY <1>2 DEF Loop, Elsewhere, Excusing, Work, MirrorWork
<1>3. CASE \E t \in Thread : Elsewhere(Driver(t))
  BY <1>3 DEF Elsewhere, Excusing, Work, MirrorWork
<1>4. CASE Elsewhere(ViaTest) \/ Elsewhere(ViaSet) \/ Elsewhere(ViaSetMin) \/ Elsewhere(ViaRaise)
  BY <1>4 DEF Elsewhere, Excusing, Work, MirrorWork
<1>5. CASE Elsewhere(ViaMin) \/ Elsewhere(ViaMax) \/ Elsewhere(ViaStamp) \/ Elsewhere(ViaRequest)
  BY <1>5 DEF Elsewhere, Excusing, Work, MirrorWork
<1> QED BY <1>1, <1>2, <1>3, <1>4, <1>5 DEF MenusNext

\* The mirror sees a step of its own, or viaPortInit.
LEMMA MirrorStep ==
  ASSUME \/ MenuBoot \/ SetValue \/ Save \/ SaveByte \/ Confirm \/ Stop \/ Work
         \/ Loop(FactoryReset) \/ UNCHANGED allVars,
         TypeOK
  PROVE  TypeOK'
<1>1. CASE Stop
  BY <1>1, ZeroIsOffset, OffsetIsInt DEF Stop, Lost, TypeOK, MainAt, ViaAt, devVars, rangeVars
<1>2. [Next]_vars \/ Stop
  <2>1. CASE Work
    <3>1. MirrorWork => Next
      BY DEF MirrorWork, Next, MainSteps, ViaSteps, MarkSteps, Thread
    <3> QED BY <2>1, <3>1 DEF Work
  <2>2. CASE SaveByte
    BY <2>2 DEF SaveByte, Next, ViaSteps, MarkSteps
  <2>3. CASE Confirm
    BY <2>3 DEF Confirm, Next, ViaSteps
  <2>4. CASE MenuBoot \/ SetValue \/ Save \/ Loop(FactoryReset) \/ UNCHANGED allVars
    BY <2>4 DEF MenuBoot, SetValue, Save, Loop, Elsewhere, allVars, Next, MainSteps
  <2> QED BY <2>1, <2>2, <2>3, <2>4
<1> QED BY <1>1, <1>2, TypeStep

\* The wait before a reset begins: only the magic of eeconfig is marked.
LEMMA ResetCells ==
  ASSUME TypeOK, Loop(FactoryReset)
  PROVE  /\ started /\ Running /\ main' = "reset" /\ Running' /\ ~Writing("main")'
         /\ UNCHANGED <<menuVars, flash, ee_ready, loaded, via, via_off, block>>
         /\ excused' = excused \cup (IF Raced' THEN {"raced"} ELSE {})
         /\ \A o \in Offset : o # Magic => eeprom_buf'[o] = eeprom_buf[o]
         /\ \A o \in Offset :
              Covered(o) \/ eeprom_buf'[o] # eeprom_buf[o] => Covered(o)'
<1>1. /\ started /\ Running /\ main' = "reset" /\ Running' /\ ~Writing("main")'
      /\ UNCHANGED <<menuVars, flash, ee_ready, loaded, via, via_off, block>>
      /\ excused' = excused \cup (IF Raced' THEN {"raced"} ELSE {})
  BY DEF Loop, Elsewhere, Excusing, FactoryReset, Running, Writing, devVars, viaVars
<1>2. CASE Marked(Magic, Blank)
  <2>1. /\ Magic \in Int /\ Offset \subseteq Int /\ dirty_min \in Int /\ dirty_max \in Int
    BY Numbers DEF TypeOK, Magic
  <2>2. \A o \in Offset : o # Magic => eeprom_buf'[o] = eeprom_buf[o]
    BY <1>2 DEF Marked, TypeOK
  <2>3. \A o \in Offset : Covered(o) \/ o = Magic => Covered(o)'
    BY <1>2, <2>1 DEF Marked, Covered
  <2> QED BY <1>1, <2>2, <2>3
<1>3. CASE UNCHANGED <<eeprom_buf, rangeVars, settled>>
  BY <1>1, <1>3 DEF rangeVars, Covered
<1> QED BY <1>2, <1>3 DEF Loop, Elsewhere, FactoryReset

-----------------------------------------------------------------------------
(* Records and cells.                                                      *)

Records == [magic : Value, value : Value]

LEMMA SameMenu == menu' = menu => Cellular' = Cellular /\ (MarkerLast' <=> MarkerLast)
BY DEF Cellular, Choices, MarkerLast

LEMMA CellsType ==
  ASSUME MenuFacts
  PROVE  /\ menu.value \in Cells /\ Cells \subseteq Offset
         /\ menu.magic # None => menu.magic \in Cells
         /\ \A o \in Cells : o = menu.value \/ (o = menu.magic /\ menu.magic # None)
BY RecordCells DEF MenuFacts, Cells

LEMMA ReadType ==
  ASSUME MenuFacts, NEW image \in [Offset -> Value]
  PROVE  Read(image) \in Records
BY CellsType, ValueAssumption DEF Read, Records

LEMMA RestoredType ==
  ASSUME MenuFacts, NEW image \in [Offset -> Value]
  PROVE  /\ Restored(image) \in Records
         /\ Restored(image).magic = menu.mark /\ Restored(image).value \in menu.valid
<1>1. menu.mark \in Value /\ menu.default \in menu.valid /\ menu.default \in Value
  BY Bytes DEF MenuFacts
<1> QED BY <1>1, ReadType DEF Restored, Records

LEMMA ByteType ==
  ASSUME MenuFacts, NEW record \in Records, NEW o
  PROVE  Byte(record, o) \in Value
BY DEF Byte, Records

LEMMA ByteOf ==
  ASSUME MenuFacts, NEW record \in Records
  PROVE  /\ Byte(record, menu.value) = record.value
         /\ Byte(record, menu.magic) = record.magic
BY DEF Byte, MenuFacts

LEMMA UpdatedType ==
  ASSUME MenuFacts, TypeOK, NEW record \in Records, UpdateBlock(record)
  PROVE  /\ eeprom_buf' \in [Offset -> Value] /\ dirty' \in BOOLEAN /\ settled' \in BOOLEAN
         /\ dirty_min' \in Offset /\ dirty_max' \in Offset
<1> DEFINE changed == {o \in Cells : eeprom_buf[o] # Byte(record, o)}
           range == changed \cup IF dirty THEN {dirty_min, dirty_max} ELSE {}
<1>1. range \subseteq Offset
  BY CellsType DEF TypeOK
<1>2. eeprom_buf' \in [Offset -> Value]
  BY ByteType DEF UpdateBlock, TypeOK
<1>3. dirty' \in BOOLEAN /\ settled' \in BOOLEAN
  BY DEF UpdateBlock, TypeOK
<1>4. dirty_min' \in Offset /\ dirty_max' \in Offset
  BY <1>1 DEF UpdateBlock, TypeOK, Lowest, Highest
<1> QED BY <1>2, <1>3, <1>4

LEMMA MenusTypeStep == MenuTypeOK /\ [MenusNext]_allVars => MenuTypeOK'
<1> SUFFICES ASSUME MenuTypeOK, [MenusNext]_allVars PROVE MenuTypeOK'
  OBVIOUS
<1>0. MenuFacts /\ TypeOK /\ cfg \in Records /\ Default \in Value
  BY FactsOfMenu, ValueAssumption DEF MenuTypeOK, Records
<1>1. CASE MenuBoot
  BY <1>0, <1>1, MirrorStep DEF MenuBoot, menuVars, MenuTypeOK, Cells
<1>2. CASE MenuInit
  <2>1. cfg' = Restored(eeprom_buf) /\ cfg' \in Records /\ UpdateBlock(cfg')
    BY <1>0, <1>2, RestoredType DEF MenuInit, TypeOK
  <2>2. /\ eeprom_buf' \in [Offset -> Value] /\ dirty' \in BOOLEAN /\ settled' \in BOOLEAN
        /\ dirty_min' \in Offset /\ dirty_max' \in Offset
    BY <1>0, <2>1, UpdatedType
  <2>3. TypeOK'
    BY <1>0, <1>2, <2>2 DEF MenuInit, TypeOK, devVars, viaVars
  <2> QED BY <1>2, <2>1, <2>3 DEF MenuInit, Excusing, MenuTypeOK, Records, Cells
<1>3. CASE SetValue
  <2>1. PICK v \in menu.sent : menu.accept[v] # None /\ cfg' = [cfg EXCEPT !.value = menu.accept[v]]
    BY <1>3 DEF SetValue
  <2>2. menu.accept[v] \in Value
    BY <1>0, <2>1 DEF MenuFacts
  <2>3. cfg' \in Records
    BY <1>0, <2>1, <2>2 DEF Records
  <2>4. TypeOK'
    BY <1>0, <1>3, MirrorStep
  <2> QED BY <1>3, <2>3, <2>4 DEF SetValue, Command, Excusing, MenuTypeOK, Records, Cells
<1>4. CASE Save
  BY <1>0, <1>4, MirrorStep DEF Save, Command, Excusing, MenuTypeOK, Cells
<1>5. CASE SaveByte
  <2>1. pending' \subseteq pending
    BY <1>5 DEF SaveByte
  <2> QED BY <1>0, <1>5, <2>1, MirrorStep DEF SaveByte, Excusing, MenuTypeOK, Cells
<1>6. CASE Confirm
  <2>1. eep_reset_confirm' \subseteq 0 .. 7
    BY <1>6 DEF Confirm, MenuTypeOK
  <2> QED BY <1>0, <1>6, <2>1, MirrorStep DEF Confirm, Command, Excusing, MenuTypeOK, Cells
<1>7. CASE Stop
  BY <1>0, <1>7, MirrorStep DEF Stop, MenuTypeOK, Cells
<1>8. CASE Work
  BY <1>0, <1>8, MirrorStep DEF Work, menuVars, MenuTypeOK, Cells
<1>9. CASE UNCHANGED allVars
  BY <1>0, <1>9, MirrorStep DEF allVars, menuVars, MenuTypeOK, Cells
<1>10. CASE Loop(FactoryReset)
  BY <1>0, <1>10, ResetCells, MirrorStep DEF menuVars, MenuTypeOK, Cells
<1> QED BY <1>1, <1>2, <1>3, <1>4, <1>5, <1>6, <1>7, <1>8, <1>9, <1>10, StepCases

LEMMA MenusTypeInit == MenusInit => MenuTypeOK
<1> SUFFICES ASSUME MenusInit PROVE MenuTypeOK
  OBVIOUS
<1>1. TypeOK
  BY OffsetIsInt, ValueAssumption DEF MenusInit, Init, TypeOK, MainAt, ViaAt, Magic
<1>2. menu \in Menu
  BY FactsOfMenu DEF MenusInit, MenuFacts
<1> QED BY <1>1, <1>2, ValueAssumption DEF MenusInit, MenuTypeOK

\* The menus, their statics and the mirror under them keep their types.
THEOREM MenusTypeCorrect == MenusSpec => []MenuTypeOK
BY MenusTypeInit, MenusTypeStep, PTL DEF MenusSpec

-----------------------------------------------------------------------------
(* Where the threads are.                                                  *)

\* Work happens between boot and stop, and the main thread does its share of it after
\* viaPortInit only.
LEMMA WorkPlaces ==
  ASSUME MenuTypeOK, MenuPlaces, Work
  PROVE  /\ Running /\ Running'
         /\ ~started => main' = main /\ ~Writing("main")
         /\ ~started /\ via = "idle" => Settle
         /\ Timely' => Timely
<1>1. Timely' => Timely
  BY DEF Work, menuVars, Timely
<1>2. Running
  BY DEF Work, MirrorWork, Settle, Driver, ProgramCell, WriteDone, WriteFailed, Writing, Thread,
         ViaTest, ViaSet, ViaSetMin, ViaRaise, ViaMin, ViaMax, ViaStamp, ViaRequest, ViaRuns,
         MenuPlaces, Running
<1>3. ~started => main = "loop" /\ ~Writing("main")
  BY <1>2 DEF MenuPlaces, Running, Writing
<1>4. Running' /\ (~started => main' = main)
  <2>1. CASE Settle
    BY <1>2, <2>1 DEF Settle, Running
  <2>2. CASE started /\ (EepromTask \/ NoRequest \/ EnterSleep)
    BY <2>2 DEF EepromTask, NoRequest, EnterSleep, EepromUpdate, Running
  <2>3. ASSUME NEW t \in Thread, Driver(t) PROVE Running' /\ (~started => main' = main)
    <3>1. CASE ProgramCell(t)
      BY <1>2, <3>1 DEF ProgramCell, Running
    <3>2. CASE WriteDone(t) \/ WriteFailed(t)
      BY <1>2, <1>3, <3>2 DEF WriteDone, WriteFailed, Return, Running, Thread
    <3> QED BY <2>3, <3>1, <3>2 DEF Driver
  <2>4. CASE ViaTest \/ ViaSet \/ ViaSetMin \/ ViaRaise \/ ViaMin \/ ViaMax \/ ViaStamp \/ ViaRequest
    BY <1>2, <2>4 DEF ViaTest, ViaSet, ViaSetMin, ViaRaise, ViaMin, ViaMax, ViaStamp, ViaRequest,
                      ViaGoes, Running
  <2> QED BY <2>1, <2>2, <2>3, <2>4 DEF Work, MirrorWork
<1>5. ~started /\ via = "idle" => Settle
  BY <1>3 DEF Work, MirrorWork, Driver, ProgramCell, WriteDone, WriteFailed, Writing, Thread,
              ViaTest, ViaSet, ViaSetMin, ViaRaise, ViaMin, ViaMax, ViaStamp, ViaRequest, ViaRuns
<1> QED BY <1>1, <1>2, <1>3, <1>4, <1>5

\* A command before viaPortInit has a record without a marker, or is remembered.
LEMMA TimelyCommand ==
  ASSUME MenuPlaces, Command, UNCHANGED <<menu, started>>
  PROVE  Running /\ (Timely' => Timely /\ (started \/ menu.magic = None))
BY DEF Command, ViaRuns, Excusing, Timely, Running

\* The driver is called on a backend that is there.
LEMMA ReadyStep ==
  ASSUME MenuPlaces, MenuTypeOK, [MenusNext]_allVars
  PROVE  \A t \in Thread : Writing(t)' => ee_ready'
<1>0. TypeOK /\ (main = "off" => via = "idle") /\ \A t \in Thread : Writing(t) => ee_ready
  BY DEF MenuTypeOK, MenuPlaces
<1>1. CASE MenuBoot \/ Stop
  BY <1>0, <1>1 DEF MenuBoot, Boot, Stop, viaVars, Writing
<1>2. CASE MenuInit \/ SetValue \/ Save \/ UNCHANGED allVars
  BY <1>0, <1>2 DEF MenuInit, SetValue, Save, allVars, vars, devVars, viaVars, Writing
<1>3. CASE SaveByte \/ Confirm
  BY <1>0, <1>3 DEF SaveByte, Confirm, vars, devVars, viaVars, Writing, ViaMark, ViaGoes, ViaReqClean
<1>4. CASE Work
  <2>1. CASE Settle \/ EepromTask \/ NoRequest \/ EnterSleep
    BY <1>0, <2>1 DEF Settle, EepromTask, NoRequest, EnterSleep, EepromUpdate, devVars, viaVars, Writing
  <2>2. ASSUME NEW t \in Thread, Driver(t) PROVE \A u \in Thread : Writing(u)' => ee_ready'
    BY <1>0, <2>2 DEF Driver, ProgramCell, WriteDone, WriteFailed, Return, viaVars, Writing
  <2>3. CASE ViaTest \/ ViaSet \/ ViaSetMin \/ ViaRaise \/ ViaMin \/ ViaMax \/ ViaStamp \/ ViaRequest
    BY <1>0, <2>3 DEF ViaTest, ViaSet, ViaSetMin, ViaRaise, ViaMin, ViaMax, ViaStamp, ViaRequest,
                      ViaGoes, devVars, Writing
  <2> QED BY <1>4, <2>1, <2>2, <2>3 DEF Work, MirrorWork
<1>5. CASE Loop(FactoryReset)
  BY <1>0, <1>5, ResetCells DEF Writing, Thread
<1> QED BY <1>1, <1>2, <1>3, <1>4, <1>5, StepCases

LEMMA PlacesStep ==
  ASSUME MenuTypeOK, MenuPlaces, [MenusNext]_allVars
  PROVE  MenuPlaces'
<1>0. MenuFacts /\ TypeOK /\ \A t \in Thread : Writing(t)' => ee_ready'
  BY FactsOfMenu, ReadyStep DEF MenuTypeOK
<1>1. CASE MenuBoot
  BY <1>0, <1>1 DEF MenuBoot, Boot, menuVars, viaVars, MenuPlaces, Timely
<1>2. CASE MenuInit
  <2>1. cfg'.magic = menu.mark /\ cfg'.value \in menu.valid
    BY <1>0, <1>2, RestoredType DEF MenuInit, TypeOK
  <2> QED BY <1>0, <1>2, <2>1 DEF MenuInit, MenuPlaces
<1>3. CASE SetValue
  <2>1. PICK v \in menu.sent : menu.accept[v] # None /\ cfg' = [cfg EXCEPT !.value = menu.accept[v]]
    BY <1>3 DEF SetValue
  <2>2. menu.accept[v] \in menu.valid
    BY <1>0, <2>1 DEF MenuFacts
  <2>3. cfg'.magic = cfg.magic /\ cfg'.value \in menu.valid
    BY <2>1, <2>2 DEF MenuTypeOK
  <2>4. Running /\ (Timely' => Timely /\ (started \/ menu.magic = None))
    BY <1>3, TimelyCommand DEF SetValue
  <2> QED BY <1>0, <1>3, <2>3, <2>4 DEF SetValue, vars, viaVars, MenuPlaces, Running
<1>4. CASE Save
  <2>1. Running /\ (Timely' => Timely /\ (started \/ menu.magic = None))
    BY <1>4, TimelyCommand DEF Save
  <2> QED BY <1>0, <1>4, <2>1 DEF Save, vars, viaVars, MenuPlaces, Running
<1>5. CASE SaveByte
  <2>1. Running /\ pending # {}
    BY <1>5 DEF SaveByte, ViaRuns, Running, Lowest
  <2>2. (Timely' => Timely) /\ main' = main
    BY <1>5 DEF SaveByte, Excusing, Timely, vars, ViaMark, ViaGoes
  <2> QED BY <1>0, <1>5, <2>1, <2>2 DEF SaveByte, MenuPlaces, Running
<1>6. CASE Confirm
  <2>1. Running /\ (Timely' => Timely /\ (started \/ menu.magic = None))
    BY <1>6, TimelyCommand DEF Confirm
  <2>2. main' = main
    BY <1>6 DEF Confirm, ViaReqClean, vars
  <2> QED BY <1>0, <1>6, <2>1, <2>2 DEF Confirm, MenuPlaces, Running
<1>7. CASE Stop
  BY <1>0, <1>7 DEF Stop, MenuPlaces
<1>8. CASE Work
  <2>1. /\ Running /\ Running' /\ (~started => main' = main)
        /\ ~started /\ via = "idle" => Settle
        /\ Timely' => Timely
    BY <1>8, WorkPlaces
  <2>2. Settle => via' = via
    BY DEF Settle, viaVars
  <2> QED BY <1>0, <1>8, <2>1, <2>2 DEF Work, menuVars, MenuPlaces, Running
<1>9. CASE UNCHANGED allVars
  BY <1>0, <1>9 DEF allVars, menuVars, vars, viaVars, MenuPlaces, Timely
<1>10. CASE Loop(FactoryReset)
  BY <1>0, <1>10, ResetCells DEF menuVars, MenuPlaces, Running
<1> QED BY <1>1, <1>2, <1>3, <1>4, <1>5, <1>6, <1>7, <1>8, <1>9, <1>10, StepCases

-----------------------------------------------------------------------------
(* What the record holds. First, what each kind of step does to the cells. *)

\* A boot takes the cells of the records from the flash, or makes all cells zero, and
\* then those that differ from the flash are in the range.
LEMMA BootedRecord ==
  ASSUME TypeOK, Boot
  PROVE  \/ loaded' /\ \A o \in Offset : o < ViaMagic => eeprom_buf'[o] = flash[o]
         \/ \A o \in Offset : /\ eeprom_buf'[o] = Default
                              /\ flash[o] # Default \/ ~loaded' => Covered(o)'
<1> DEFINE image == IF loaded' THEN flash ELSE [p \in Offset |-> Blank]
           touched == Touched(image)
<1> USE OffsetIsInt, ValueAssumption
<1>1. /\ eeprom_buf' = Booted(image) /\ dirty' = (touched # {})
      /\ dirty_min' \in (IF touched = {} THEN {0} ELSE Lowest(touched))
      /\ dirty_max' \in (IF touched = {} THEN {0} ELSE Highest(touched))
  BY DEF Boot
<1>2. \A p \in touched : dirty' /\ dirty_min' <= p /\ p <= dirty_max'
  BY <1>1 DEF Lowest, Highest
<1>3. CASE image[Magic] = Default
  <2>1. loaded' /\ image = flash
    BY <1>3
  <2>2. ASSUME NEW o \in Offset, o < ViaMagic PROVE eeprom_buf'[o] = flash[o]
    <3>1. o \notin Reinitialised(image)
      BY <1>3, <2>2, SizeAssumption DEF Reinitialised, ViaArea, Offset
    <3> QED BY <1>1, <2>1, <3>1 DEF Booted
  <2> QED BY <2>1, <2>2
<1>4. CASE image[Magic] # Default
  <2>1. Reinitialised(image) = Offset
    BY <1>4 DEF Reinitialised
  <2>2. \A o \in Offset : eeprom_buf'[o] = Default
    BY <1>1, <2>1 DEF Booted
  <2>3. ASSUME NEW o \in Offset, flash[o] # Default \/ ~loaded' PROVE Covered(o)'
    <3>1. o \in touched
      BY <2>1, <2>3 DEF Touched
    <3> QED BY <1>2, <3>1 DEF Covered
  <2> QED BY <2>2, <2>3
<1> QED BY <1>3, <1>4

\* eeprom_update_block brings every cell it changes into the range and takes none out.
LEMMA UpdatedCells ==
  ASSUME MenuFacts, TypeOK, NEW record \in Records, UpdateBlock(record), NEW o \in Offset
  PROVE  /\ eeprom_buf'[o] = IF o \in Cells THEN Byte(record, o) ELSE eeprom_buf[o]
         /\ Covered(o) \/ eeprom_buf'[o] # eeprom_buf[o] => Covered(o)'
<1> DEFINE changed == {p \in Cells : eeprom_buf[p] # Byte(record, p)}
           range == changed \cup IF dirty THEN {dirty_min, dirty_max} ELSE {}
<1>1. eeprom_buf'[o] = IF o \in Cells THEN Byte(record, o) ELSE eeprom_buf[o]
  BY DEF UpdateBlock
<1>2. CASE changed = {}
  <2>1. eeprom_buf'[o] = eeprom_buf[o] /\ UNCHANGED <<dirty_min, dirty_max>> /\ dirty' = dirty
    BY <1>1, <1>2 DEF UpdateBlock, TypeOK
  <2> QED BY <1>1, <2>1 DEF Covered
<1>3. CASE changed # {}
  <2>1. dirty' /\ \A p \in range : dirty_min' <= p /\ p <= dirty_max'
    BY <1>3 DEF UpdateBlock, Lowest, Highest
  <2>2. CASE eeprom_buf'[o] # eeprom_buf[o]
    <3>1. o \in changed
      BY <1>1, <2>2
    <3> QED BY <1>1, <2>1, <3>1 DEF Covered
  <2>3. CASE Covered(o)
    <3>1. dirty_min \in range /\ dirty_max \in range /\ dirty_min <= o /\ o <= dirty_max
      BY <2>3 DEF Covered
    <3>2. /\ dirty_min' \in Int /\ dirty_max' \in Int /\ dirty_min \in Int /\ dirty_max \in Int
          /\ o \in Int
      <4>1. dirty_min' \in Offset /\ dirty_max' \in Offset
        BY UpdatedType
      <4>2. dirty_min \in Offset /\ dirty_max \in Offset
        BY DEF TypeOK
      <4>3. Offset \subseteq Int
        BY OffsetIsInt
      <4> HIDE DEF range
      <4> QED BY <4>1, <4>2, <4>3, Zenon
    <3>3. dirty_min' <= dirty_min /\ dirty_max <= dirty_max'
      BY <2>1, <3>1
    <3> HIDE DEF range
    <3> QED BY <1>1, <2>1, <3>1, <3>2, <3>3 DEF Covered
  <2> QED BY <1>1, <2>2, <2>3
<1> QED BY <1>2, <1>3

\* One byte of a save: the cell gets the byte of the record, or had it.
LEMMA SavedByte ==
  ASSUME MenuFacts, MenuTypeOK, SaveByte
  PROVE  \E o \in pending :
           /\ pending' = pending \ {o} /\ o \in Offset /\ o \in Cells
           /\ eeprom_buf' = [eeprom_buf EXCEPT ![o] = Byte(cfg, o)]
           /\ \/ UNCHANGED vars
              \/ via = "idle" /\ via' = "test" /\ via_off' = o
           /\ UNCHANGED <<devVars, rangeVars, main, block>>
<1>1. PICK o \in Lowest(pending) :
        /\ pending' = pending \ {o}
        /\ \/ eeprom_buf[o] = Byte(cfg, o) /\ UNCHANGED vars
           \/ ViaMark /\ via_off' = o /\ eeprom_buf'[o] = Byte(cfg, o)
  BY DEF SaveByte
<1>2. o \in pending /\ o \in Cells /\ o \in Offset
  BY <1>1, CellsType DEF Lowest, MenuTypeOK
<1>3. CASE eeprom_buf[o] = Byte(cfg, o) /\ UNCHANGED vars
  BY <1>1, <1>2, <1>3 DEF vars, MenuTypeOK, TypeOK
<1>4. CASE ViaMark /\ via_off' = o /\ eeprom_buf'[o] = Byte(cfg, o)
  <2>1. PICK p \in Offset, v \in Value : eeprom_buf' = [eeprom_buf EXCEPT ![p] = v] /\ via_off' = p
    BY <1>4, ValueAssumption DEF ViaMark, ViaWritable, Writable
  <2>2. p = o /\ v = Byte(cfg, o)
    BY <1>2, <1>4, <2>1 DEF MenuTypeOK, TypeOK
  <2> QED BY <1>1, <1>2, <1>4, <2>1, <2>2 DEF ViaMark, ViaRuns, ViaGoes
<1> QED BY <1>1, <1>3, <1>4

\* The mirror is not written by any other work, and the flash by the driver only.
LEMMA WorkOnCells ==
  ASSUME TypeOK, Work
  PROVE  /\ eeprom_buf' = eeprom_buf /\ ee_ready' = ee_ready /\ loaded' = loaded
         /\ \/ flash' = flash
            \/ \E t \in Thread : ProgramCell(t) /\ block[t].at \in Offset
<1>1. CASE Settle
  BY <1>1 DEF Settle, devVars
<1>2. CASE EepromTask \/ NoRequest \/ EnterSleep
  BY <1>2 DEF EepromTask, NoRequest, EnterSleep, EepromUpdate, devVars
<1>3. ASSUME NEW t \in Thread, Driver(t)
      PROVE  /\ eeprom_buf' = eeprom_buf /\ ee_ready' = ee_ready /\ loaded' = loaded
             /\ flash' = flash \/ (ProgramCell(t) /\ block[t].at \in Offset)
  <2>1. CASE ProgramCell(t)
    <3>1. block[t].at \in 0 .. Size /\ block[t].last \in Offset /\ block[t].at <= block[t].last
      BY <2>1 DEF ProgramCell, TypeOK, Writes
    <3>2. block[t].at \in Offset
      BY <3>1, SizeAssumption DEF Offset
    <3> QED BY <2>1, <3>2 DEF ProgramCell
  <2>2. CASE WriteDone(t) \/ WriteFailed(t)
    BY <2>2 DEF WriteDone, WriteFailed, Return
  <2> QED BY <1>3, <2>1, <2>2 DEF Driver
<1>4. CASE ViaTest \/ ViaSet \/ ViaSetMin \/ ViaRaise \/ ViaMin \/ ViaMax \/ ViaStamp \/ ViaRequest
  BY <1>4 DEF ViaTest, ViaSet, ViaSetMin, ViaRaise, ViaMin, ViaMax, ViaStamp, ViaRequest,
              ViaGoes, devVars
<1> QED BY <1>1, <1>2, <1>3, <1>4 DEF Work, MirrorWork

\* A cell the flush has still to do stays so until the flash has its byte.
LEMMA AheadWork ==
  ASSUME TypeOK, Work, ee_ready, NEW o \in Offset, Ahead(o), flash'[o] # eeprom_buf[o]
  PROVE  Ahead(o)'
<1>0. /\ Offset \subseteq Int /\ o \in Int
      /\ dirty_min \in Int /\ dirty_max \in Int /\ via_off \in Int
      /\ \A t \in Thread : block[t].at \in Int /\ block[t].last \in Int
      /\ dirty /\ dirty_min <= o /\ o <= dirty_max /\ via \notin {"set", "setmin", "raise"}
  <2>1. \A t \in Thread : block[t] \in Writes
    BY DEF TypeOK
  <2>2. \A t \in Thread : block[t].at \in Int /\ block[t].last \in Int
    BY <2>1, Numbers
  <2>3. Offset \subseteq Int /\ dirty_min \in Offset /\ dirty_max \in Offset /\ via_off \in Offset
    BY Numbers DEF TypeOK
  <2>4. dirty /\ dirty_min <= o /\ o <= dirty_max /\ via \notin {"set", "setmin", "raise"}
    BY DEF Ahead, Covered
  <2>5. o \in Int /\ dirty_min \in Int /\ dirty_max \in Int /\ via_off \in Int
    BY <2>3
  <2> QED BY <2>2, <2>3, <2>4, <2>5
<1>1. \A t \in Thread : Writing(t) => block[t].at <= o /\ o <= block[t].last
  BY DEF Ahead
<1>2. CASE Settle \/ NoRequest
  BY <1>0, <1>1, <1>2 DEF Settle, NoRequest, rangeVars, viaVars, Writing, Ahead, Covered
<1>3. ASSUME NEW during \in {"task", "sleep"}, NEW after \in {"check", "down"}, main = "loop",
             EepromUpdate(during, after)
      PROVE  Ahead(o)'
  <2>1. UNCHANGED <<dirty, dirty_min, dirty_max, via>>
    <3>1. UNCHANGED <<dirty_min, dirty_max, via>>
      BY <1>3 DEF EepromUpdate, viaVars
    <3>2. CASE Due /\ ee_ready /\ ~Refused
      BY <1>3, <3>1, <3>2 DEF EepromUpdate
    <3>3. CASE ~(Due /\ ee_ready /\ ~Refused)
      <4>1. dirty' = (dirty /\ ~(Due /\ ~ee_ready))
        BY <1>3, <3>3 DEF EepromUpdate
      <4> QED BY <3>1, <4>1 DEF TypeOK
    <3> QED BY <3>2, <3>3
  <2>2. block'["via"] = block["via"]
    BY <1>3 DEF EepromUpdate, OpenBlock, TypeOK, Thread
  <2>3. Writing("main")' => block'["main"] = [at |-> dirty_min, last |-> dirty_max]
    BY <1>3 DEF EepromUpdate, OpenBlock, Writing, TypeOK, Thread
  <2> QED BY <1>0, <1>1, <2>1, <2>2, <2>3 DEF Ahead, Covered, Writing, Thread
<1>4. ASSUME NEW t \in Thread, ProgramCell(t) PROVE Ahead(o)'
  <2>1. Writing(t) /\ block[t].at <= o /\ UNCHANGED <<dirty, dirty_min, dirty_max, main, via>>
    BY <1>1, <1>4 DEF ProgramCell, rangeVars, viaVars
  <2>2. flash' = [flash EXCEPT ![block[t].at] = eeprom_buf[block[t].at]]
    BY <1>4 DEF ProgramCell
  <2>3. block[t].at # o
    BY <2>2 DEF TypeOK
  <2>4. block'[t].at = block[t].at + 1 /\ block'[t].last = block[t].last
    BY <1>4 DEF ProgramCell, TypeOK, Writes
  <2>5. block'[t].at <= o
    BY <1>0, <2>1, <2>3, <2>4
  <2>6. \A u \in Thread : u # t => block'[u] = block[u]
    BY <1>4 DEF ProgramCell, TypeOK
  <2> QED BY <1>0, <1>1, <2>1, <2>4, <2>5, <2>6 DEF Ahead, Covered, Writing
<1>5. ASSUME NEW t \in Thread, WriteDone(t) \/ WriteFailed(t) PROVE Ahead(o)'
  <2>1. Writing(t) /\ UNCHANGED <<dirty_min, dirty_max>> /\ via' \in {via, "request"}
    BY <1>5 DEF WriteDone, WriteFailed, Return
  <2>2. ~WriteDone(t)
    BY <1>0, <1>1 DEF WriteDone
  <2>3. dirty' = dirty
    BY <1>5, <2>2 DEF WriteFailed
  <2>4. \A u \in Thread : Writing(u)' => Writing(u) /\ u # t /\ block'[u] = block[u]
    BY <1>5 DEF WriteDone, WriteFailed, Return, Writing, Thread, TypeOK
  <2> QED BY <1>0, <1>1, <2>1, <2>3, <2>4 DEF Ahead, Covered
<1>6. CASE ViaTest \/ ViaSet \/ ViaSetMin \/ ViaRaise \/ ViaMin \/ ViaMax \/ ViaStamp \/ ViaRequest
  <2>1. block' = block /\ main' = main /\ via' # "write"
    BY <1>6 DEF ViaTest, ViaSet, ViaSetMin, ViaRaise, ViaMin, ViaMax, ViaStamp, ViaRequest, ViaGoes
  <2>2. Covered(o)' /\ via' \notin {"set", "setmin", "raise"}
    <3>1. CASE ViaTest \/ ViaStamp \/ ViaRequest
      BY <1>0, <3>1 DEF ViaTest, ViaStamp, ViaRequest, ViaGoes, rangeVars, Covered
    <3>2. CASE ViaMin
      BY <1>0, <3>2 DEF ViaMin, ViaGoes, Covered
    <3>3. CASE ViaMax
      BY <1>0, <3>3 DEF ViaMax, ViaGoes, Covered
    <3> QED BY <1>0, <1>6, <3>1, <3>2, <3>3 DEF ViaSet, ViaSetMin, ViaRaise, ViaRuns
  <2> QED BY <1>1, <2>1, <2>2 DEF Ahead, Writing
<1> QED BY <1>2, <1>3, <1>4, <1>5, <1>6 DEF Work, MirrorWork, EepromTask, EnterSleep, Driver

\* Where the marker is written last, the work of the mirror keeps the value in front of it.
LEMMA ValueFirstWork ==
  ASSUME MenuTypeOK, MenuPlaces, RecordInv, Work, Timely, MarkerLast
  PROVE  ValueFirst'
<1>0. MenuFacts /\ TypeOK /\ Running /\ menu.magic # None
  BY FactsOfMenu, RecordCells, WorkPlaces DEF MenuTypeOK, MarkerLast
<1>1. UNCHANGED <<menu, started, eeprom_buf, ee_ready>>
  BY <1>0, WorkOnCells DEF Work, menuVars
<1>2. ValueFirst /\ (started => eeprom_buf[menu.value] # Blank)
  BY DEF RecordInv
<1>3. CASE ~started
  <2>1. Settle
    BY <1>0, <1>3, WorkPlaces DEF MenuPlaces
  <2> QED BY <1>1, <1>2, <1>3, <2>1 DEF Settle, devVars, rangeVars, ValueFirst, Running, Covered
<1>4. CASE started
  <2>1. PICK val \in Offset, mag \in Offset :
          /\ menu.value = val /\ menu.magic = mag /\ val < mag /\ val \in Int /\ mag \in Int
    BY RecordCells, OffsetIsInt DEF MarkerLast
  <2>2. eeprom_buf[val] # Blank /\ (ee_ready /\ flash[val] = Blank => Ahead(val))
    BY <1>0, <1>2, <1>4, <2>1 DEF ValueFirst
  <2>3. ASSUME NEW t \in Thread, ProgramCell(t), block[t].at \in Offset
        PROVE  /\ flash'[val] = Blank => flash[val] = Blank
               /\ flash'[mag] = menu.mark => flash'[val] # Blank
    <3>1. \A o \in Offset : flash'[o] = IF o = block[t].at THEN eeprom_buf[o] ELSE flash[o]
      BY <2>3 DEF ProgramCell, TypeOK, MenuTypeOK
    <3>2. flash[val] = Blank => block[t].at <= val
      BY <2>2, <2>3 DEF ProgramCell, Ahead, MenuPlaces
    <3>3. flash[mag] = menu.mark => flash[val] # Blank
      BY <1>2, <2>1 DEF ValueFirst
    <3> HIDE DEF MenuFacts
    <3> QED BY <2>1, <2>2, <3>1, <3>2, <3>3
  <2>4. /\ flash'[val] = Blank => flash[val] = Blank
        /\ flash'[mag] = menu.mark => flash'[val] # Blank
    BY <1>0, <1>2, <2>1, <2>3, WorkOnCells DEF ValueFirst
  <2>5. ee_ready /\ flash'[val] = Blank => Ahead(val)'
    BY <1>0, <2>2, <2>4, AheadWork
  <2> QED BY <1>1, <1>4, <2>1, <2>4, <2>5 DEF ValueFirst
<1> QED BY <1>3, <1>4

LEMMA RecordBoot ==
  ASSUME MenuTypeOK, MenuPlaces, RecordInv, Timely, MenuBoot
  PROVE  RecordInv'
<1>0. MenuFacts /\ TypeOK
  BY FactsOfMenu DEF MenuTypeOK
<1>1. /\ UNCHANGED <<menu, cfg, started, flash, via>> /\ ~started /\ via = "idle"
      /\ main' = "loop" /\ Cellular' = Cellular /\ (MarkerLast' <=> MarkerLast) /\ Boot
  BY SameMenu DEF MenuBoot, Boot, menuVars, viaVars, MenuPlaces
<1>2. PICK val \in Offset : menu.value = val /\ val < ViaMagic
  BY <1>0, RecordCells, MenusAssumption, SizeAssumption DEF MenuFacts
<1>3. /\ flash[val] \in Cellular
      /\ menu.magic = None => cfg.value \in Cellular
      /\ MarkerLast => (flash[menu.magic] = menu.mark => flash[val] # Blank)
  BY <1>2 DEF RecordInv, ValueFirst
<1>4. menu.magic # None => menu.magic \in Offset /\ menu.magic < ViaMagic /\ menu.mark # Default
  BY <1>0, RecordCells, MenusAssumption, SizeAssumption DEF MenuFacts
<1>5. MarkerLast => menu.magic # None
  BY RecordCells DEF MarkerLast
<1>6. CASE \A o \in Offset : o < ViaMagic => eeprom_buf'[o] = flash[o]
  BY <1>1, <1>2, <1>3, <1>4, <1>5, <1>6 DEF RecordInv, ValueFirst, Read
<1>7. CASE \A o \in Offset : /\ eeprom_buf'[o] = Default
                             /\ flash[o] # Default \/ ~loaded' => Covered(o)'
  <2>1. eeprom_buf'[val] = Default /\ (flash[val] = Blank => Covered(val)') /\ Default # Blank
    BY <1>2, <1>7, ValueAssumption
  <2>2. menu.magic # None => eeprom_buf'[menu.magic] # menu.mark
    BY <1>4, <1>7
  <2>3. menu.magic = None => Default \in Cellular
    BY DEF Cellular
  <2> QED BY <1>1, <1>2, <1>3, <1>5, <2>1, <2>2, <2>3 DEF RecordInv, ValueFirst, Covered, Read
<1> QED BY <1>0, <1>1, <1>6, <1>7, BootedRecord

\* viaPortInit takes over what a marker vouches for, or the default.
LEMMA RecordInit ==
  ASSUME MenuTypeOK, MenuPlaces, RecordInv, Timely, MenuInit
  PROVE  RecordInv'
<1>0. MenuFacts /\ TypeOK /\ menu.value \in Offset
  BY FactsOfMenu, RecordCells DEF MenuTypeOK, MenuFacts
<1>1. /\ UNCHANGED <<menu, flash, via, ee_ready, main, block>> /\ ~started /\ started'
      /\ main = "loop" /\ cfg' = Restored(eeprom_buf) /\ UpdateBlock(cfg')
      /\ Cellular' = Cellular /\ (MarkerLast' <=> MarkerLast)
  BY SameMenu DEF MenuInit, devVars, viaVars
<1>2. cfg' \in Records
  BY <1>0, <1>1, RestoredType DEF TypeOK
<1>3. /\ cfg'.value \in Cellular
      /\ MarkerLast => cfg'.value # Blank
  <2>1. Running
    BY <1>1 DEF Running
  <2>2. CASE Read(eeprom_buf).magic = menu.mark /\ cfg' = Read(eeprom_buf)
    BY <2>1, <2>2 DEF RecordInv, Read
  <2>3. CASE cfg' = [magic |-> menu.mark, value |-> menu.default]
    BY <1>0, <2>3 DEF MenuFacts, Cellular, Choices
  <2> QED BY <1>1, <2>2, <2>3 DEF Restored
<1>4. /\ eeprom_buf'[menu.value] = cfg'.value
      /\ eeprom_buf'[menu.value] # eeprom_buf[menu.value] \/ Covered(menu.value) => Covered(menu.value)'
  BY <1>0, <1>1, <1>2, UpdatedCells, CellsType, ByteOf
<1>5. MarkerLast => ValueFirst'
  <2> SUFFICES ASSUME MarkerLast PROVE ValueFirst'
    OBVIOUS
  <2>1. ValueFirst /\ via = "idle"
    BY <1>1, RecordCells DEF RecordInv, MenuPlaces, MarkerLast
  <2>2. Running /\ ee_ready /\ flash[menu.value] = Blank => Covered(menu.value)'
    BY <1>1, <1>3, <1>4, <2>1 DEF ValueFirst
  <2>3. \A t \in Thread : ~Writing(t)'
    BY <1>1, <2>1 DEF Writing
  <2> QED BY <1>1, <2>1, <2>2, <2>3 DEF ValueFirst, Ahead, Running
<1> QED BY <1>0, <1>1, <1>2, <1>3, <1>4, <1>5 DEF RecordInv

\* The commands: a value the host may send, and the bytes of the record.
LEMMA RecordCommand ==
  ASSUME MenuTypeOK, MenuPlaces, RecordInv, Timely, Timely', SetValue \/ Save \/ Confirm
  PROVE  RecordInv'
<1>0. MenuFacts /\ TypeOK
  BY FactsOfMenu DEF MenuTypeOK
<1>1. /\ menu' = menu /\ started' = started /\ via = "idle" /\ (started \/ menu.magic = None)
      /\ Cellular' = Cellular /\ (MarkerLast' <=> MarkerLast)
  BY TimelyCommand, SameMenu DEF SetValue, Save, Confirm, Command, ViaRuns
<1>2. CASE SetValue
  <2>1. PICK v \in menu.sent : menu.accept[v] # None /\ cfg' = [cfg EXCEPT !.value = menu.accept[v]]
    BY <1>2 DEF SetValue
  <2>2. menu.accept[v] \in Cellular /\ menu.accept[v] # Blank
    BY <1>0, <2>1 DEF Cellular, Choices, MenuFacts
  <2>3. cfg'.value = menu.accept[v] /\ UNCHANGED vars
    BY <1>2, <2>1 DEF SetValue, MenuTypeOK
  <2> QED BY <1>1, <2>2, <2>3 DEF RecordInv, vars, devVars, rangeVars, viaVars, ValueFirst, Ahead,
                                  Covered, Writing, Running, Read
<1>3. CASE UNCHANGED <<vars, cfg>>
  BY <1>1, <1>3 DEF RecordInv, vars, devVars, rangeVars, viaVars, ValueFirst, Ahead, Covered,
                    Writing, Running, Read
<1>4. CASE ViaReqClean /\ UNCHANGED cfg
  <2>1. /\ UNCHANGED <<flash, eeprom_buf, ee_ready, main, cfg, dirty_min, dirty_max>>
        /\ via' \in {"write", "request"} /\ (ee_ready => dirty' = dirty)
        /\ via' = "write" => OpenBlock("via")
        /\ via' = "request" => block' = block
    BY <1>0, <1>4 DEF ViaReqClean, devVars, TypeOK
  <2>2. ASSUME ValueFirst, MarkerLast PROVE ValueFirst'
    <3>1. started
      BY <1>1, <2>2, RecordCells DEF MarkerLast
    <3>2. ASSUME Ahead(menu.value), ee_ready PROVE Ahead(menu.value)'
      <4>1. OpenBlock("via") => /\ block'["via"] = [at |-> dirty_min, last |-> dirty_max]
                                /\ block'["main"] = block["main"]
        BY <1>0 DEF OpenBlock, TypeOK, Thread
      <4>2. Covered(menu.value)' /\ dirty_min <= menu.value /\ menu.value <= dirty_max
        BY <1>1, <2>1, <3>2 DEF Ahead, Covered
      <4>3. ASSUME NEW t \in Thread, Writing(t)'
            PROVE  block'[t].at <= menu.value /\ menu.value <= block'[t].last
        <5>1. CASE t = "via"
          BY <2>1, <4>1, <4>2, <4>3, <5>1 DEF Writing
        <5>2. CASE t = "main"
          BY <2>1, <3>2, <4>1, <4>3, <5>2 DEF Writing, Ahead
        <5> QED BY <5>1, <5>2 DEF Thread
      <4> QED BY <1>1, <2>1, <4>2, <4>3 DEF Ahead
    <3> QED BY <1>1, <2>1, <2>2, <3>1, <3>2 DEF ValueFirst, Running
  <2> QED BY <1>1, <2>1, <2>2 DEF RecordInv, Read, Running
<1> QED BY <1>2, <1>3, <1>4 DEF Save, Confirm

LEMMA RecordSaveByte ==
  ASSUME MenuTypeOK, MenuPlaces, RecordInv, Timely, SaveByte
  PROVE  RecordInv'
<1>0. MenuFacts /\ TypeOK /\ cfg \in Records /\ menu.value \in Offset
  BY FactsOfMenu, RecordCells DEF MenuTypeOK, Records, MenuFacts
<1>1. /\ UNCHANGED <<menu, started, cfg>> /\ via = "idle" /\ Running /\ pending # {}
      /\ Cellular' = Cellular /\ (MarkerLast' <=> MarkerLast)
  BY SameMenu DEF SaveByte, ViaRuns, Running, Lowest
<1>2. started \/ menu.magic = None
  BY <1>1 DEF MenuPlaces
<1>3. PICK o \in Offset :
        /\ o \in Cells /\ eeprom_buf' = [eeprom_buf EXCEPT ![o] = Byte(cfg, o)]
        /\ via' \in {"idle", "test"} /\ UNCHANGED <<devVars, rangeVars, main, block>>
  BY <1>0, <1>1, SavedByte DEF vars, viaVars
<1>4. eeprom_buf'[menu.value] \in {eeprom_buf[menu.value], cfg.value}
      /\ (menu.magic = None => eeprom_buf'[menu.value] = cfg.value)
  BY <1>0, <1>3, CellsType, ByteOf DEF TypeOK
<1>5. cfg.value \in Cellular /\ (started => eeprom_buf[menu.value] \in Cellular)
  BY <1>2 DEF RecordInv
<1>6. MarkerLast => started /\ cfg.value # Blank /\ eeprom_buf[menu.value] # Blank
  BY <1>2, RecordCells DEF RecordInv, MarkerLast
<1>7. MarkerLast => ValueFirst'
  BY <1>1, <1>3, <1>6 DEF RecordInv, ValueFirst, Ahead, Covered, Writing, Running, devVars, rangeVars
<1> QED BY <1>1, <1>2, <1>3, <1>4, <1>5, <1>6, <1>7 DEF RecordInv, devVars

LEMMA RecordWork ==
  ASSUME MenuTypeOK, MenuPlaces, RecordInv, Timely, Work
  PROVE  RecordInv'
<1>0. MenuFacts /\ TypeOK /\ menu.value \in Offset /\ Running /\ Running'
  BY FactsOfMenu, RecordCells, WorkPlaces DEF MenuTypeOK, MenuFacts
<1>1. /\ UNCHANGED <<menu, started, cfg, eeprom_buf>>
      /\ Cellular' = Cellular /\ (MarkerLast' <=> MarkerLast)
  BY <1>0, SameMenu, WorkOnCells DEF Work, menuVars
<1>2. flash'[menu.value] \in Cellular
  <2>1. CASE flash' = flash
    BY <2>1 DEF RecordInv
  <2>2. ASSUME NEW t \in Thread, ProgramCell(t), block[t].at \in Offset
        PROVE  flash'[menu.value] \in Cellular
    <3>1. flash'[menu.value] \in {flash[menu.value], eeprom_buf[menu.value]}
      BY <1>0, <2>2 DEF ProgramCell, TypeOK
    <3>2. started \/ menu.magic = None
      <4>1. ~started => ~Writing("main")
        BY WorkPlaces
      <4> QED BY <2>2, <4>1 DEF ProgramCell, MenuPlaces, Writing, Thread
    <3>3. menu.magic = None => Read(eeprom_buf).magic = menu.mark
      BY <1>0 DEF Read, MenuFacts
    <3> QED BY <1>0, <3>1, <3>2, <3>3 DEF RecordInv
  <2> QED BY <1>0, <2>1, <2>2, WorkOnCells
<1>3. MarkerLast => ValueFirst'
  BY ValueFirstWork
<1> QED BY <1>0, <1>1, <1>2, <1>3 DEF RecordInv, Read

\* The magic that a reset marks is in no record.
LEMMA RecordReset ==
  ASSUME MenuTypeOK, MenuPlaces, RecordInv, Timely', Loop(FactoryReset)
  PROVE  RecordInv'
<1>0. MenuFacts /\ TypeOK /\ menu.value \in Offset /\ menu.value # Magic
  BY FactsOfMenu, RecordCells DEF MenuTypeOK, MenuFacts
<1>1. menu.magic # None => menu.magic \in Offset /\ menu.magic # Magic
  BY <1>0, RecordCells DEF MenuFacts
<1>2. /\ started /\ Running /\ Running' /\ ~Writing("main")'
      /\ UNCHANGED <<menu, cfg, started, flash, ee_ready, via, block>>
      /\ Timely /\ Cellular' = Cellular /\ (MarkerLast' <=> MarkerLast)
  BY <1>0, ResetCells, SameMenu DEF menuVars, Timely
<1>3. /\ eeprom_buf'[menu.value] = eeprom_buf[menu.value]
      /\ Covered(menu.value) => Covered(menu.value)'
      /\ Read(eeprom_buf)' = Read(eeprom_buf)
  BY <1>0, <1>1, <1>2, ResetCells DEF Read
<1>4. ValueFirst => ValueFirst'
  BY <1>2, <1>3 DEF ValueFirst, Ahead, Writing, Thread
<1> QED BY <1>2, <1>3, <1>4 DEF RecordInv

LEMMA RecordStep ==
  ASSUME MenuTypeOK, MenuPlaces, RecordInv, [MenusNext]_allVars
  PROVE  RecordInv'
<1> SUFFICES ASSUME Timely' PROVE RecordInv'
  BY DEF RecordInv
<1>1. CASE MenuBoot
  BY <1>1, RecordBoot DEF MenuBoot, menuVars, Timely
<1>2. CASE MenuInit
  BY <1>2, RecordInit DEF MenuInit, Excusing, Timely
<1>3. CASE SetValue \/ Save \/ Confirm
  BY <1>3, RecordCommand, TimelyCommand DEF SetValue, Save, Confirm
<1>4. CASE SaveByte
  BY <1>4, RecordSaveByte DEF SaveByte, Excusing, Timely
<1>5. CASE Stop
  <2>1. Timely /\ Cellular' = Cellular /\ (MarkerLast' <=> MarkerLast)
    BY <1>5, SameMenu DEF Stop, Timely
  <2>2. menu.magic = None => Default \in Cellular
    BY DEF Cellular
  <2> QED BY <1>5, <2>1, <2>2 DEF Stop, RecordInv, ValueFirst, Running
<1>6. CASE Work
  BY <1>6, RecordWork, WorkPlaces
<1>7. CASE UNCHANGED allVars
  BY <1>7, SameMenu DEF allVars, menuVars, vars, devVars, rangeVars, viaVars, Timely, RecordInv,
                        ValueFirst, Ahead, Covered, Writing, Running, Read
<1>8. CASE Loop(FactoryReset)
  BY <1>8, RecordReset
<1> QED BY <1>1, <1>2, <1>3, <1>4, <1>5, <1>6, <1>7, <1>8, StepCases

-----------------------------------------------------------------------------
(* What a flush has to write. As in one context, a block write brings to   *)
(* the flash what differs from it; the VIA thread may be in the middle of  *)
(* eeprom_mark, with its cell on the way into the range.                   *)

LEMMA SavedStep ==
  ASSUME MenuTypeOK, MenuPlaces, UnracedInv, [MenusNext]_allVars
  PROVE  /\ loaded' => ee_ready'
         /\ saved' => (\A o \in Cells \ pending : eeprom_buf[o] = Byte(cfg, o))'
<1>0. /\ MenuFacts /\ TypeOK /\ cfg \in Records /\ (loaded => ee_ready)
      /\ saved => \A o \in Cells \ pending : eeprom_buf[o] = Byte(cfg, o)
  BY FactsOfMenu DEF MenuTypeOK, Records, UnracedInv
<1>1. CASE MenuBoot
  <2>1. loaded' \in {FALSE, ee_ready'}
    BY <1>1 DEF MenuBoot, Boot
  <2>2. loaded' => ee_ready'
    BY <2>1, Zenon
  <2>3. ~saved'
    BY <1>1 DEF MenuBoot, Boot, menuVars, MenuPlaces
  <2> QED BY <2>2, <2>3
<1>2. CASE MenuInit
  <2>1. /\ cfg' = Restored(eeprom_buf) /\ UpdateBlock(cfg') /\ UNCHANGED <<menu, loaded, ee_ready>>
    BY <1>2 DEF MenuInit, devVars
  <2>2. cfg' \in Records
    BY <1>0, <2>1, RestoredType DEF TypeOK
  <2>3. \A o \in Cells : eeprom_buf'[o] = Byte(cfg', o)
    BY <1>0, <2>1, <2>2, UpdatedCells, CellsType
  <2> QED BY <1>0, <2>1, <2>3 DEF Cells, Byte
<1>3. CASE SetValue \/ Save \/ Stop
  BY <1>0, <1>3 DEF SetValue, Save, Stop, vars, devVars, Cells
<1>4. CASE SaveByte
  <2>1. PICK o \in Offset :
          /\ pending' = pending \ {o} /\ eeprom_buf' = [eeprom_buf EXCEPT ![o] = Byte(cfg, o)]
          /\ UNCHANGED devVars
    BY <1>0, <1>4, SavedByte
  <2>2. UNCHANGED <<menu, cfg, saved>>
    BY <1>4 DEF SaveByte
  <2>3. \A p \in Cells : eeprom_buf'[p] = IF p = o THEN Byte(cfg, o) ELSE eeprom_buf[p]
    BY <1>0, <2>1, CellsType DEF TypeOK
  <2> QED BY <1>0, <2>1, <2>2, <2>3 DEF Cells, Byte, devVars
<1>5. CASE Confirm \/ Work \/ UNCHANGED allVars
  <2>1. UNCHANGED <<menu, cfg, saved, pending, eeprom_buf, ee_ready, loaded>>
    BY <1>0, <1>5, WorkOnCells
       DEF Confirm, Work, ViaReqClean, allVars, menuVars, vars, devVars
  <2> QED BY <1>0, <2>1 DEF Cells, Byte
<1>6. CASE Loop(FactoryReset)
  <2>1. UNCHANGED <<menu, cfg, saved, pending, ee_ready, loaded>>
    BY <1>0, <1>6, ResetCells DEF menuVars
  <2>2. \A o \in Cells : eeprom_buf'[o] = eeprom_buf[o]
    BY <1>0, <1>6, ResetCells, CellsType, RecordCells DEF Cells, MenuFacts
  <2> QED BY <1>0, <2>1, <2>2 DEF Cells, Byte
<1> QED BY <1>1, <1>2, <1>3, <1>4, <1>5, <1>6, StepCases

\* A command, or a byte of a save that is marked while the main thread does not write.
LEMMA CoverageCommand ==
  ASSUME MenuTypeOK, MenuPlaces, UnracedInv, "raced" \notin excused',
         SetValue \/ Save \/ SaveByte \/ Confirm
  PROVE  Coverage'
<1>0. MenuFacts /\ TypeOK /\ via = "idle" /\ Running /\ (loaded => ee_ready)
  BY FactsOfMenu DEF MenuTypeOK, SetValue, Save, SaveByte, Confirm, Command, ViaRuns, Running,
                     UnracedInv
<1>1. "raced" \notin excused
  BY DEF SetValue, Save, SaveByte, Confirm, Command, Excusing
<1>2. Coverage
  BY <1>0, <1>1 DEF UnracedInv
<1>3. CASE UNCHANGED vars
  BY <1>2, <1>3 DEF vars, devVars, rangeVars, viaVars, Coverage, Marking, UnderMark, PassedAgrees,
                    Covered, Writing
<1>4. CASE SaveByte /\ ~UNCHANGED vars
  <2>1. PICK o \in Offset :
          /\ eeprom_buf' = [eeprom_buf EXCEPT ![o] = Byte(cfg, o)]
          /\ via' = "test" /\ via_off' = o /\ UNCHANGED <<devVars, rangeVars, main, block>>
    BY <1>0, <1>4, SavedByte
  <2>2. ~Writing("main")' /\ ~Writing("via")'
    BY <1>4, <2>1 DEF SaveByte, Excusing, Raced, Writing
  <2>3. ASSUME loaded, NEW p \in Offset, eeprom_buf'[p] # flash[p]
        PROVE  Covered(p)' \/ UnderMark(p)'
    <3>1. CASE p = o
      BY <2>1, <3>1 DEF UnderMark
    <3>2. CASE p # o
      BY <1>0, <1>2, <2>1, <2>3, <3>2 DEF TypeOK, Coverage, UnderMark, Covered, rangeVars
    <3> QED BY <3>1, <3>2
  <2> QED BY <2>1, <2>2, <2>3 DEF Coverage, Thread, devVars
<1>5. CASE ViaReqClean
  <2>1. /\ UNCHANGED <<flash, eeprom_buf, loaded, main, dirty_min, dirty_max, via_off>>
        /\ via' \in {"write", "request"} /\ (loaded => dirty' = dirty)
        /\ via' = "write" => OpenBlock("via")
        /\ via' = "request" => block' = block
    BY <1>0, <1>5 DEF ViaReqClean, devVars, TypeOK
  <2>2. block'["main"] = block["main"]
    BY <1>0, <2>1 DEF OpenBlock, TypeOK, Thread
  <2>3. PassedAgrees("main") /\ Writing("main") => PassedAgrees("main")'
    BY <2>1, <2>2 DEF PassedAgrees
  <2>4. Writing("via")' => PassedAgrees("via")'
    <3>1. via' = "write" => block'["via"] = [at |-> dirty_min, last |-> dirty_max]
      BY <1>0, <2>1 DEF OpenBlock, TypeOK, Thread
    <3> QED BY <1>0, <2>1, <3>1, Numbers DEF PassedAgrees, Writing, TypeOK
  <2>5. \A t \in Thread : Writing(t)' => PassedAgrees(t)'
    BY <1>2, <2>1, <2>3, <2>4 DEF Coverage, Thread, Writing
  <2> QED BY <1>0, <1>2, <2>1, <2>5 DEF Coverage, Marking, UnderMark, Covered
<1> QED BY <1>3, <1>4, <1>5 DEF SetValue, Save, Confirm

\* The work of the two threads, as long as they do not meet.
LEMMA CoverageWork ==
  ASSUME MenuTypeOK, MenuPlaces, UnracedInv, "raced" \notin excused', Work
  PROVE  Coverage'
<1>0. /\ MenuFacts /\ TypeOK /\ Running /\ (loaded => ee_ready)
      /\ UNCHANGED <<eeprom_buf, loaded>>
  BY FactsOfMenu, WorkPlaces, WorkOnCells DEF MenuTypeOK, UnracedInv
<1>1. "raced" \notin excused /\ ~Raced'
  BY DEF Work
<1>2. Coverage
  BY <1>0, <1>1 DEF UnracedInv
<1>3. /\ Offset \subseteq Int /\ dirty_min \in Int /\ dirty_max \in Int /\ via_off \in Int
      /\ dirty \in BOOLEAN /\ \A t \in Thread : block[t].at \in Int /\ block[t].last \in Int
  BY <1>0, Numbers DEF TypeOK
<1>4. CASE Settle \/ NoRequest
  BY <1>2, <1>4 DEF Settle, NoRequest, devVars, rangeVars, viaVars, Coverage, Marking, UnderMark,
                    PassedAgrees, Covered, Writing
<1>5. ASSUME NEW during \in {"task", "sleep"}, NEW after \in {"check", "down"}, main = "loop",
             EepromUpdate(during, after)
      PROVE  Coverage'
  <2>1. UNCHANGED <<flash, dirty_min, dirty_max, via, via_off>> /\ block'["via"] = block["via"]
    BY <1>0, <1>5 DEF EepromUpdate, OpenBlock, devVars, viaVars, TypeOK, Thread
  <2>2. (loaded => dirty' = dirty) /\ (dirty' => dirty)
    <3>1. CASE Due /\ ee_ready /\ ~Refused
      BY <1>5, <3>1 DEF EepromUpdate
    <3>2. CASE ~(Due /\ ee_ready /\ ~Refused)
      <4>1. dirty' = (dirty /\ ~(Due /\ ~ee_ready))
        BY <1>5, <3>2 DEF EepromUpdate
      <4> QED BY <1>0, <1>3, <4>1
    <3> QED BY <3>1, <3>2
  <2>3. Writing("main")' => /\ via = "idle"
                            /\ block'["main"] = [at |-> dirty_min, last |-> dirty_max]
    <3>1. Writing("main")' => main' = during /\ OpenBlock("main")
      BY <1>5 DEF EepromUpdate, Writing
    <3> QED BY <1>0, <1>1, <2>1, <3>1 DEF OpenBlock, Raced, TypeOK, Thread
  <2>4. \A t \in Thread : Writing(t)' => PassedAgrees(t)'
    <3>1. Writing("main")' => PassedAgrees("main")'
      <4>1. SUFFICES ASSUME Writing("main")' PROVE PassedAgrees("main")'
        OBVIOUS
      <4>2. block'["main"].at = dirty_min' /\ block'["main"].last = dirty_max'
        BY <2>1, <2>3, <4>1
      <4>3. dirty_min' \in Int
        BY <1>3, <2>1
      <4>4. \A o \in Offset : ~(dirty_min' <= o /\ o < block'["main"].at)
        BY <1>3, <4>2, <4>3
      <4>5. dirty_min' <= block'["main"].at
        BY <4>2, <4>3
      <4> QED BY <4>2, <4>4, <4>5 DEF PassedAgrees
    <3>2. Writing("via")' => PassedAgrees("via")'
      BY <1>0, <1>2, <2>1 DEF Coverage, PassedAgrees, Writing, Thread
    <3> QED BY <3>1, <3>2 DEF Thread
  <2> QED BY <1>0, <1>2, <2>1, <2>2, <2>3, <2>4 DEF Coverage, Marking, UnderMark, Covered
<1>6. ASSUME NEW t \in Thread, ProgramCell(t) PROVE Coverage'
  <2>1. UNCHANGED <<dirty, dirty_min, dirty_max, via, via_off, main>> /\ Writing(t)
    BY <1>6 DEF ProgramCell, rangeVars, viaVars
  <2>2. /\ \A o \in Offset : flash'[o] = IF o = block[t].at THEN eeprom_buf[o] ELSE flash[o]
        /\ block'[t].at = block[t].at + 1 /\ block'[t].last = block[t].last
        /\ \A u \in Thread : u # t => block'[u] = block[u]
    BY <1>0, <1>6 DEF ProgramCell, TypeOK, Writes
  <2>3. ASSUME NEW u \in Thread, Writing(u)' PROVE PassedAgrees(u)'
    <3>1. PassedAgrees(u)
      BY <1>2, <2>1, <2>3 DEF Coverage, Writing
    <3>2. CASE u = t
      <4> DEFINE at == block[t].at
      <4>1. /\ at \in Int /\ dirty_min <= at /\ block[t].last = dirty_max
            /\ \A o \in Offset : dirty_min <= o /\ o < at => flash[o] = eeprom_buf[o]
        BY <1>3, <3>1, <3>2 DEF PassedAgrees
      <4>2. block'[u].at = at + 1 /\ block'[u].last = dirty_max
        BY <2>2, <3>2, <4>1
      <4> HIDE DEF at
      <4>3. ASSUME NEW o \in Offset, dirty_min <= o, o < at + 1 PROVE flash'[o] = eeprom_buf[o]
        <5>1. o < at \/ o = at
          BY <1>3, <4>1, <4>3
        <5> QED BY <2>2, <4>1, <4>3, <5>1 DEF at
      <4>4. dirty_min <= at + 1
        BY <1>3, <4>1
      <4> QED BY <1>0, <2>1, <4>2, <4>3, <4>4 DEF PassedAgrees
    <3>3. CASE u # t
      BY <1>0, <2>1, <2>2, <3>1, <3>3 DEF PassedAgrees
    <3> QED BY <3>2, <3>3
  <2> QED BY <1>0, <1>2, <2>1, <2>2, <2>3 DEF Coverage, Marking, UnderMark, Covered, Writing
<1>7. ASSUME NEW t \in Thread, WriteDone(t) \/ WriteFailed(t) PROVE Coverage'
  <2>1. /\ Writing(t) /\ UNCHANGED <<flash, dirty_min, dirty_max, via_off>>
        /\ via' = via \/ (t = "via" /\ via' = "request")
        /\ \A u \in Thread : Writing(u)' => Writing(u) /\ u # t
        /\ \A u \in Thread : u # t => block'[u] = block[u]
    BY <1>0, <1>7 DEF WriteDone, WriteFailed, Return, Writing, Thread, TypeOK
  <2>2. ~Marking
    BY <1>2, <2>1 DEF Coverage, Marking, Writing, Thread
  <2>3. ~Marking'
    BY <2>1, <2>2 DEF Marking
  <2>4. \A u \in Thread : Writing(u)' => PassedAgrees(u)'
    BY <1>0, <1>2, <2>1 DEF Coverage, PassedAgrees
  <2>5. ASSUME loaded, NEW o \in Offset, eeprom_buf[o] # flash[o] PROVE Covered(o)'
    <3>1. Covered(o) /\ PassedAgrees(t)
      BY <1>2, <2>1, <2>2, <2>5 DEF Coverage, UnderMark, Marking
    <3>2. ~WriteDone(t)
      BY <1>3, <2>5, <3>1 DEF WriteDone, PassedAgrees, Covered
    <3> QED BY <1>7, <2>1, <3>1, <3>2 DEF WriteFailed, Covered
  <2> QED BY <1>0, <2>1, <2>3, <2>4, <2>5 DEF Coverage, Marking
<1>8. CASE ViaTest \/ ViaSet \/ ViaSetMin \/ ViaRaise \/ ViaMin \/ ViaMax \/ ViaStamp \/ ViaRequest
  <2>1. UNCHANGED <<flash, block, main>> /\ via' # "write"
    BY <1>8 DEF ViaTest, ViaSet, ViaSetMin, ViaRaise, ViaMin, ViaMax, ViaStamp, ViaRequest,
                ViaGoes, devVars
  <2>2. CASE ViaRequest
    BY <1>0, <1>2, <2>1, <2>2 DEF ViaRequest, ViaRuns, rangeVars, Coverage, Marking, UnderMark,
                                  PassedAgrees, Covered, Writing
  <2>3. CASE ~ViaRequest
    <3>1. ~Writing("main") /\ ~Writing("via")
      BY <1>2, <1>8, <2>3 DEF Coverage, Marking, Writing, ViaTest, ViaSet, ViaSetMin, ViaRaise,
                              ViaMin, ViaMax, ViaStamp, ViaRuns
    <3>2. \A t \in Thread : ~Writing(t)'
      BY <2>1, <3>1 DEF Writing, Thread
    <3>3. loaded => \A o \in Offset : eeprom_buf[o] # flash[o] => Covered(o) \/ UnderMark(o)
      BY <1>2 DEF Coverage
    <3> DEFINE Range == /\ loaded => \A o \in Offset : eeprom_buf[o] # flash[o] => (Covered(o) \/ UnderMark(o))'
                        /\ via' \in {"set", "setmin", "raise"} => ~dirty'
                        /\ via' \in {"setmin", "raise"} => dirty_max' = via_off'
                        /\ via' = "raise" => dirty_min' = via_off'
                        /\ loaded /\ via' \in {"min", "max"} => dirty'
                        /\ via' = "max" => dirty_min' <= via_off'
    <3>4. SUFFICES Range
      BY <1>0, <2>1, <3>2 DEF Coverage, Thread
    <3>5. CASE ViaTest
      BY <3>3, <3>5 DEF ViaTest, ViaRuns, ViaGoes, rangeVars, UnderMark, Covered
    <3>6. CASE ViaSet
      BY <1>2, <3>3, <3>6 DEF ViaSet, ViaRuns, ViaGoes, Coverage, UnderMark, Covered
    <3>7. CASE ViaSetMin
      BY <1>2, <3>3, <3>7 DEF ViaSetMin, ViaRuns, ViaGoes, Coverage, UnderMark, Covered
    <3>8. CASE ViaRaise
      BY <1>2, <1>3, <3>3, <3>8 DEF ViaRaise, ViaRuns, ViaGoes, Coverage, UnderMark, Covered
    <3>9. CASE ViaMin
      BY <1>2, <1>3, <3>3, <3>9 DEF ViaMin, ViaRuns, ViaGoes, Coverage, UnderMark, Covered
    <3>10. CASE ViaMax
      BY <1>2, <1>3, <3>3, <3>10 DEF ViaMax, ViaRuns, ViaGoes, Coverage, UnderMark, Covered
    <3>11. CASE ViaStamp
      BY <3>3, <3>11 DEF ViaStamp, ViaRuns, ViaGoes, rangeVars, UnderMark, Covered
    <3> QED BY <1>8, <2>3, <3>5, <3>6, <3>7, <3>8, <3>9, <3>10, <3>11
  <2> QED BY <2>2, <2>3
<1> QED BY <1>4, <1>5, <1>6, <1>7, <1>8 DEF Work, MirrorWork, EepromTask, EnterSleep, Driver

LEMMA UnracedStep ==
  ASSUME MenuTypeOK, MenuPlaces, UnracedInv, [MenusNext]_allVars
  PROVE  UnracedInv'
<1>0. MenuFacts /\ TypeOK
  BY FactsOfMenu DEF MenuTypeOK
<1> SUFFICES ASSUME Running', "raced" \notin excused' PROVE Coverage'
  BY SavedStep DEF UnracedInv
<1>1. CASE MenuBoot
  <2>1. via' = "idle" /\ main' = "loop" /\ Boot
    BY <1>1 DEF MenuBoot, Boot, viaVars, MenuPlaces
  <2>2. DirtyCovers'
    BY <1>0, <2>1, BootCovers
  <2> QED BY <2>1, <2>2 DEF Coverage, Marking, Writing, Thread, DirtyCovers, Running
<1>2. CASE MenuInit
  <2>1. /\ main = "loop" /\ via = "idle" /\ "raced" \notin excused
        /\ UNCHANGED <<main, via, flash, loaded>>
        /\ cfg' = Restored(eeprom_buf) /\ UpdateBlock(cfg')
    BY <1>2 DEF MenuInit, Excusing, devVars, viaVars
  <2>2. Coverage /\ cfg' \in Records
    BY <1>0, <2>1, RestoredType DEF UnracedInv, Running, TypeOK
  <2>3. ASSUME loaded, NEW o \in Offset, eeprom_buf'[o] # flash[o] PROVE Covered(o)'
    <3>1. eeprom_buf[o] # flash[o] => Covered(o)
      BY <2>1, <2>2, <2>3 DEF Coverage, UnderMark
    <3> QED BY <1>0, <2>1, <2>2, <2>3, <3>1, UpdatedCells
  <2> QED BY <2>1, <2>3 DEF Coverage, Marking, Writing, Thread
<1>3. CASE SetValue \/ Save \/ SaveByte \/ Confirm
  BY <1>3, CoverageCommand
<1>4. CASE Stop
  BY <1>4 DEF Stop, Running
<1>5. CASE Work
  BY <1>5, CoverageWork
<1>6. CASE UNCHANGED allVars
  BY <1>6 DEF allVars, vars, devVars, rangeVars, viaVars, UnracedInv, Running, Coverage, Marking,
              UnderMark, PassedAgrees, Covered, Writing
<1>7. CASE Loop(FactoryReset)
  <2>1. via = "idle" /\ via' = "idle" /\ "raced" \notin excused /\ ~Writing("main")'
    BY <1>0, <1>7, ResetCells DEF Raced
  <2>2. Coverage
    BY <1>0, <1>7, <2>1, ResetCells DEF UnracedInv
  <2>3. ASSUME loaded, NEW o \in Offset, eeprom_buf'[o] # flash[o] PROVE Covered(o)'
    <3>1. eeprom_buf[o] # flash[o] => Covered(o)
      BY <2>1, <2>2, <2>3 DEF Coverage, UnderMark
    <3> QED BY <1>0, <1>7, <2>3, <3>1, ResetCells
  <2> QED BY <1>0, <1>7, <2>1, <2>3, ResetCells DEF Coverage, Marking, Writing, Thread
<1> QED BY <1>1, <1>2, <1>3, <1>4, <1>5, <1>6, <1>7, StepCases

-----------------------------------------------------------------------------
(* The invariant, and what it says of the settings.                        *)

LEMMA MenusInvInit == MenusInit => MenusInv
<1> SUFFICES ASSUME MenusInit PROVE MenusInv
  OBVIOUS
<1>1. MenuTypeOK
  BY MenusTypeInit
<1>2. MenuFacts /\ Init /\ menu.value \in Offset /\ ~started /\ ~saved /\ pending = {}
      /\ cfg = [magic |-> Default, value |-> Default]
  BY FactsOfMenu, RecordCells DEF MenusInit, MenuFacts
<1>3. main = "off" /\ via = "idle" /\ flash = [o \in Offset |-> Blank] /\ loaded = FALSE
  BY <1>2 DEF Init
<1>4. MenuPlaces
  BY <1>2, <1>3 DEF MenuPlaces, Writing
<1>5. RecordInv
  <2>1. menu.magic = None => Default \in Cellular
    BY DEF Cellular
  <2>2. flash[menu.value] = Blank /\ Blank \in Cellular
    BY <1>2, <1>3 DEF Cellular
  <2>3. MarkerLast => flash[menu.magic] # menu.mark
    BY <1>2, <1>3, RecordCells DEF MarkerLast, MenuFacts
  <2> QED BY <1>2, <1>3, <2>1, <2>2, <2>3 DEF RecordInv, ValueFirst, Running
<1>6. UnracedInv
  BY <1>2, <1>3 DEF UnracedInv, Running
<1> QED BY <1>1, <1>4, <1>5, <1>6 DEF MenusInv

LEMMA MenusInvStep == MenusInv /\ [MenusNext]_allVars => MenusInv'
BY MenusTypeStep, PlacesStep, RecordStep, UnracedStep DEF MenusInv

LEMMA MenusInvHolds == MenusSpec => []MenusInv
BY MenusInvInit, MenusInvStep, PTL DEF MenusSpec

\* At rest the flash has what the mirror has, unless the threads met.
LEMMA RestSaved ==
  ASSUME MenusInv, main = "loop", via = "idle", loaded, ~dirty, "raced" \notin excused
  PROVE  eeprom_buf = flash
<1>1. Coverage /\ TypeOK
  BY DEF MenusInv, UnracedInv, Running, MenuTypeOK
<1>2. \A o \in Offset : eeprom_buf[o] = flash[o]
  BY <1>1 DEF Coverage, Covered, UnderMark
<1> QED BY <1>1, <1>2 DEF TypeOK

\* A setting that was saved is the one the next boot restores, once nothing is left to
\* write and as long as the main thread was not in the middle of a flush while the VIA
\* thread marked the record (id_custom_save, eeprom_mark, eeprom_flush).
THEOREM MenusKeepSaved == MenusSpec => []KeepsSaved
<1>1. MenusInv => KeepsSaved
  <2> SUFFICES ASSUME MenusInv,
                      started, main = "loop", via = "idle", pending = {}, loaded, ~dirty, saved,
                      excused = {}
               PROVE  Restored(flash) = cfg
    BY DEF KeepsSaved
  <2>1. MenuFacts /\ TypeOK /\ cfg \in Records /\ cfg.magic = menu.mark /\ cfg.value \in menu.valid
    BY FactsOfMenu DEF MenusInv, MenuTypeOK, MenuPlaces, Records
  <2>2. eeprom_buf = flash
    BY RestSaved
  <2>3. \A o \in Cells : flash[o] = Byte(cfg, o)
    BY <2>2 DEF MenusInv, UnracedInv
  <2>4. Read(flash).value = cfg.value /\ Read(flash).magic = cfg.magic
    <3>1. flash[menu.value] = cfg.value /\ (menu.magic # None => flash[menu.magic] = cfg.magic)
      BY <2>1, <2>3, CellsType, ByteOf
    <3>2. menu.magic = None => cfg.magic = Default
      BY <2>1 DEF MenuFacts
    <3> QED BY <3>1, <3>2 DEF Read
  <2>5. Restored(flash) = Read(flash)
    BY <2>1, <2>4 DEF Restored
  <2>6. Read(flash) \in Records
    BY <2>1, ReadType DEF TypeOK
  <2> QED BY <2>1, <2>4, <2>5, <2>6 DEF Records
<1> QED BY <1>1, MenusInvHolds, PTL

\* The setting in force is the default or one the host sent, after any number of torn
\* writes, failed writes, power losses and resets; a record whose marker comes first may
\* have an erased value, and a command before viaPortInit voids the promise.
THEOREM MenusOnlyChosen == MenusSpec => []OnlyChosen
<1>1. MenusInv => OnlyChosen
  <2> SUFFICES ASSUME MenusInv, started, "early" \notin excused
               PROVE  \/ cfg.value = menu.default
                      \/ \E v \in menu.sent : menu.accept[v] = cfg.value
                      \/ cfg.value = Blank /\ Blank \in menu.valid /\ menu.magic < menu.value
    BY DEF OnlyChosen
  <2>1. MenuFacts /\ cfg.value \in menu.valid
    BY FactsOfMenu DEF MenusInv, MenuTypeOK, MenuPlaces
  <2>2. cfg.value \in Cellular /\ (MarkerLast => cfg.value # Blank)
    BY DEF MenusInv, RecordInv, Timely
  <2>3. cfg.value \in Choices \/ cfg.value = Blank
    BY <2>1, <2>2 DEF Cellular, MenuFacts
  <2>4. CASE cfg.value = Blank
    <3>1. menu.magic = First /\ menu.value = Second /\ First < Second
      BY <2>1, <2>2, <2>4, RecordCells DEF MenuFacts
    <3> QED BY <2>1, <2>4, <3>1
  <2>5. CASE cfg.value \in Choices
    BY <2>5 DEF Choices
  <2> QED BY <2>3, <2>4, <2>5
<1> QED BY <1>1, MenusInvHolds, PTL

\* The setting in force is one that "set" lets through, also after a race; the menu whose
\* record is only known by its marker needs a host that waits for viaPortInit.
THEOREM MenusInRange == MenusSpec => []InRange
<1>1. MenusInv => InRange
  <2> SUFFICES ASSUME MenusInv, started, menu.valid \subseteq Accepted \/ "early" \notin excused
               PROVE  cfg.value \in Accepted
    BY DEF InRange
  <2>1. MenuFacts /\ cfg.value \in menu.valid
    BY FactsOfMenu DEF MenusInv, MenuTypeOK, MenuPlaces
  <2>2. CASE menu.valid \subseteq Accepted
    BY <2>1, <2>2
  <2>3. CASE "early" \notin excused /\ MarkerLast
    <3>1. cfg.value \in Choices
      BY <2>1, <2>3, RecordCells DEF MenusInv, RecordInv, Timely, MarkerLast, Cellular
    <3>2. Choices \subseteq Accepted
      BY <2>1 DEF Choices, Accepted, MenuFacts
    <3> QED BY <3>1, <3>2
  <2> QED BY <2>1, <2>2, <2>3 DEF MenuFacts
<1> QED BY <1>1, MenusInvHolds, PTL

\* With nobody in the middle of anything and nothing dirty nothing is unsaved, though two
\* threads use the mirror: an edit can be lost only where they have met.
THEOREM MenusLoseNoEdit == MenusSpec => []("raced" \notin excused => NoLostEdit)
<1>1. MenusInv => ("raced" \notin excused => NoLostEdit)
  BY RestSaved DEF NoLostEdit
<1> QED BY <1>1, MenusInvHolds, PTL
=============================================================================
