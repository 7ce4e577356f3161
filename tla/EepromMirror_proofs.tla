------------------------ MODULE EepromMirror_proofs ------------------------
(***************************************************************************)
(* Type correctness of the mirror whoever uses it, and, when one thread    *)
(* uses it, that no edit is ever forgotten and that it keeps the promise   *)
(* of SettingsStore.                                                       *)
(***************************************************************************)
EXTENDS EepromMirror, TLAPS

LEMMA OffsetIsInt ==
  /\ Offset \subseteq Nat
  /\ Magic \in Offset /\ ViaMagic \in Offset
  /\ \A o \in Offset : o + 1 \in 0 .. Size
  /\ NoWrite \in Writes
BY SizeAssumption DEF Offset, Magic, Writes, NoWrite

LEMMA ZeroIsOffset == 0 \in Offset
BY SizeAssumption DEF Offset

\* Booting from an image of the right type gives a mirror of the right type.
LEMMA BootedType ==
  ASSUME NEW image \in [Offset -> Value]
  PROVE  Booted(image) \in [Offset -> Value]
BY ValueAssumption DEF Booted

-----------------------------------------------------------------------------
\* Every variable keeps its type, with the VIA thread and without it.
LEMMA MarkedType ==
  ASSUME TypeOK, NEW o \in Offset, NEW v \in Value, Marked(o, v)
  PROVE  /\ eeprom_buf' \in [Offset -> Value]
         /\ dirty' \in BOOLEAN /\ settled' \in BOOLEAN
         /\ dirty_min' \in Offset /\ dirty_max' \in Offset
BY DEF Marked, TypeOK

LEMMA BootType == ASSUME TypeOK, Boot PROVE TypeOK'
<1>1. /\ eeprom_buf' \in [Offset -> Value]
      /\ dirty' \in BOOLEAN
      /\ dirty_min' \in Offset /\ dirty_max' \in Offset
  <2> DEFINE image == IF loaded' THEN flash ELSE [o \in Offset |-> Blank]
  <2>1. image \in [Offset -> Value]
    BY ValueAssumption DEF TypeOK
  <2>2. Touched(image) \subseteq Offset
    BY OffsetIsInt DEF Touched, Reinitialised, ViaArea, Offset, Magic
  <2>3. eeprom_buf' = Booted(image) /\ dirty' = (Touched(image) # {})
    BY DEF Boot
  <2>4. /\ dirty_min' \in {0} \cup Touched(image)
        /\ dirty_max' \in {0} \cup Touched(image)
    BY DEF Boot, Lowest, Highest
  <2>5. QED
    BY <2>1, <2>2, <2>3, <2>4, BootedType, OffsetIsInt DEF Magic
<1>2. QED
  BY <1>1 DEF Boot, TypeOK, MainAt, viaVars

LEMMA OpenBlockType ==
  ASSUME TypeOK, NEW t \in Thread, OpenBlock(t)
  PROVE  block' \in [Thread -> Writes]
<1>1. [at |-> dirty_min, last |-> dirty_max] \in Writes
  BY SizeAssumption DEF TypeOK, Writes, Offset
<1>2. QED
  BY <1>1 DEF OpenBlock, TypeOK

LEMMA TypeStep == TypeOK /\ [Next]_vars => TypeOK'
<1> SUFFICES ASSUME TypeOK, [Next]_vars PROVE TypeOK'
  OBVIOUS
<1> USE OffsetIsInt DEF devVars, rangeVars, viaVars
<1>1. CASE Boot
  BY <1>1, BootType
<1>2. CASE PowerLoss \/ PowerOff \/ Reboot
  BY <1>2, ZeroIsOffset DEF PowerLoss, PowerOff, Reboot, Lost, TypeOK, MainAt, ViaAt
<1>3. CASE Settle
  BY <1>3 DEF Settle, TypeOK
<1>4. CASE MainMark
  <2>1. PICK o \in Offset, v \in Value : Marked(o, v)
    BY <1>4 DEF MainMark, Writable
  <2>2. QED
    BY <1>4, <2>1, MarkedType DEF MainMark, TypeOK
<1>5. CASE EepromTask \/ EnterSleep
  <2>1. PICK during \in {"task", "sleep"}, after \in {"check", "down"} :
          EepromUpdate(during, after)
    BY <1>5 DEF EepromTask, EnterSleep
  <2>2. CASE Due /\ ee_ready /\ ~Refused
    <3>1. /\ main' = during
          /\ dirty' = dirty
          /\ block' \in [Thread -> Writes]
      BY <2>1, <2>2, OpenBlockType DEF EepromUpdate, Thread
    <3>2. QED
      BY <2>1, <3>1 DEF EepromUpdate, TypeOK, MainAt
  <2>3. CASE ~(Due /\ ee_ready /\ ~Refused)
    <3>1. /\ main' = after
          /\ dirty' \in BOOLEAN
          /\ block' = block
      BY <2>1, <2>3 DEF EepromUpdate
    <3>2. QED
      BY <2>1, <3>1 DEF EepromUpdate, TypeOK, MainAt
  <2>4. QED
    BY <2>2, <2>3
<1>6. CASE NoRequest
  BY <1>6 DEF NoRequest, TypeOK, MainAt
<1>7. CASE FactoryReset
  BY <1>7, MarkedType, ValueAssumption, ZeroIsOffset DEF FactoryReset, Magic, TypeOK, MainAt
<1>8. ASSUME NEW t \in Thread, Driver(t) PROVE TypeOK'
  <2>1. CASE ProgramCell(t)
    <3>1. block[t].at \in Offset
      <4>1. block[t].at \in 0 .. Size /\ block[t].last \in Offset
        BY DEF TypeOK, Writes
      <4>2. block[t].at <= block[t].last
        BY <2>1 DEF ProgramCell
      <4>3. QED
        BY <4>1, <4>2, SizeAssumption DEF Offset
    <3>2. block' \in [Thread -> Writes]
      BY <2>1, <3>1 DEF ProgramCell, TypeOK, Writes
    <3>3. QED
      BY <2>1, <3>1, <3>2 DEF ProgramCell, TypeOK
  <2>2. CASE WriteDone(t)
    BY <2>2 DEF WriteDone, Return, TypeOK, MainAt, ViaAt, Thread
  <2>3. CASE WriteFailed(t)
    BY <2>3 DEF WriteFailed, Return, TypeOK, MainAt, ViaAt, Thread
  <2>4. QED
    BY <1>8, <2>1, <2>2, <2>3 DEF Driver
<1>9. CASE MarkSteps
  <2> USE DEF ViaRuns, ViaGoes, TypeOK, ViaAt
  <2>1. CASE ViaMark
    BY <2>1, ValueAssumption DEF ViaMark, ViaWritable, Writable
  <2>2. CASE ViaTest \/ ViaRaise \/ ViaStamp
    BY <2>2, ZeroIsOffset DEF ViaTest, ViaRaise, ViaStamp
  <2>3. CASE ViaSet \/ ViaSetMin \/ ViaMin \/ ViaMax
    BY <2>3 DEF ViaSet, ViaSetMin, ViaMin, ViaMax
  <2>4. QED
    BY <1>9, <2>1, <2>2, <2>3 DEF MarkSteps
<1>10. CASE ViaReqClean
  <2>1. /\ via' \in ViaAt
        /\ dirty' \in BOOLEAN
        /\ block' \in [Thread -> Writes]
    <3>1. CASE dirty /\ ee_ready /\ ~Refused
      BY <1>10, <3>1, OpenBlockType DEF ViaReqClean, Thread, ViaAt, TypeOK
    <3>2. CASE ~(dirty /\ ee_ready /\ ~Refused)
      BY <1>10, <3>2 DEF ViaReqClean, ViaAt, TypeOK
    <3>3. QED
      BY <3>1, <3>2
  <2>2. QED
    BY <1>10, <2>1 DEF ViaReqClean, TypeOK
<1>11. CASE ViaRequest
  BY <1>11 DEF ViaRequest, ViaRuns, TypeOK, ViaAt
<1>12. CASE UNCHANGED vars
  BY <1>12 DEF vars, TypeOK
<1>13. QED
  BY <1>1, <1>2, <1>3, <1>4, <1>5, <1>6, <1>7, <1>8, <1>9, <1>10, <1>11, <1>12
     DEF Next, MainSteps, ViaSteps, Thread

\* The variables of eeprom.c and the places of its threads keep their types.
THEOREM TypeCorrect == Spec => []TypeOK
<1>1. Init => TypeOK
  BY OffsetIsInt, ValueAssumption DEF Init, TypeOK, MainAt, ViaAt, Magic
<1>2. QED
  BY <1>1, TypeStep, PTL DEF Spec

-----------------------------------------------------------------------------
(* One context: without the VIA thread, OneContextInv is inductive. The    *)
(* heart of it is the block write, whose passed cells agree with the       *)
(* mirror because nobody marks a cell before it returns.                   *)

\* Everything a boot re-creates differently from the image is in the range.
LEMMA BootCovers ==
  ASSUME TypeOK, Boot
  PROVE  /\ dirty' => dirty_min' <= dirty_max'
         /\ DirtyCovers'
<1> DEFINE image == IF loaded' THEN flash ELSE [o \in Offset |-> Blank]
<1> DEFINE touched == Touched(image)
<1>1. touched \subseteq Offset /\ touched \subseteq Int
  BY SizeAssumption DEF Touched, Reinitialised, ViaArea, Offset
<1>2. /\ eeprom_buf' = Booted(image)
      /\ dirty' = (touched # {})
      /\ dirty_min' \in (IF touched = {} THEN {0} ELSE Lowest(touched))
      /\ dirty_max' \in (IF touched = {} THEN {0} ELSE Highest(touched))
      /\ flash' = flash
  BY DEF Boot
<1>3. \A o \in touched : dirty' /\ dirty_min' <= o /\ o <= dirty_max'
  BY <1>2 DEF Lowest, Highest
<1>4. dirty' => dirty_min' <= dirty_max'
  <2>1. dirty' => dirty_min' \in touched
    BY <1>2 DEF Lowest
  <2>2. QED
    BY <1>3, <2>1
<1>5. ASSUME loaded', NEW o \in Offset, eeprom_buf'[o] # flash[o]
      PROVE  o \in touched
  <2>1. image = flash
    BY <1>5
  <2>2. Booted(image)[o] # image[o]
    BY <1>2, <1>5, <2>1
  <2>3. o \in Reinitialised(image) /\ image[o] # Default
    BY <2>2 DEF Booted
  <2>4. QED
    BY <2>3 DEF Touched
<1>6. DirtyCovers'
  BY <1>2, <1>3, <1>5 DEF DirtyCovers, Covered, Running
<1>7. QED
  BY <1>4, <1>6

\* A mark by the main thread keeps the range around every unsaved cell.
LEMMA MarkCovers ==
  ASSUME OneContextInv, Running, NEW o \in Offset, NEW v \in Value, Marked(o, v),
         UNCHANGED <<flash, loaded>>
  PROVE  /\ dirty' => dirty_min' <= dirty_max'
         /\ \A p \in Offset : loaded /\ eeprom_buf'[p] # flash[p] => Covered(p)'
<1>1. /\ Offset \subseteq Int
      /\ eeprom_buf \in [Offset -> Value]
      /\ dirty_min \in Int /\ dirty_max \in Int
  BY OffsetIsInt DEF OneContextInv, TypeOK
<1>2. dirty' => dirty_min' <= dirty_max'
  BY <1>1 DEF Marked, OneContextInv
<1>3. ASSUME NEW p \in Offset, loaded, eeprom_buf'[p] # flash[p]
      PROVE  Covered(p)'
  <2>1. CASE p = o
    BY <1>1, <2>1 DEF Marked, Covered
  <2>2. CASE p # o
    <3>1. eeprom_buf[p] # flash[p]
      BY <1>1, <1>3, <2>2 DEF Marked
    <3>2. dirty /\ dirty_min <= p /\ p <= dirty_max
      BY <1>3, <3>1 DEF OneContextInv, DirtyCovers, Covered
    <3>3. QED
      BY <1>1, <3>2 DEF Marked, Covered
  <2>3. QED
    BY <2>1, <2>2
<1>4. QED
  BY <1>2, <1>3

LEMMA OneContextStep ==
  ASSUME OneContextInv, [MainSteps]_vars
  PROVE  OneContextInv'
<1> USE DEF devVars, rangeVars, viaVars
<1>0. TypeOK' /\ TypeOK
  BY TypeStep DEF OneContextInv, Next
<1> DEFINE Rest ==
      /\ via = "idle"
      /\ loaded => ee_ready
      /\ dirty => dirty_min <= dirty_max
      /\ DirtyCovers
      /\ BlockCoversRange
<1>a. SUFFICES Rest'
  BY <1>0 DEF OneContextInv
<1>b. Rest
  BY DEF OneContextInv
<1>1. CASE Boot
  <2>1. main' = "loop" /\ via' = via /\ loaded' \in {FALSE, ee_ready'}
    BY <1>1 DEF Boot
  <2>2. loaded' => ee_ready'
    BY <2>1, Zenon
  <2>3. BlockCoversRange'
    BY <2>1 DEF BlockCoversRange, Writing
  <2>4. QED
    BY <1>0, <1>1, <1>b, <2>1, <2>2, <2>3, BootCovers
<1>2. CASE PowerLoss \/ PowerOff \/ Reboot
  BY <1>2, <1>b DEF PowerLoss, PowerOff, Reboot, Lost, DirtyCovers, Running, BlockCoversRange,
                    Writing
<1>3. CASE Settle
  BY <1>3, <1>b DEF Settle, DirtyCovers, Running, Covered, BlockCoversRange, Writing
<1>4. CASE MainMark
  <2>1. PICK o \in Offset, v \in Value : Marked(o, v)
    BY <1>4 DEF MainMark, Writable
  <2>2. Running /\ UNCHANGED <<flash, loaded, ee_ready, via>> /\ main' = "loop"
    BY <1>4 DEF MainMark, Running
  <2>3. QED
    BY <1>b, <2>1, <2>2, MarkCovers DEF DirtyCovers, Running, BlockCoversRange, Writing
<1>5. CASE EepromTask \/ EnterSleep
  <2>1. PICK during \in {"task", "sleep"}, after \in {"check", "down"} :
          EepromUpdate(during, after)
    BY <1>5 DEF EepromTask, EnterSleep
  <2>2. /\ UNCHANGED <<flash, loaded, ee_ready, eeprom_buf, dirty_min, dirty_max, via>>
        /\ main = "loop"
    BY <1>5, <2>1 DEF EepromTask, EnterSleep, EepromUpdate
  <2>3. CASE Due /\ ee_ready /\ ~Refused
    <3>1. dirty /\ dirty' = dirty /\ main' = during
      BY <2>1, <2>3 DEF EepromUpdate, Due
    <3>2. block'["main"] = [at |-> dirty_min, last |-> dirty_max]
      BY <1>0, <2>1, <2>3 DEF EepromUpdate, OpenBlock, TypeOK, Thread
    <3>3. BlockCoversRange'
      BY <1>0, <2>2, <3>1, <3>2, OffsetIsInt DEF BlockCoversRange, TypeOK
    <3>4. DirtyCovers'
      BY <1>b, <2>2, <3>1 DEF DirtyCovers, Covered, Running
    <3>5. QED
      BY <1>b, <2>2, <3>1, <3>3, <3>4
  <2>4. CASE ~(Due /\ ee_ready /\ ~Refused)
    <3>1. /\ main' = after
          /\ dirty' = (dirty /\ ~(Due /\ ~ee_ready))
      BY <2>1, <2>4 DEF EepromUpdate
    <3>2. loaded => dirty' = dirty
      BY <1>0, <1>b, <3>1 DEF TypeOK
    <3>3. DirtyCovers'
      BY <1>b, <2>2, <3>1, <3>2 DEF DirtyCovers, Covered, Running
    <3>4. BlockCoversRange'
      BY <3>1 DEF BlockCoversRange, Writing
    <3>5. dirty' => dirty
      BY <3>1
    <3>6. QED
      BY <1>b, <2>2, <3>3, <3>4, <3>5
  <2>5. QED
    BY <2>3, <2>4
<1>6. CASE NoRequest
  BY <1>6, <1>b DEF NoRequest, DirtyCovers, Running, Covered, BlockCoversRange, Writing
<1>7. CASE FactoryReset
  <2>1. /\ Running /\ main' = "reset" /\ via' = "idle"
        /\ UNCHANGED <<flash, loaded, ee_ready>>
    BY <1>7, <1>b DEF FactoryReset, Running
  <2>2. BlockCoversRange'
    BY <2>1 DEF BlockCoversRange, Writing
  <2>3. CASE Marked(Magic, Blank)
    BY <1>b, <2>1, <2>2, <2>3, MarkCovers, ZeroIsOffset, ValueAssumption
       DEF DirtyCovers, Running, Magic
  <2>4. CASE UNCHANGED <<eeprom_buf, rangeVars, settled>>
    BY <1>b, <2>1, <2>2, <2>4 DEF DirtyCovers, Running, Covered
  <2>5. QED
    BY <1>7, <2>3, <2>4 DEF FactoryReset
<1>8. ASSUME NEW t \in Thread, Driver(t) PROVE Rest'
  <2>1. t = "main" /\ Writing("main")
    BY <1>8, <1>b DEF Driver, ProgramCell, WriteDone, WriteFailed, Writing, Thread
  <2>2. /\ dirty
        /\ dirty_min <= block["main"].at /\ block["main"].last = dirty_max
        /\ \A o \in Offset :
              dirty_min <= o /\ o < block["main"].at => flash[o] = eeprom_buf[o]
    BY <1>b, <2>1 DEF BlockCoversRange
  <2>3. CASE ProgramCell("main")
    <3>1. PICK c \in Int : c = block["main"].at /\ c \in Offset
      <4>1. block["main"].at \in 0 .. Size /\ block["main"].last \in Offset
        BY <1>0 DEF TypeOK, Writes, Thread
      <4>2. block["main"].at <= block["main"].last
        BY <2>3 DEF ProgramCell
      <4>3. QED
        BY <4>1, <4>2, SizeAssumption DEF Offset
    <3>2. /\ flash' = [flash EXCEPT ![c] = eeprom_buf[c]]
          /\ block'["main"].at = c + 1 /\ block'["main"].last = dirty_max
          /\ UNCHANGED <<loaded, ee_ready, eeprom_buf, dirty, dirty_min, dirty_max,
                         main, via>>
      BY <1>0, <2>2, <2>3, <3>1 DEF ProgramCell, TypeOK, Thread, Writes
    <3>3. \A o \in Offset : flash'[o] = (IF o = c THEN eeprom_buf[c] ELSE flash[o])
      BY <1>0, <3>2 DEF TypeOK
    <3>4. DirtyCovers'
      BY <1>b, <3>2, <3>3 DEF DirtyCovers, Covered, Running
    <3>5. BlockCoversRange'
      BY <1>0, <2>2, <3>1, <3>2, <3>3, OffsetIsInt DEF BlockCoversRange, TypeOK
    <3>6. QED
      BY <1>b, <3>2, <3>4, <3>5
  <2>4. CASE WriteDone("main")
    <3>1. /\ ~dirty'
          /\ dirty_max < block["main"].at
          /\ main' \in {"check", "down"}
          /\ UNCHANGED <<flash, loaded, ee_ready, eeprom_buf, via>>
      BY <2>1, <2>2, <2>4, <1>0, OffsetIsInt, SizeAssumption
         DEF WriteDone, Return, Writing, TypeOK, Writes, Thread
    <3>2. DirtyCovers'
      <4>1. ASSUME NEW o \in Offset, loaded PROVE eeprom_buf[o] = flash[o]
        <5>1. CASE dirty_min <= o /\ o <= dirty_max
          <6>1. o \in Int /\ dirty_max \in Int /\ block["main"].at \in Int
            BY <1>0, OffsetIsInt, SizeAssumption DEF TypeOK, Writes, Thread
          <6>2. o < block["main"].at
            BY <3>1, <5>1, <6>1
          <6>3. QED
            BY <2>2, <5>1, <6>2
        <5>2. CASE ~(dirty_min <= o /\ o <= dirty_max)
          BY <1>b, <2>1, <4>1, <5>2 DEF DirtyCovers, Covered, Running, Writing
        <5>3. QED
          BY <5>1, <5>2
      <4>2. QED
        BY <3>1, <4>1 DEF DirtyCovers
    <3>3. QED
      BY <1>b, <3>1, <3>2 DEF BlockCoversRange, Writing
  <2>5. CASE WriteFailed("main")
    <3>1. /\ main' \in {"check", "down"}
          /\ UNCHANGED <<flash, loaded, ee_ready, eeprom_buf, dirty, dirty_min, dirty_max,
                         via>>
      BY <2>5 DEF WriteFailed, Return
    <3>2. DirtyCovers'
      BY <1>b, <2>1, <3>1 DEF DirtyCovers, Covered, Running, Writing
    <3>3. QED
      BY <1>b, <3>1, <3>2 DEF BlockCoversRange, Writing
  <2>6. QED
    BY <1>8, <2>1, <2>3, <2>4, <2>5 DEF Driver
<1>10. CASE UNCHANGED vars
  BY <1>10, <1>b DEF vars, DirtyCovers, Running, Covered, BlockCoversRange, Writing
<1>11. QED
  BY <1>1, <1>2, <1>3, <1>4, <1>5, <1>6, <1>7, <1>8, <1>10 DEF MainSteps, Thread

\* Used from one context, OneContextInv holds in every reachable state: a block
\* write never ends with a changed cell behind it (eeprom_mark, eeprom_flush).
THEOREM OneContextInductive ==
  OneContext => []OneContextInv
<1>1. Init => OneContextInv
  <2>1. Init => TypeOK
    BY OffsetIsInt, ValueAssumption DEF Init, TypeOK, MainAt, ViaAt, Magic
  <2>2. QED
    BY <2>1 DEF Init, OneContextInv, DirtyCovers, Running, BlockCoversRange, Writing
<1>2. OneContextInv /\ [MainSteps]_vars => OneContextInv'
  BY OneContextStep
<1>3. QED
  BY <1>1, <1>2, PTL DEF OneContext

\* Used from one context, the mirror forgets no edit: whatever the flash does
\* not hold yet is in the range the next flush writes, for any size of the
\* settings area, any order of edits, flushes, failed writes and power losses.
THEOREM NothingForgotten ==
  OneContext => []DirtyCovers
<1>1. OneContextInv => DirtyCovers
  BY DEF OneContextInv
<1>2. QED
  BY <1>1, OneContextInductive, PTL

-----------------------------------------------------------------------------
(* The refinement: every step of the mirror is a step of the store, or     *)
(* changes nothing the store shows.                                        *)

\* While the firmware runs and says that all is saved, the flash is the mirror.
LEMMA SavedMeansEqual ==
  ASSUME TypeOK, DirtyCovers, Running, loaded, ~dirty
  PROVE  eeprom_buf = flash
<1>1. \A o \in Offset : eeprom_buf[o] = flash[o]
  BY DEF DirtyCovers, Covered
<1>2. QED
  BY <1>1 DEF TypeOK

LEMMA StoreStep ==
  ASSUME OneContextInv, OneContextInv', [MainSteps]_vars
  PROVE  [Store!Next]_(Store!svars)
<1> USE DEF devVars, rangeVars, viaVars
<1>0. TypeOK /\ TypeOK' /\ DirtyCovers /\ DirtyCovers'
  BY DEF OneContextInv
<1>s. ASSUME Running' PROVE (loaded /\ ~dirty)' => eeprom_buf' = flash'
  <2>1. ASSUME loaded', ~dirty' PROVE eeprom_buf' = flash'
    <3>1. \A o \in Offset : eeprom_buf'[o] = flash'[o]
      BY <1>0, <1>s, <2>1 DEF DirtyCovers, Covered
    <3>2. QED
      BY <1>0, <3>1 DEF TypeOK
  <2>2. QED
    BY <2>1
<1>1. CASE Boot
  <2> DEFINE image == IF loaded' THEN flash ELSE [o \in Offset |-> Blank]
  <2>1. eeprom_buf' = Booted(image) /\ flash' = flash /\ ~Running /\ Running'
    BY <1>1 DEF Boot, Running
  <2>2. eeprom_buf' \in {Booted(flash), Booted([o \in Offset |-> Blank])}
    BY <2>1
  <2>3. Store!Start
    BY <1>0, <1>s, <2>1, <2>2 DEF Store!Start, TypeOK
  <2>4. QED
    BY <2>3 DEF Store!Next
<1>2. CASE PowerLoss \/ PowerOff \/ Reboot
  <2>1. Store!Stop
    BY <1>2 DEF PowerLoss, PowerOff, Reboot, Lost, Running, Store!Stop
  <2>2. QED
    BY <2>1 DEF Store!Next
<1>3. CASE Settle
  BY <1>3 DEF Settle, Running, Store!svars
<1>4. CASE MainMark
  <2>1. PICK o \in Offset, v \in Value : Marked(o, v)
    BY <1>4 DEF MainMark, Writable
  <2>2. Running /\ Running' /\ flash' = flash
    BY <1>4 DEF MainMark, Running
  <2>3. Store!Edit
    BY <1>s, <2>1, <2>2 DEF Marked, Store!Edit
  <2>4. QED
    BY <2>3 DEF Store!Next
<1>5. CASE EepromTask \/ EnterSleep
  <2>1. PICK during \in {"task", "sleep"}, after \in {"check", "down"} :
          EepromUpdate(during, after)
    BY <1>5 DEF EepromTask, EnterSleep
  <2>2. /\ Running /\ Running' /\ UNCHANGED <<flash, loaded, eeprom_buf>>
    BY <1>5, <2>1 DEF EepromTask, EnterSleep, EepromUpdate, Running
  <2>3. Store!Persist
    BY <1>0, <1>s, <2>2 DEF Store!Persist, TypeOK
  <2>4. QED
    BY <2>3 DEF Store!Next
<1>6. CASE NoRequest
  BY <1>6 DEF NoRequest, Running, Store!svars
<1>7. CASE FactoryReset
  <2>1. Running /\ Running' /\ UNCHANGED <<flash, loaded>>
    BY <1>7 DEF FactoryReset, Running
  <2>2. CASE Marked(Magic, Blank)
    <3>1. Store!Edit
      BY <1>s, <2>1, <2>2, ZeroIsOffset, ValueAssumption DEF Marked, Magic, Store!Edit
    <3>2. QED
      BY <3>1 DEF Store!Next
  <2>3. CASE UNCHANGED <<eeprom_buf, rangeVars, settled>>
    BY <2>1, <2>3 DEF Store!svars
  <2>4. QED
    BY <1>7, <2>2, <2>3 DEF FactoryReset
<1>8. ASSUME NEW t \in Thread, Driver(t) PROVE Store!Next
  <2>1. t = "main" /\ main \in {"task", "sleep"}
    BY <1>8 DEF OneContextInv, Driver, ProgramCell, WriteDone, WriteFailed, Writing, Thread
  <2>2. /\ Running /\ Running' /\ UNCHANGED eeprom_buf
        /\ \A c \in Offset : flash'[c] \in {flash[c], eeprom_buf[c]}
    <3>1. CASE ProgramCell("main")
      BY <1>0, <2>1, <3>1 DEF ProgramCell, TypeOK, Running
    <3>2. CASE WriteDone("main") \/ WriteFailed("main")
      BY <2>1, <3>2 DEF WriteDone, WriteFailed, Return, Running
    <3>3. QED
      BY <1>8, <2>1, <3>1, <3>2 DEF Driver
  <2>3. Store!Persist
    BY <1>0, <1>s, <2>2 DEF Store!Persist, TypeOK
  <2>4. QED
    BY <2>3 DEF Store!Next
<1>10. CASE UNCHANGED vars
  BY <1>10 DEF vars, Running, Store!svars
<1>11. QED
  BY <1>1, <1>2, <1>3, <1>4, <1>5, <1>6, <1>7, <1>8, <1>10 DEF MainSteps, Thread

\* Used from one context, the mirror implements SettingsStore: what it reports
\* as saved survives the loss of power at any moment, for every size.
THEOREM MirrorImplementsStore ==
  OneContext => StoreSpec
<1>1. Init => Store!Init
  BY ValueAssumption DEF Init, Running, Store!Init
<1>2. OneContextInv /\ OneContextInv' /\ [MainSteps]_vars => [Store!Next]_(Store!svars)
  BY StoreStep
<1>3. QED
  BY <1>1, <1>2, OneContextInductive, PTL DEF OneContext, StoreSpec, Store!Spec
=============================================================================
