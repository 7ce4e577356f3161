-------------------------- MODULE Tapping_proofs --------------------------
(***************************************************************************)
(* Type correctness of Tapping, for every set of keys, layers and keymaps. *)
(* Operators of KeyActions keep the keyboard a Keyboard (one lemma each,   *)
(* in the order of their definitions); the branches of process_tapping     *)
(* reach the state only through Done and Kept, so that each branch is      *)
(* shown to hand them a keyboard, a record and a buffer.                   *)
(***************************************************************************)
EXTENDS Tapping, TLAPS

LEMMA LayerOnType == ASSUME NEW b \in Keyboard, NEW l \in Layer PROVE LayerOn(b, l) \in Keyboard
  BY DEF LayerOn, Keyboard

LEMMA LayerOffType == ASSUME NEW b \in Keyboard, NEW l \in Layer PROVE LayerOff(b, l) \in Keyboard
  BY DEF LayerOff, Keyboard

LEMMA LayerInvertType ==
  ASSUME NEW b \in Keyboard, NEW l \in Layer PROVE LayerInvert(b, l) \in Keyboard
  BY LayerOnType, LayerOffType DEF LayerInvert

LEMMA LayerMoveType ==
  ASSUME NEW b \in Keyboard, NEW l \in Layer PROVE LayerMove(b, l) \in Keyboard
  BY DEF LayerMove, Keyboard

LEMMA SourceLayerType ==
  ASSUME NEW b \in Keyboard, NEW k \in Key PROVE SourceLayer(b, k) \in Layer
<1>1. Answering(b, k) \in SUBSET Layer
  BY LayerAssumption DEF Answering, Keyboard
<1>2. Answering(b, k) # {}
  BY DEF Answering
<1>3. \E l \in Answering(b, k) : \A n \in Answering(b, k) : n <= l
  BY <1>1, <1>2, LayerAssumption
<1>4. SourceLayer(b, k) \in Answering(b, k)
  BY <1>3 DEF SourceLayer
<1> QED BY <1>1, <1>4

LEMMA KeyActionOfMap ==
  ASSUME NEW b \in Keyboard, NEW l \in Layer, NEW k \in Key PROVE b.keymap[l][k] \in Action
  BY DEF Keyboard

LEMMA LayerActionType ==
  ASSUME NEW b \in Keyboard, NEW k \in Key PROVE LayerAction(b, k) \in Action
  BY SourceLayerType, KeyActionOfMap DEF LayerAction

LEMMA CachedType == ASSUME NEW b \in Keyboard, NEW k \in Key PROVE Cached(b, k) \in Keyboard
  BY SourceLayerType DEF Cached, Keyboard

LEMMA CachedActionType ==
  ASSUME NEW b \in Keyboard, NEW k \in Key PROVE CachedAction(b, k) \in Action
<1>1. b.cache[k] \in Layer
  BY DEF Keyboard
<1> QED BY <1>1, KeyActionOfMap DEF CachedAction

LEMMA ReportedType == ASSUME NEW b \in Keyboard PROVE Reported(b) \in Keyboard
  BY DEF Reported, Keyboard

LEMMA RegisterModsType ==
  ASSUME NEW b \in Keyboard, NEW mods \in SUBSET Mod
  PROVE  /\ RegisterMods(b, mods) \in Keyboard /\ UnregisterMods(b, mods) \in Keyboard
         /\ AddWeakMods(b, mods) \in Keyboard /\ DelWeakMods(b, mods) \in Keyboard
<1>1. /\ [b EXCEPT !.real = @ \cup mods] \in Keyboard /\ [b EXCEPT !.real = @ \ mods] \in Keyboard
      /\ [b EXCEPT !.weak = @ \cup mods] \in Keyboard /\ [b EXCEPT !.weak = @ \ mods] \in Keyboard
  BY DEF Keyboard
<1> QED BY <1>1, ReportedType DEF RegisterMods, UnregisterMods, AddWeakMods, DelWeakMods

LEMMA RegisterCodeType ==
  ASSUME NEW b \in Keyboard, NEW c
  PROVE  RegisterCode(b, c) \in Keyboard /\ UnregisterCode(b, c) \in Keyboard
<1>1. CASE c \in Code
  <2>1. [b EXCEPT !.keys = @ \cup {c}] \in Keyboard /\ [b EXCEPT !.keys = @ \ {c}] \in Keyboard
    BY <1>1 DEF Keyboard
  <2>2. /\ Reported([b EXCEPT !.keys = @ \cup {c}]) \in Keyboard
        /\ Reported([b EXCEPT !.keys = @ \ {c}]) \in Keyboard
    BY <2>1, ReportedType
  <2>3. /\ RegisterCode(b, c) = Reported([b EXCEPT !.keys = @ \cup {c}])
        /\ UnregisterCode(b, c) = Reported([b EXCEPT !.keys = @ \ {c}])
    BY <1>1, CodeAssumption DEF RegisterCode, UnregisterCode
  <2> QED BY <2>2, <2>3
<1>2. CASE c \notin Code /\ c \in Mod
  BY <1>2, RegisterModsType DEF RegisterCode, UnregisterCode
<1>3. CASE c \notin Code \cup Mod
  BY <1>3 DEF RegisterCode, UnregisterCode
<1> QED BY <1>1, <1>2, <1>3

LEMMA ClearsType ==
  ASSUME NEW b \in Keyboard
  PROVE  ClearKeyboard(b) \in Keyboard /\ ClearWeakMods(b) \in Keyboard
  BY DEF ClearKeyboard, ClearWeakMods, Keyboard

LEMMA OneshotLayerTypes ==
  ASSUME NEW b \in Keyboard, NEW bit, NEW l \in Layer
  PROVE  ClearOneshotLayer(b, bit) \in Keyboard /\ SetOneshotLayer(b, l) \in Keyboard
<1>1. b.osl_layer \in Layer
  BY DEF Keyboard
<1>2. LayerOff(b, b.osl_layer) \in Keyboard /\ LayerOn(b, l) \in Keyboard
  BY <1>1, LayerOffType, LayerOnType
<1>3. /\ [LayerOff(b, b.osl_layer) EXCEPT !.osl = {}, !.osl_layer = 0] \in Keyboard
      /\ [b EXCEPT !.osl = @ \ {bit}] \in Keyboard
      /\ [LayerOn(b, l) EXCEPT !.osl = {"pressed", "other"}, !.osl_layer = l] \in Keyboard
  BY <1>2, LayerAssumption DEF Keyboard
<1> QED BY <1>3 DEF ClearOneshotLayer, SetOneshotLayer

LEMMA ActionParts ==
  ASSUME NEW a \in Action PROVE a.mods \in SUBSET Mod /\ a.layer \in Layer
  BY DEF Action

LEMMA KeyActionType ==
  ASSUME NEW b \in Keyboard, NEW a \in Action, NEW pressed \in BOOLEAN
  PROVE  KeyAction(b, a, pressed) \in Keyboard
  BY ActionParts, RegisterModsType, RegisterCodeType DEF KeyAction

LEMMA OneshotModType ==
  ASSUME NEW b \in Keyboard, NEW a \in Action, NEW pressed \in BOOLEAN, NEW count
  PROVE  OneshotMod(b, a, pressed, count) \in Keyboard
<1>1. UnregisterMods(b, a.mods) \in Keyboard /\ RegisterMods(b, a.mods) \in Keyboard
  BY ActionParts, RegisterModsType
<1>2. /\ [UnregisterMods(b, a.mods) EXCEPT !.oneshot = @ \ a.mods] \in Keyboard
      /\ [b EXCEPT !.oneshot = @ \cup a.mods] \in Keyboard
  BY <1>1, ActionParts DEF Keyboard
<1> QED BY <1>1, <1>2 DEF OneshotMod

LEMMA LayerKindsType ==
  ASSUME NEW b \in Keyboard, NEW a \in Action, NEW pressed \in BOOLEAN, NEW count
  PROVE  /\ ModTap(b, a, pressed, count) \in Keyboard
         /\ LayerTap(b, a, pressed, count) \in Keyboard
         /\ TapToggle(b, a, pressed, count) \in Keyboard
         /\ OneshotLayer(b, a, pressed, count) \in Keyboard
         /\ LayerMod(b, a, pressed) \in Keyboard
<1>1. ModTap(b, a, pressed, count) \in Keyboard
  BY ActionParts, RegisterModsType, RegisterCodeType DEF ModTap
<1>2. LayerTap(b, a, pressed, count) \in Keyboard
  BY ActionParts, LayerOnType, LayerOffType, RegisterCodeType DEF LayerTap
<1>3. TapToggle(b, a, pressed, count) \in Keyboard
  BY ActionParts, LayerInvertType DEF TapToggle
<1>4. OneshotLayer(b, a, pressed, count) \in Keyboard
  <2>1. ClearOneshotLayer(b, "pressed") \in Keyboard /\ SetOneshotLayer(b, a.layer) \in Keyboard
    BY ActionParts, OneshotLayerTypes
  <2>2. ClearOneshotLayer(ClearOneshotLayer(b, "pressed"), "other") \in Keyboard
    BY <2>1, ActionParts, OneshotLayerTypes
  <2> QED BY <2>1, <2>2 DEF OneshotLayer
<1>5. LayerMod(b, a, pressed) \in Keyboard
  <2>1. RegisterMods(LayerOn(b, a.layer), a.mods) \in Keyboard
    BY ActionParts, LayerOnType, RegisterModsType
  <2>2. LayerOff(UnregisterMods(b, a.mods), a.layer) \in Keyboard
    BY ActionParts, LayerOffType, RegisterModsType
  <2> QED BY <2>1, <2>2 DEF LayerMod
<1> QED BY <1>1, <1>2, <1>3, <1>4, <1>5

LEMMA ActedType ==
  ASSUME NEW b \in Keyboard, NEW a \in Action, NEW pressed \in BOOLEAN, NEW count
  PROVE  Acted(b, a, pressed, count) \in Keyboard
<1>1. /\ LayerOn(b, a.layer) \in Keyboard /\ LayerOff(b, a.layer) \in Keyboard
      /\ LayerInvert(b, a.layer) \in Keyboard /\ LayerMove(b, a.layer) \in Keyboard
  BY ActionParts, LayerOnType, LayerOffType, LayerInvertType, LayerMoveType
<1>2. KeyAction(b, a, pressed) \in Keyboard /\ OneshotMod(b, a, pressed, count) \in Keyboard
  BY KeyActionType, OneshotModType
<1> QED BY <1>1, <1>2, LayerKindsType DEF Acted

LEMMA RecordParts ==
  ASSUME NEW r \in Record, IsEvent(r) PROVE r.key \in Key /\ r.pressed \in BOOLEAN
  BY DEF Record, IsEvent

LEMMA PressProcessedType ==
  ASSUME NEW b \in Keyboard, NEW r \in Record, IsEvent(r)
  PROVE  PressProcessed(b, r) \in Keyboard
<1> DEFINE a == LayerAction(b, r.key)
           ended == IF b.osl # {} /\ EndsOneshot(a, r.count)
                      THEN ClearOneshotLayer(Cached(b, r.key), "other") ELSE Cached(b, r.key)
           acted == Acted(ended, a, TRUE, r.count)
<1>1. a \in Action
  BY RecordParts, LayerActionType
<1>2. ended \in Keyboard
  BY RecordParts, CachedType, OneshotLayerTypes, LayerAssumption
<1>3. acted \in Keyboard
  BY <1>1, <1>2, ActedType
<1>4. LayerOn(acted, 0) \in Keyboard
  BY <1>3, LayerOnType, LayerAssumption
<1>5. Acted(LayerOn(acted, 0), a, FALSE, r.count) \in Keyboard
  BY <1>1, <1>4, ActedType
<1>6. LayerOff(Acted(LayerOn(acted, 0), a, FALSE, r.count), 0) \in Keyboard
  BY <1>5, LayerOffType, LayerAssumption
<1> QED BY <1>3, <1>6 DEF PressProcessed

LEMMA AsProcessedType ==
  ASSUME NEW b, NEW r \in Record PROVE AsProcessed(b, r) \in Record
<1>1. (r.pressed /\ ~ReleasedAtOnce(b, r)) \in BOOLEAN
  OBVIOUS
<1> QED BY <1>1 DEF AsProcessed, Record

\* process_record keeps the keyboard a Keyboard, for any record of a key.
LEMMA ProcessedType ==
  ASSUME NEW b \in Keyboard, NEW r \in Record, IsEvent(r)
  PROVE  Processed(b, r) \in Keyboard
<1>1. ReleaseProcessed(b, r) \in Keyboard
  BY RecordParts, CachedActionType, ActedType DEF ReleaseProcessed
<1>2. ASSUME NEW done \in Keyboard
      PROVE  [done EXCEPT !.acting = IF AsProcessed(b, r).pressed
                                       THEN @ \cup {r.key} ELSE @ \ {r.key}] \in Keyboard
  <2>1. r.key \in Key
    BY RecordParts
  <2>2. /\ [done EXCEPT !.acting = @ \cup {r.key}] \in Keyboard
        /\ [done EXCEPT !.acting = @ \ {r.key}] \in Keyboard
    BY <2>1 DEF Keyboard
  <2> QED BY <2>2
<1>3. CASE r.pressed
  BY <1>2, <1>3, PressProcessedType DEF Processed
<1>4. CASE ~r.pressed
  BY <1>1, <1>2, <1>4 DEF Processed
<1> QED BY <1>3, <1>4

-----------------------------------------------------------------------------
(* Records and the buffer.                                                 *)

LEMMA NoRecordType == NoRecord \in Record /\ ~IsEvent(NoRecord)
  BY TermAssumption, CountAssumption DEF NoRecord, Record, IsEvent

LEMMA KeyEventType ==
  ASSUME NEW k \in Key, NEW pressed \in BOOLEAN
  PROVE  KeyEvent(k, pressed) \in Record /\ IsEvent(KeyEvent(k, pressed))
<1>1. KeyEvent(k, pressed) \in Record
  BY NoRecordType, NoneAssumption DEF KeyEvent, Record
<1>2. KeyEvent(k, pressed).key = k
  BY NoRecordType DEF KeyEvent, Record
<1> QED BY <1>1, <1>2, NoneAssumption DEF IsEvent

LEMMA WithTapType ==
  ASSUME NEW r \in Record, NEW tap \in Record PROVE WithTap(r, tap) \in Record
  BY DEF WithTap, Record

LEMMA CountedType ==
  ASSUME NEW r \in Record
  PROVE  /\ [r EXCEPT !.count = 1] \in Record
         /\ [r EXCEPT !.count = IF @ < MaxCount THEN @ + 1 ELSE @] \in Record
         /\ [r EXCEPT !.interrupted = TRUE] \in Record
         /\ [r EXCEPT !.pressed = FALSE] \in Record
<1>1. (IF r.count < MaxCount THEN r.count + 1 ELSE r.count) \in 0 .. MaxCount
  BY CountAssumption DEF Record
<1>2. [r EXCEPT !.count = IF @ < MaxCount THEN @ + 1 ELSE @] \in Record
  BY <1>1 DEF Record
<1>3. 1 \in 0 .. MaxCount
  BY CountAssumption
<1>4. [r EXCEPT !.count = 1] \in Record
  BY <1>3 DEF Record
<1>5. [r EXCEPT !.interrupted = TRUE] \in Record
  BY DEF Record
<1>6. [r EXCEPT !.pressed = FALSE] \in Record
  BY DEF Record
<1> QED BY <1>2, <1>4, <1>5, <1>6

LEMMA SameKey ==
  ASSUME NEW r \in Record
  PROVE  /\ [r EXCEPT !.count = 1].key = r.key
         /\ [r EXCEPT !.interrupted = TRUE].key = r.key
         /\ [r EXCEPT !.pressed = FALSE].key = r.key
         /\ \A tap \in Record : WithTap(r, tap).key = r.key
         /\ \A c : [r EXCEPT !.count = c].key = r.key
  BY DEF Record, WithTap

LEMMA AgedType == ASSUME NEW r \in Record PROVE Aged(r) \in Record
<1>1. (r.ago + 1) % Wrap \in 0 .. Wrap - 1
  BY TermAssumption DEF Record
<1> QED BY <1>1 DEF Aged, Record

\* What ProcessTapping does besides its branch.
Frame ==
  /\ phase # "idle" /\ event' = NoRecord /\ settled' \in BOOLEAN
  /\ UNCHANGED <<hold_okp, down, changed>>

LEMMA RecType == ASSUME TappingTypeOK, phase # "idle" PROVE Rec \in Record
<1>1. CASE phase = "drain"
  BY <1>1 DEF Rec, TappingTypeOK
<1>2. CASE phase # "drain"
  BY <1>2 DEF Rec, TappingTypeOK
<1> QED BY <1>1, <1>2

LEMMA DoneType ==
  ASSUME TappingTypeOK, Frame, NEW k \in Keyboard, NEW tap \in Record, NEW buffer \in Seq(Record),
         Len(buffer) = Len(waiting), Done(k, tap, buffer)
  PROVE  TappingTypeOK'
<1>1. phase = "drain" => buffer # <<>>
  BY DEF TappingTypeOK
<1>2. waiting' \in Seq(Record) /\ Len(waiting') < BufferSize
  <2>1. CASE phase = "drain"
    <3>1. Tail(buffer) \in Seq(Record) /\ Len(Tail(buffer)) = Len(buffer) - 1
      BY <1>1, <2>1
    <3>2. Len(buffer) \in Nat /\ BufferSize \in Nat
      BY TermAssumption
    <3>3. waiting' = Tail(buffer)
      BY <2>1 DEF Done
    <3> QED BY <3>1, <3>2, <3>3 DEF TappingTypeOK
  <2>2. CASE phase # "drain"
    <3>1. waiting' = buffer
      BY <2>2 DEF Done
    <3> QED BY <3>1 DEF TappingTypeOK
  <2> QED BY <2>1, <2>2
<1>3. phase' \in {"idle", "drain"} /\ (phase' = "drain" => waiting' # <<>>)
  BY DEF Done
<1>4. excused' \subseteq {"overflow", "again", "overtaken", "unscanned", "replaced"}
  BY DEF Done, Replaced, Unscanned, TappingTypeOK
<1>5. kb' \in Keyboard /\ tapping' \in Record
  BY DEF Done
<1>6. event' \in Record /\ hold_okp' \in HoldSettings /\ settled' \in BOOLEAN
      /\ down' \subseteq Key /\ changed' \subseteq Key
  BY NoRecordType DEF Frame, TappingTypeOK
<1> QED BY <1>2, <1>3, <1>4, <1>5, <1>6 DEF TappingTypeOK

LEMMA KeptType ==
  ASSUME TappingTypeOK, Frame, NEW k \in Keyboard, NEW tap \in Record, NEW r \in Record,
         Kept(k, tap, r)
  PROVE  TappingTypeOK'
<1>1. event' \in Record /\ hold_okp' \in HoldSettings /\ settled' \in BOOLEAN
      /\ down' \subseteq Key /\ changed' \subseteq Key
  BY NoRecordType DEF Frame, TappingTypeOK
<1>2. BufferSize \in Nat /\ BufferSize > 1 /\ Len(waiting) \in Nat
  BY TermAssumption DEF TappingTypeOK
<1>3. CASE phase = "drain"
  <2>1. /\ kb' = k /\ tapping' = tap /\ waiting' = [waiting EXCEPT ![1] = r]
        /\ phase' = "idle" /\ excused' = excused \cup Replaced(k)
    BY <1>3 DEF Kept
  <2>2. waiting \in Seq(Record) /\ 1 \in 1 .. Len(waiting)
    BY <1>3 DEF TappingTypeOK
  <2>3. waiting' \in Seq(Record) /\ Len(waiting') = Len(waiting)
    BY <2>1, <2>2
  <2> QED BY <1>1, <2>1, <2>3 DEF TappingTypeOK, Replaced
<1>4. CASE phase = "event" /\ ~IsEvent(r)
  <2>1. /\ kb' = k /\ tapping' = tap /\ waiting' = waiting /\ excused' = excused \cup Replaced(k)
        /\ phase' \in {"idle", "drain"} /\ (phase' = "drain" => waiting # <<>>)
    BY <1>4 DEF Kept
  <2> QED BY <1>1, <2>1 DEF TappingTypeOK, Replaced
<1>5. CASE phase = "event" /\ IsEvent(r) /\ ~Full
  <2>1. /\ kb' = k /\ tapping' = tap /\ waiting' = Append(waiting, r)
        /\ phase' = "drain" /\ excused' = excused \cup Replaced(k)
    BY <1>5 DEF Kept
  <2>2. waiting' \in Seq(Record) /\ Len(waiting') = Len(waiting) + 1 /\ waiting' # <<>>
    BY <2>1 DEF TappingTypeOK
  <2>3. Len(waiting') < BufferSize
    BY <1>2, <1>5, <2>2 DEF Full, TappingTypeOK
  <2> QED BY <1>1, <2>1, <2>2, <2>3 DEF TappingTypeOK, Replaced
<1>6. CASE phase = "event" /\ IsEvent(r) /\ Full
  <2>1. /\ kb' = ClearKeyboard(k) /\ tapping' = NoRecord /\ waiting' = <<>>
        /\ phase' = "idle" /\ excused' = excused \cup {"overflow"}
    BY <1>6 DEF Kept
  <2>2. kb' \in Keyboard /\ tapping' \in Record
    BY <2>1, ClearsType, NoRecordType
  <2>3. waiting' \in Seq(Record) /\ Len(waiting') = 0
    BY <2>1
  <2> QED BY <1>1, <1>2, <2>1, <2>2, <2>3 DEF TappingTypeOK
<1> QED BY <1>3, <1>4, <1>5, <1>6 DEF Kept

\* The buffer with a tap noted in one of its records.
LEMMA NotedType ==
  ASSUME TappingTypeOK, NEW i \in 1 .. Len(waiting)
  PROVE  /\ [waiting EXCEPT ![i].count = 1] \in Seq(Record)
         /\ Len([waiting EXCEPT ![i].count = 1]) = Len(waiting)
<1>1. waiting \in Seq(Record) /\ waiting[i] \in Record
  BY DEF TappingTypeOK
<1>2. [waiting[i] EXCEPT !.count = 1] \in Record
  BY <1>1, CountedType
<1>3. ASSUME NEW w \in Record
      PROVE  [waiting EXCEPT ![i] = w] \in Seq(Record)
              /\ Len([waiting EXCEPT ![i] = w]) = Len(waiting)
  BY <1>1
<1>4. [waiting EXCEPT ![i].count = 1] = [waiting EXCEPT ![i] = [waiting[i] EXCEPT !.count = 1]]
  OBVIOUS
<1> QED BY <1>2, <1>3, <1>4

LEMMA StartType ==
  ASSUME TappingTypeOK, Frame, NEW k \in Keyboard, NEW tap \in Record, IsEvent(tap), Start(k, tap)
  PROVE  TappingTypeOK'
<1> DEFINE tap1 == [tap EXCEPT !.count = 1]
<1>1. waiting \in Seq(Record)
  BY DEF TappingTypeOK
<1>2. CASE Done(k, tap, waiting)
  BY <1>1, <1>2, DoneType
<1>3. CASE \E i \in TapReleases(tap) :
             Done(Processed(k, tap1), AsProcessed(k, tap1), [waiting EXCEPT ![i].count = 1])
  <2>1. PICK i \in TapReleases(tap) :
          Done(Processed(k, tap1), AsProcessed(k, tap1), [waiting EXCEPT ![i].count = 1])
    BY <1>3
  <2>2. i \in 1 .. Len(waiting)
    BY DEF TapReleases
  <2>3. tap1 \in Record /\ IsEvent(tap1)
    BY CountedType, SameKey DEF IsEvent
  <2>4. Processed(k, tap1) \in Keyboard /\ AsProcessed(k, tap1) \in Record
    BY <2>3, ProcessedType, AsProcessedType
  <2> QED BY <2>1, <2>2, <2>4, NotedType, DoneType
<1> QED BY <1>2, <1>3 DEF Start

-----------------------------------------------------------------------------
(* The steps.                                                              *)

LEMMA BranchType == ASSUME TappingTypeOK, Frame, Branch PROVE TappingTypeOK'
<1> DEFINE tap1 == [tapping EXCEPT !.count = 1]
           taken == WithTap(Rec, tapping)
           again == [taken EXCEPT !.count = IF @ < MaxCount THEN @ + 1 ELSE @]
           unpressed == [tapping EXCEPT !.pressed = FALSE]
<1>1. Rec \in Record /\ tapping \in Record /\ kb \in Keyboard /\ waiting \in Seq(Record)
  BY RecType DEF Frame, TappingTypeOK
<1>2. (Rec.pressed => IsEvent(Rec)) /\ (tapping.pressed => IsEvent(tapping))
  BY <1>1 DEF Record, IsEvent
<1>3. ASSUME NEW r \in Record, IsEvent(r)
      PROVE  Processed(kb, r) \in Keyboard /\ AsProcessed(kb, r) \in Record
  BY <1>1, <1>3, ProcessedType, AsProcessedType
<1>4. NoRecord \in Record /\ Interrupted \in Record /\ Interrupted.key = tapping.key
  BY <1>1, NoRecordType, CountedType, SameKey DEF Interrupted
<1>5. CASE IgnoreTick \/ AfterTapUp \/ Regular \/ EarlierUp \/ WhileTapped
  <2>1. CASE Done(kb, tapping, waiting)
    BY <1>1, <2>1, DoneType
  <2>2. CASE IsEvent(Rec) /\ Done(Processed(kb, Rec), tapping, waiting)
    BY <1>1, <1>3, <2>2, DoneType
  <2> QED BY <1>5, <2>1, <2>2 DEF IgnoreTick, AfterTapUp, Regular, EarlierUp, WhileTapped, OtherUp
<1>6. CASE StartTap \/ OtherTap
  BY <1>1, <1>2, <1>6, StartType DEF StartTap, OtherTap, TapPress
<1>7. CASE FirstTap
  <2>1. tap1 \in Record /\ IsEvent(tap1)
    BY <1>1, <1>2, <1>7, CountedType, SameKey DEF FirstTap, Undecided, IsEvent
  <2>2. Processed(kb, tap1) \in Keyboard /\ AsProcessed(kb, tap1) \in Record
    BY <1>3, <2>1
  <2>3. WithTap(Rec, AsProcessed(kb, tap1)) \in Record
    BY <1>1, <2>2, WithTapType
  <2>4. Kept(Processed(kb, tap1), AsProcessed(kb, tap1), WithTap(Rec, AsProcessed(kb, tap1)))
    BY <1>7 DEF FirstTap
  <2> QED BY <2>2, <2>3, <2>4, KeptType
<1>8. CASE UpWaits \/ DownWaits \/ TapOver
  BY <1>1, <1>4, <1>8, KeptType DEF UpWaits, DownWaits, TapOver
<1>9. CASE HoldByOther
  BY <1>1, <1>2, <1>3, <1>4, <1>9, KeptType DEF HoldByOther, Undecided, IsEvent
<1>10. CASE HoldByTime
  BY <1>1, <1>2, <1>3, <1>4, <1>10, KeptType DEF HoldByTime, Undecided
<1>11. CASE TapReleased
  <2>1. taken \in Record /\ IsEvent(taken)
    BY <1>1, <1>2, <1>11, WithTapType, SameKey DEF TapReleased, Tapped, OfTapping, IsEvent
  <2>2. Processed(kb, taken) \in Keyboard /\ (IF Within THEN taken ELSE NoRecord) \in Record
    BY <1>3, <1>4, <2>1
  <2>3. Done(Processed(kb, taken), IF Within THEN taken ELSE NoRecord, waiting)
    BY <1>11 DEF TapReleased
  <2> QED BY <1>1, <2>2, <2>3, DoneType
<1>12. CASE NextTap
  <2>1. unpressed \in Record /\ IsEvent(unpressed) /\ IsEvent(Rec)
    BY <1>1, <1>2, <1>12, CountedType, SameKey DEF NextTap, Tapped, TapPress, IsEvent
  <2>2. (IF tapping.count > 1 THEN Processed(kb, unpressed) ELSE kb) \in Keyboard
    BY <1>1, <1>3, <2>1
  <2>3. Start(IF tapping.count > 1 THEN Processed(kb, unpressed) ELSE kb, Rec)
    BY <1>12 DEF NextTap
  <2> QED BY <1>1, <2>1, <2>2, <2>3, StartType
<1>13. CASE RepeatTap
  <2>1. taken \in Record /\ taken.key = Rec.key /\ IsEvent(Rec)
    BY <1>1, <1>2, <1>13, WithTapType, SameKey DEF RepeatTap
  <2>2. again \in Record /\ again.key = Rec.key
    BY <2>1, CountedType DEF Record
  <2> HIDE DEF again
  <2>3. Done(Processed(kb, again), AsProcessed(kb, again), waiting)
    BY <1>13 DEF RepeatTap, again
  <2>4. IsEvent(again)
    BY <2>1, <2>2 DEF IsEvent
  <2> QED BY <1>1, <1>3, <2>2, <2>3, <2>4, DoneType
<1>14. CASE TapAgain
  BY <1>1, <1>14, DoneType DEF TapAgain
<1>15. CASE OtherDown
  BY <1>1, <1>2, <1>3, <1>4, <1>15, DoneType DEF OtherDown
<1> QED BY <1>5, <1>6, <1>7, <1>8, <1>9, <1>10, <1>11, <1>12, <1>13, <1>14, <1>15 DEF Branch

LEMMA PressType ==
  ASSUME TappingTypeOK, NEW k \in Key, Press(k) \/ Release(k) PROVE TappingTypeOK'
<1>1. Cached(ClearWeakMods(kb), k) \in Keyboard /\ kb \in Keyboard
  BY ClearsType, CachedType DEF TappingTypeOK
<1>2. KeyEvent(k, TRUE) \in Record /\ KeyEvent(k, FALSE) \in Record
  BY KeyEventType
<1> QED BY <1>1, <1>2 DEF TappingTypeOK, Press, Release

LEMMA PassType == ASSUME TappingTypeOK, Pass PROVE TappingTypeOK'
<1>1. tapping' \in Record
  BY AgedType DEF Pass, TappingTypeOK
<1>2. waiting' = [i \in 1 .. Len(waiting) |-> Aged(waiting[i])] /\ waiting \in Seq(Record)
  BY DEF Pass, TappingTypeOK
<1>3. \A i \in 1 .. Len(waiting) : Aged(waiting[i]) \in Record
  BY <1>2, AgedType
<1>4. waiting' \in Seq(Record) /\ Len(waiting') = Len(waiting)
  BY <1>2, <1>3
<1>5. phase' = "idle" /\ settled' \in BOOLEAN
  BY DEF Pass
<1> QED BY <1>1, <1>4, <1>5 DEF Pass, TappingTypeOK

\* The keyboard, the tap key and the buffer keep their types for every set of keys,
\* every keymap and every term: in particular the events of process_tapping never fill
\* the last slot of waiting_buffer, and a tap key always has a key.
THEOREM TypeCorrect == Spec => []TappingTypeOK
<1>1. Init => TappingTypeOK
  BY NoRecordType, LayerAssumption, KeyMapAssumption, TermAssumption DEF Init, TappingTypeOK, Keyboard
<1>2. TappingTypeOK /\ [Next]_vars => TappingTypeOK'
  <2> SUFFICES ASSUME TappingTypeOK, [Next]_vars PROVE TappingTypeOK'
    OBVIOUS
  <2>1. CASE ProcessTapping
    <3>1. Frame
      BY <2>1 DEF ProcessTapping, Frame, TappingTypeOK
    <3> QED BY <2>1, <3>1, BranchType DEF ProcessTapping
  <2>2. CASE \E k \in Key : Press(k) \/ Release(k)
    BY <2>2, PressType
  <2>3. CASE Tick
    BY <2>3 DEF Tick, TappingTypeOK
  <2>4. CASE Pass
    BY <2>4, PassType
  <2>5. CASE \E on \in HoldSettings : SetHoldOkp(on)
    BY <2>5 DEF SetHoldOkp, TappingTypeOK
  <2>6. CASE UNCHANGED vars
    BY <2>6 DEF vars, TappingTypeOK
  <2> QED BY <2>1, <2>2, <2>3, <2>4, <2>5, <2>6 DEF Next
<1> QED BY <1>1, <1>2, PTL DEF Spec

-----------------------------------------------------------------------------
(* What waits, waits for an open tap key. settled can only stay TRUE from  *)
(* a tick to its end if the tick has found nothing to do, and what a tick  *)
(* does follows from how tapping_key stands.                               *)

Settledness ==
  settled =>
    /\ phase = "event" => ~IsEvent(event)
    /\ phase # "event" => (Undecided => tapping.ago < Term)
    /\ phase = "idle" => (waiting # <<>> => Undecided)

\* WITHIN_TAPPING_TERM of a tick looks at the age of the tap key alone.
LEMMA TickInTerm ==
  ASSUME TappingTypeOK, phase = "event", ~IsEvent(event)
  PROVE  Rec.ago = 0 => (Within <=> tapping.ago < Term)
<1>1. tapping.ago \in 0 .. Wrap - 1 /\ Wrap \in Nat /\ Term \in Nat
  BY TermAssumption DEF TappingTypeOK, Record
<1>2. (tapping.ago + Wrap - 0) % Wrap = tapping.ago
  BY <1>1
<1> QED BY <1>2 DEF Within, InTerm

LEMMA TailIsShorter ==
  ASSUME NEW w \in Seq(Record), w # <<>> PROVE Len(Tail(w)) = Len(w) - 1 /\ Len(w) \in Nat
  OBVIOUS

LEMMA DrainKept ==
  ASSUME TappingTypeOK, Frame, phase = "drain", Branch, settled' = (settled /\
           <<kb, tapping, waiting>>' = <<kb, tapping, waiting>>), settled'
  PROVE  Undecided /\ Within /\ phase' = "idle" /\ UNCHANGED <<tapping, waiting>>
<1>1. tapping' = tapping /\ waiting' = waiting
  OBVIOUS
<1>2. waiting \in Seq(Record) /\ waiting # <<>> /\ tapping \in Record
  BY DEF TappingTypeOK
<1>3. Tail(waiting) # waiting
  <2>1. Len(Tail(waiting)) = Len(waiting) - 1 /\ Len(waiting) \in Nat
    BY <1>2
  <2> QED BY <2>1
<1>4. ASSUME NEW k, NEW tap, Done(k, tap, waiting) PROVE FALSE
  BY <1>1, <1>3, <1>4 DEF Done
<1>5. ASSUME NEW k, NEW tap, Start(k, tap) PROVE FALSE
  <2>1. CASE Done(k, tap, waiting)
    BY <1>4, <2>1
  <2>2. CASE \E i \in TapReleases(tap) :
               Done(Processed(k, [tap EXCEPT !.count = 1]),
                    AsProcessed(k, [tap EXCEPT !.count = 1]), [waiting EXCEPT ![i].count = 1])
    <3>1. PICK i \in TapReleases(tap) :
            Done(Processed(k, [tap EXCEPT !.count = 1]),
                 AsProcessed(k, [tap EXCEPT !.count = 1]), [waiting EXCEPT ![i].count = 1])
      BY <2>2
    <3>2. i \in 1 .. Len(waiting)
      BY DEF TapReleases
    <3>3. waiting' = Tail([waiting EXCEPT ![i].count = 1])
      BY <3>1 DEF Done
    <3>4. Len(waiting') = Len(waiting) - 1 /\ Len(waiting) \in Nat
      <4>1. /\ [waiting EXCEPT ![i].count = 1] \in Seq(Record)
            /\ Len([waiting EXCEPT ![i].count = 1]) = Len(waiting)
        BY <3>2, NotedType
      <4>2. [waiting EXCEPT ![i].count = 1] # <<>>
        BY <1>2, <4>1
      <4> QED BY <3>3, <4>1, <4>2, TailIsShorter
    <3> QED BY <1>1, <3>4
  <2>3. \/ Done(k, tap, waiting)
        \/ \E i \in TapReleases(tap) :
              Done(Processed(k, [tap EXCEPT !.count = 1]),
                   AsProcessed(k, [tap EXCEPT !.count = 1]), [waiting EXCEPT ![i].count = 1])
    BY <1>5 DEF Start
  <2> QED BY <2>1, <2>2, <2>3
<1>6. ASSUME NEW k, NEW tap, NEW r, Kept(k, tap, r) PROVE tap = tapping /\ phase' = "idle"
  BY <1>1, <1>6 DEF Kept
<1>7. CASE UpWaits \/ DownWaits
  BY <1>1, <1>6, <1>7 DEF UpWaits, DownWaits, OtherUp
<1>8. CASE FirstTap
  <2>1. AsProcessed(kb, [tapping EXCEPT !.count = 1]) = tapping
    BY <1>6, <1>8 DEF FirstTap
  <2>2. AsProcessed(kb, [tapping EXCEPT !.count = 1]).count = 1
    BY <1>2 DEF AsProcessed, Record
  <2> QED BY <1>8, <2>1, <2>2 DEF FirstTap, Undecided
<1>9. CASE HoldByOther \/ HoldByTime
  <2>1. tapping = NoRecord
    BY <1>6, <1>9 DEF HoldByOther, HoldByTime
  <2> QED BY <1>9, <2>1 DEF HoldByOther, HoldByTime, Undecided, NoRecord
<1>10. CASE TapOver
  BY <1>6, <1>10, NoRecordType DEF TapOver, Released
<1>11. CASE \/ IgnoreTick \/ Regular \/ EarlierUp \/ TapReleased \/ WhileTapped
            \/ RepeatTap \/ TapAgain \/ OtherDown \/ AfterTapUp
  BY <1>4, <1>11 DEF IgnoreTick, Regular, EarlierUp, TapReleased, WhileTapped,
                     RepeatTap, TapAgain, OtherDown, AfterTapUp
<1>12. CASE StartTap \/ NextTap \/ OtherTap
  BY <1>5, <1>12 DEF StartTap, NextTap, OtherTap
<1> QED BY <1>7, <1>8, <1>9, <1>10, <1>11, <1>12 DEF Branch

LEMMA TickKept ==
  ASSUME TappingTypeOK, Frame, phase = "event", ~IsEvent(event), event.ago = 0, Branch,
         tapping' = tapping
  PROVE  /\ Undecided => tapping.ago < Term
         /\ phase' = "idle" => waiting' = <<>>
<1>1. Rec = event /\ ~IsEvent(Rec) /\ ~Rec.pressed
  BY DEF Rec, TappingTypeOK, Record, IsEvent
<1>2. Within <=> tapping.ago < Term
  BY <1>1, TickInTerm
<1>3. Rec.key = None /\ (tapping.pressed => tapping.key # None)
  BY <1>1 DEF IsEvent, TappingTypeOK, Record
<1>4. IgnoreTick \/ HoldByTime \/ TapOver
  BY <1>1, <1>3 DEF Branch, StartTap, TapPress, Regular, FirstTap, OfTapping, EarlierUp,
              UpWaits, OtherUp, DownWaits, HoldByOther, TapReleased, NextTap, WhileTapped,
              RepeatTap, TapAgain, OtherTap, OtherDown, AfterTapUp, Undecided, Tapped, IsEvent
<1>5. CASE IgnoreTick
  <2>1. Undecided => tapping.ago < Term
    BY <1>1, <1>2, <1>5 DEF IgnoreTick, Fresh, Undecided, Tapped, IsEvent, TappingTypeOK, Record
  <2> QED BY <1>5, <2>1 DEF IgnoreTick, Done
<1>6. ASSUME NEW k, NEW r, Kept(k, NoRecord, r) PROVE tapping = NoRecord
  BY <1>6 DEF Kept
<1>7. CASE HoldByTime
  BY <1>1, <1>6, <1>7 DEF HoldByTime, Undecided, NoRecord
<1>8. CASE TapOver
  BY <1>1, <1>6, <1>8, NoRecordType DEF TapOver, Released
<1> QED BY <1>4, <1>5, <1>7, <1>8

\* The conjuncts that make WaitsOnlyForTap inductive.
WaitInv ==
  /\ TappingTypeOK /\ Settledness
  /\ phase # "event" => ~IsEvent(event)
  /\ ~IsEvent(event) => event.ago = 0

LEMMA ProcessFrame ==
  ASSUME WaitInv, ProcessTapping
  PROVE  Frame /\ TappingTypeOK /\ Branch /\ phase' # "event" /\ (phase = "event" \/ phase = "drain")
  BY DEF ProcessTapping, Frame, WaitInv, TappingTypeOK, Branch, Done, Kept, IgnoreTick, StartTap,
         Start, Regular, FirstTap, EarlierUp, UpWaits, DownWaits, HoldByOther, HoldByTime,
         TapReleased, NextTap, WhileTapped, RepeatTap, TapAgain, OtherTap, OtherDown,
         AfterTapUp, TapOver

LEMMA WaitInvariant == Spec => []WaitInv
<1>1. Init /\ TappingTypeOK => WaitInv
  BY NoRecordType DEF Init, WaitInv, Settledness, Undecided, NoRecord
<1>2. WaitInv /\ TappingTypeOK' /\ [Next]_vars => WaitInv'
  <2> SUFFICES ASSUME WaitInv, TappingTypeOK', [Next]_vars PROVE WaitInv'
    OBVIOUS
  <2>1. CASE ProcessTapping
    <3>0. ~IsEvent(event') /\ event'.ago = 0
      BY <2>1, NoRecordType DEF ProcessTapping, NoRecord
    <3>1. Frame /\ TappingTypeOK /\ Branch /\ phase' # "event" /\ (phase = "event" \/ phase = "drain")
      BY <2>1, ProcessFrame
    <3>2. settled' = (settled /\ <<kb, tapping, waiting>>' = <<kb, tapping, waiting>>)
      BY <2>1 DEF ProcessTapping
    <3>3. CASE settled' /\ phase = "drain"
      <4>1. Undecided /\ phase' = "idle" /\ UNCHANGED <<tapping, waiting>>
        BY <3>1, <3>2, <3>3, DrainKept
      <4> QED BY <3>0, <3>1, <3>2, <3>3, <4>1 DEF WaitInv, Settledness, Undecided
    <3>4. CASE settled' /\ phase = "event"
      <4>1. (Undecided => tapping.ago < Term) /\ (phase' = "idle" => waiting' = <<>>)
        BY <3>1, <3>2, <3>4, TickKept DEF WaitInv, Settledness
      <4> QED BY <3>0, <3>1, <3>2, <3>4, <4>1 DEF WaitInv, Settledness, Undecided
    <3>5. CASE ~settled'
      BY <3>0, <3>1, <3>5 DEF WaitInv, Settledness
    <3> QED BY <3>1, <3>3, <3>4, <3>5
  <2>2. CASE \E k \in Key : Press(k) \/ Release(k)
    <3>1. PICK k \in Key : Press(k) \/ Release(k)
      BY <2>2
    <3>2. IsEvent(KeyEvent(k, TRUE)) /\ IsEvent(KeyEvent(k, FALSE))
      BY KeyEventType
    <3> QED BY <3>1, <3>2 DEF Press, Release, WaitInv, Settledness
  <2>3. CASE Tick
    BY <2>3 DEF Tick, WaitInv, Settledness
  <2>4. CASE Pass
    BY <2>4 DEF Pass, WaitInv, Settledness
  <2>5. CASE \E on \in HoldSettings : SetHoldOkp(on)
    BY <2>5 DEF SetHoldOkp, WaitInv, Settledness, Undecided
  <2>6. CASE UNCHANGED vars
    BY <2>6 DEF vars, WaitInv, Settledness, Undecided
  <2> QED BY <2>1, <2>2, <2>3, <2>4, <2>5, <2>6 DEF Next
<1> QED BY <1>1, <1>2, TypeCorrect, PTL DEF Spec, WaitInv

\* Events wait only for an open tap key, which is open for less than TAPPING_TERM: for
\* every keymap, every term and every length of the buffer, also when the loop over the
\* buffer has stopped half way.
THEOREM NothingWaitsLonger == Spec => []WaitsOnlyForTap
<1>1. WaitInv => WaitsOnlyForTap
  BY DEF WaitInv, Settledness, WaitsOnlyForTap
<1> QED BY <1>1, WaitInvariant, PTL
=============================================================================
