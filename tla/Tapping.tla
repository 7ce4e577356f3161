------------------------------ MODULE Tapping ------------------------------
(***************************************************************************)
(* action_tapping.c: whether a key with two meanings was tapped or held.   *)
(* While that is open (tapping_key is pressed with tap.count 0) the events *)
(* of the other keys wait in waiting_buffer.                               *)
(*                                                                         *)
(* matrix_task hands the changes of one scan to action_exec one by one,    *)
(* and a tick in a scan without a change. Each action below is one call of *)
(* process_tapping and one branch of it: for the event itself first, then  *)
(* for the records of the buffer, from its tail, until one is not          *)
(* processed. A tick is a record of no key.                                *)
(***************************************************************************)
EXTENDS KeyActions, Sequences

CONSTANTS
  KeyMaps,      \* the keymaps to choose from
  HoldSettings, \* the values hold_okp_config.enable may have
  None,         \* the key of a tick
  Term,         \* TAPPING_TERM, and QUICK_TAP_TERM
  Wrap,         \* the time after which a 16 bit time comes round
  BufferSize    \* WAITING_BUFFER_SIZE

ASSUME KeyMapAssumption == KeyMaps \subseteq [Layer -> [Key -> Action]]
ASSUME HoldAssumption == HoldSettings \subseteq BOOLEAN
ASSUME NoneAssumption == None \notin Key
ASSUME TermAssumption == {Term, Wrap, BufferSize} \subseteq Nat \ {0, 1} /\ 2 * Term <= Wrap

VARIABLES
  kb,         \* the state of the keyboard (KeyActions)
  hold_okp,   \* hold_okp_config.enable, the VIA menu HOLD_ON_OTHER_KEY_PRESS
  down,       \* matrix_previous
  tapping,    \* tapping_key, NoRecord when it is reset
  waiting,    \* waiting_buffer from tail to head
  phase,      \* action_tapping_process: idle, at its event, draining the buffer
  event,      \* its record, NoRecord for a tick
  changed,    \* the keys that have changed since the last tick
  settled,    \* the last tick has changed nothing, and nothing has happened since
  excused     \* history: what is known to leave a key stuck has happened

vars == <<kb, hold_okp, down, tapping, waiting, phase, event, changed, settled, excused>>

\* keyrecord_t; ago: the time that has passed since event.time.
Record ==
  {r \in [key : Key \cup {None}, pressed : BOOLEAN, ago : 0 .. Wrap - 1,
          count : 0 .. MaxCount, interrupted : BOOLEAN] : r.pressed => r.key # None}

NoRecord == [key |-> None, pressed |-> FALSE, ago |-> 0, count |-> 0, interrupted |-> FALSE]

KeyEvent(k, pressed) == [NoRecord EXCEPT !.key = k, !.pressed = pressed]

IsEvent(r) == r.key # None

TappingTypeOK ==
  /\ kb \in Keyboard
  /\ hold_okp \in HoldSettings /\ settled \in BOOLEAN
  /\ excused \subseteq {"overflow", "again", "overtaken", "unscanned", "replaced"}
  /\ down \subseteq Key /\ changed \subseteq Key
  /\ tapping \in Record /\ event \in Record
  /\ waiting \in Seq(Record) /\ Len(waiting) < BufferSize
  /\ phase \in {"idle", "event", "drain"}
  /\ phase = "drain" => waiting # <<>>

-----------------------------------------------------------------------------
(* The record in work, the state of tapping_key and what becomes of both.  *)

Rec == IF phase = "drain" THEN waiting[1] ELSE event

Fresh == ~IsEvent(tapping)
Undecided == tapping.pressed /\ tapping.count = 0
Tapped == tapping.pressed /\ tapping.count > 0
Released == IsEvent(tapping) /\ ~tapping.pressed

\* Mutant: off by one.
InTermOrAtEnd(r, tap) == (tap.ago + Wrap - r.ago) % Wrap <= Term

\* TIMER_DIFF_16(r.event.time, tap.event.time) < TAPPING_TERM
InTerm(r, tap) == (tap.ago + Wrap - r.ago) % Wrap < Term

\* WITHIN_TAPPING_TERM, WITHIN_QUICK_TAP_TERM
Within == InTerm(Rec, tapping)

\* IS_TAPPING_RECORD
OfTapping == Rec.key = tapping.key

\* is_tap_record for a press: by the layers of now.
TapPress == Rec.pressed /\ IsTapAction(LayerAction(kb, Rec.key))

\* Mutant: the release of a tap is not marked as one.
WithoutTap(r, tap) == r

\* keyp->tap = tapping_key.tap
WithTap(r, tap) == [r EXCEPT !.count = tap.count, !.interrupted = tap.interrupted]

\* waiting_buffer_typed: the buffer holds the other half of the key stroke.
Typed == \E i \in 1 .. Len(waiting) :
           waiting[i].key = Rec.key /\ waiting[i].pressed # Rec.pressed

\* The releases of tap in the buffer, within its term.
TapReleases(tap) ==
  {i \in 1 .. Len(waiting) :
     waiting[i].key = tap.key /\ ~waiting[i].pressed /\ InTerm(waiting[i], tap)}

\* History: what a call that leaves k and tap behind adds to excused.
Replaced(k) ==
  IF kb.osl # {} /\ k.osl # {} /\ k.osl_layer # kb.osl_layer THEN {"replaced"} ELSE {}

Unscanned(tap) ==
  IF tap.pressed /\ tap.count = 0 /\ TapReleases(tap) # {} THEN {"unscanned"} ELSE {}

\* process_tapping returns true: on to the next record of the buffer.
Done(k, tap, buffer) ==
  LET rest == IF phase = "drain" THEN Tail(buffer) ELSE buffer
  IN  /\ kb' = k /\ tapping' = tap /\ waiting' = rest
      /\ phase' = IF rest = <<>> THEN "idle" ELSE "drain"
      /\ excused' = excused \cup Replaced(k) \cup Unscanned(tap) \cup
                      (IF phase = "event" /\ Typed THEN {"overtaken"} ELSE {})

\* Mutant: the slot between head and tail is used too.
FullLate == Len(waiting) = BufferSize

\* waiting_buffer_enq: one slot stays empty.
Full == Len(waiting) + 1 = BufferSize

\* process_tapping returns false: the event goes to the buffer, a record of the
\* buffer stays there and ends the loop.
Kept(k, tap, r) ==
  \/ /\ phase = "drain"
     /\ kb' = k /\ tapping' = tap /\ waiting' = [waiting EXCEPT ![1] = r]
     /\ phase' = "idle" /\ excused' = excused \cup Replaced(k)
  \/ /\ phase = "event" /\ ~IsEvent(r)
     /\ kb' = k /\ tapping' = tap /\ UNCHANGED waiting
     /\ phase' = IF waiting = <<>> THEN "idle" ELSE "drain"
     /\ excused' = excused \cup Replaced(k)
  \/ /\ phase = "event" /\ IsEvent(r) /\ ~Full
     /\ kb' = k /\ tapping' = tap /\ waiting' = Append(waiting, r)
     /\ phase' = "drain" /\ excused' = excused \cup Replaced(k)
  \/ /\ phase = "event" /\ IsEvent(r) /\ Full
     /\ kb' = ClearKeyboard(k) /\ tapping' = NoRecord /\ waiting' = <<>>
     /\ phase' = "idle" /\ excused' = excused \cup {"overflow"}

\* tapping_key = *keyp and waiting_buffer_scan_tap: has it been released already?
Start(k, tap) ==
  \/ TapReleases(tap) = {} /\ Done(k, tap, waiting)
  \/ \E i \in TapReleases(tap) :
       LET tap1 == [tap EXCEPT !.count = 1]
       IN  /\ \A j \in TapReleases(tap) : i <= j
           /\ Done(Processed(k, tap1), AsProcessed(k, tap1), [waiting EXCEPT ![i].count = 1])

-----------------------------------------------------------------------------
(* The branches of process_tapping.                                        *)

IgnoreTick ==
  /\ ~IsEvent(Rec) /\ (Fresh \/ Within \/ Tapped)
  /\ Done(kb, tapping, waiting)

StartTap == Fresh /\ TapPress /\ Start(kb, Rec)

Regular == Fresh /\ IsEvent(Rec) /\ ~TapPress /\ Done(Processed(kb, Rec), tapping, waiting)

FirstTap ==
  LET tap1 == [tapping EXCEPT !.count = 1]
      done == AsProcessed(kb, tap1)
  IN  /\ Undecided /\ Within /\ OfTapping /\ ~Rec.pressed
      /\ Kept(Processed(kb, tap1), done, WithTap(Rec, done))

\* "Modifier/Layer should be retained till end of this tapping."
Retained ==
  LET a == LayerAction(kb, Rec.key)
  IN  \/ a.kind = "key" /\ a.mods # {} /\ a.code = NoCode
      \/ a.kind = "oneshot_mod" /\ a.mods # {} /\ Rec.count = 0
      \/ a.kind = "mod_tap" /\ a.mods # {} /\ Rec.count = 0
      \/ a.kind \in {"key", "mod_tap"} /\ a.code \in Mod
      \/ a.kind \in {"layer_tap", "momentary"}

OtherUp == Undecided /\ Within /\ IsEvent(Rec) /\ ~Rec.pressed /\ ~OfTapping

EarlierUp == OtherUp /\ ~Typed /\ ~Retained /\ Done(Processed(kb, Rec), tapping, waiting)

UpWaits == OtherUp /\ (Typed \/ Retained) /\ Kept(kb, tapping, Rec)

Interrupted == [tapping EXCEPT !.interrupted = TRUE]

DownWaits ==
  Undecided /\ Within /\ Rec.pressed /\ ~hold_okp /\ Kept(kb, Interrupted, Rec)

HoldByOther ==
  /\ Undecided /\ Within /\ Rec.pressed /\ hold_okp
  /\ Kept(Processed(kb, Interrupted), NoRecord, Rec)

HoldByTime == Undecided /\ ~Within /\ Kept(Processed(kb, tapping), NoRecord, Rec)

TapReleased ==
  LET r == WithTap(Rec, tapping)
  IN  /\ Tapped /\ OfTapping /\ ~Rec.pressed
      /\ Done(Processed(kb, r), IF Within THEN r ELSE NoRecord, waiting)

\* A tap pressed more than once is released first.
NextTap ==
  /\ Tapped /\ TapPress
  /\ Start(IF tapping.count > 1 THEN Processed(kb, [tapping EXCEPT !.pressed = FALSE]) ELSE kb, Rec)

WhileTapped ==
  /\ Tapped /\ IsEvent(Rec) /\ ~TapPress /\ ~(OfTapping /\ ~Rec.pressed)
  /\ Done(Processed(kb, Rec), tapping, waiting)

Repeats == ~tapping.interrupted /\ tapping.count > 0

RepeatTap ==
  LET r == [WithTap(Rec, tapping) EXCEPT !.count = IF @ < MaxCount THEN @ + 1 ELSE @]
  IN  /\ Released /\ Within /\ Rec.pressed /\ OfTapping /\ Repeats
      /\ Done(Processed(kb, r), AsProcessed(kb, r), waiting)

\* "FIX: start new tap again"
TapAgain == Released /\ Within /\ Rec.pressed /\ OfTapping /\ ~Repeats /\ Done(kb, Rec, waiting)

OtherTap == Released /\ Within /\ TapPress /\ ~OfTapping /\ Start(kb, Rec)

OtherDown ==
  /\ Released /\ Within /\ Rec.pressed /\ ~OfTapping /\ ~TapPress
  /\ Done(Processed(kb, Rec), Interrupted, waiting)

AfterTapUp ==
  /\ Released /\ Within /\ IsEvent(Rec) /\ ~Rec.pressed
  /\ Done(Processed(kb, Rec), tapping, waiting)

TapOver == Released /\ ~Within /\ Kept(kb, NoRecord, Rec)

Branch ==
  \/ IgnoreTick \/ StartTap \/ Regular
  \/ FirstTap \/ EarlierUp \/ UpWaits \/ DownWaits \/ HoldByOther \/ HoldByTime
  \/ TapReleased \/ NextTap \/ WhileTapped
  \/ RepeatTap \/ TapAgain \/ OtherTap \/ OtherDown \/ AfterTapUp \/ TapOver

ProcessTapping ==
  /\ phase # "idle"
  /\ Branch
  /\ event' = NoRecord
  /\ settled' = (settled /\ <<kb, tapping, waiting>>' = <<kb, tapping, waiting>>)
  /\ UNCHANGED <<hold_okp, down, changed>>

-----------------------------------------------------------------------------
(* matrix_task, generate_tick_event and action_exec.                       *)

Press(k) ==
  LET up == Cached(ClearWeakMods(kb), k)
  IN  /\ phase = "idle" /\ k \notin down \cup changed
      /\ down' = down \cup {k} /\ kb' = up
      /\ event' = KeyEvent(k, TRUE) /\ phase' = "event"
      /\ changed' = changed \cup {k} /\ settled' = FALSE
      /\ excused' = excused \cup (IF k \in kb.acting /\ CachedAction(up, k) # CachedAction(kb, k)
                                    THEN {"again"} ELSE {})
      /\ UNCHANGED <<hold_okp, tapping, waiting>>

Release(k) ==
  /\ phase = "idle" /\ k \in down \ changed
  /\ down' = down \ {k}
  /\ event' = KeyEvent(k, FALSE) /\ phase' = "event"
  /\ changed' = changed \cup {k} /\ settled' = FALSE
  /\ UNCHANGED <<kb, hold_okp, tapping, waiting, excused>>

\* Ticks that would change nothing are left out.
Tick ==
  /\ phase = "idle" /\ ~settled
  /\ phase' = "event" /\ changed' = {} /\ settled' = TRUE
  /\ UNCHANGED <<kb, hold_okp, down, tapping, waiting, event, excused>>

Aged(r) == IF IsEvent(r) THEN [r EXCEPT !.ago = (@ + 1) % Wrap] ELSE r

\* A unit of time holds many ticks: it does not end before they have done their work.
Pass ==
  /\ phase = "idle" /\ settled
  /\ tapping' = Aged(tapping)
  /\ waiting' = [i \in 1 .. Len(waiting) |-> Aged(waiting[i])]
  /\ settled' = FALSE
  /\ UNCHANGED <<kb, hold_okp, down, phase, event, changed, excused>>

\* via_qmk_hold_okp_set_value, on the VIA thread while the loop waits.
SetHoldOkp(on) ==
  /\ phase = "idle" /\ hold_okp' = on
  /\ UNCHANGED <<kb, down, tapping, waiting, phase, event, changed, settled, excused>>

Init ==
  /\ kb \in {[keymap |-> m, layers |-> {}, cache |-> [k \in Key |-> 0], keys |-> {},
              real |-> {}, weak |-> {}, oneshot |-> {}, osl |-> {}, osl_layer |-> 0,
              acting |-> {}] : m \in KeyMaps}
  /\ hold_okp \in HoldSettings
  /\ down = {} /\ tapping = NoRecord /\ waiting = <<>> /\ event = NoRecord
  /\ phase = "idle" /\ changed = {} /\ settled = TRUE /\ excused = {}

Next ==
  \/ ProcessTapping
  \/ \E k \in Key : Press(k) \/ Release(k)
  \/ Tick \/ Pass
  \/ \E on \in HoldSettings : SetHoldOkp(on)

Spec == Init /\ [][Next]_vars

-----------------------------------------------------------------------------
(* Properties. Five things are known to leave a key on, and excused holds  *)
(* those that have happened:                                               *)
(*   overflow:  eight events in one tapping term (clear_keyboard clears no *)
(*              layer);                                                    *)
(*   again:     a key is pressed again while its release waits, and the    *)
(*              layers give it another action by now;                      *)
(*   overtaken: the loop over the buffer stops at a record that has just   *)
(*              decided the tap key, and an event comes before the tick;   *)
(*   unscanned: a press makes its key the tap key without a look into the  *)
(*              buffer ("FIX: start new tap again"), although its release  *)
(*              is there: the key is decided as held, released as tapped;  *)
(*   replaced:  the one-shot layer of a key is taken over by that of       *)
(*              another key: the first layer is never turned off.          *)

\* The layers some key may leave on.
LeftOn ==
  {kb.keymap[x[1]][x[2]].layer : x \in {y \in Layer \X Key :
     kb.keymap[y[1]][y[2]].kind \in {"toggle", "to", "tap_toggle"}}}
  \cup (IF kb.osl # {} THEN {kb.osl_layer} ELSE {}) \cup {0}

Holding == {CachedAction(kb, k) : k \in kb.acting}

ReleaseOnItsWay(k) ==
  \E r \in {event} \cup {waiting[i] : i \in 1 .. Len(waiting)} : r.key = k /\ ~r.pressed

\* Every code, modifier and momentary layer that is on is there for a key whose press
\* was acted upon and that is still down or has its release in the buffer: a release
\* takes back what its press did, although layers change between the two, a release
\* overtakes waiting presses, and a tap key may have been tapped or held.
OnlyHeld ==
  excused = {} =>
    /\ kb.keys \cup kb.real \cup kb.weak
         \subseteq {x.code : x \in Holding} \cup UNION {x.mods : x \in Holding}
    /\ kb.layers \subseteq {x.layer : x \in Holding} \cup LeftOn
    /\ \A k \in kb.acting : k \in down \/ ReleaseOnItsWay(k)

AtRest == phase = "idle" /\ down = {} /\ waiting = <<>>

\* Once every key is up and the buffer is empty the host sees no key and no modifier, and
\* no momentary layer is on.
NothingStuck ==
  AtRest /\ excused = {} =>
    kb.keys = {} /\ kb.real = {} /\ kb.weak = {} /\ kb.layers \subseteq LeftOn

\* After the ticks a tap key is open for less than TAPPING_TERM, and events wait only
\* while one is open: what is typed arrives at most one term late, also when the loop
\* over the buffer has stopped half way.
WaitsOnlyForTap ==
  phase = "idle" /\ settled =>
    /\ Undecided => tapping.ago < Term
    /\ waiting # <<>> => Undecided

\* What the release of a key that was acted upon will be looked up as changes in no step
\* that excuses nothing: the cache of source layers, which is written at three places, is
\* not written for a key between its press and its release (store_or_get_action).
ActionStays ==
  [][excused' = {} => \A k \in kb.acting : CachedAction(kb', k) = CachedAction(kb, k)]_vars

\* "Make sure the action triggered when the key is released is the same one as the one
\* triggered on press" (store_or_get_action): what a release will be looked up as stays
\* the same from the press to the release.
SameAction ==
  [][excused' \subseteq {"again"} =>
       \A k \in kb.acting \cap kb'.acting : CachedAction(kb', k) = CachedAction(kb, k)]_vars
=============================================================================
