----------------------------- MODULE KeyActions -----------------------------
(***************************************************************************)
(* What a key event does once its action is known: layers, the cache of    *)
(* source layers, modifiers, one-shots and the codes in the report         *)
(* (action.c, action_layer.c, action_util.c of QMK, as this firmware       *)
(* builds them: no ONESHOT_TIMEOUT, no ONESHOT_TAP_TOGGLE, one-shots       *)
(* enabled, no STRICT_LAYER_RELEASE, no NKRO, default layer 0).            *)
(*                                                                         *)
(* The module has no variables: kb is the state of the keyboard, and every *)
(* operator returns the state the C function of its name leaves behind.    *)
(* Six codes fit in the report; the instances have fewer keys.             *)
(***************************************************************************)
EXTENDS Naturals, FiniteSets

CONSTANTS
  Key,             \* matrix positions
  Layer,           \* layers of the dynamic keymap
  Code,            \* basic keycodes
  Mod,             \* modifiers, as keycodes and as bits
  NoCode,          \* KC_NO
  TappingToggle,   \* TAPPING_TOGGLE
  MaxCount         \* bound: tap.count stops here (the code: 15)

ASSUME CodeAssumption == NoCode \notin Code \cup Mod /\ Code \cap Mod = {}
ASSUME LayerAssumption ==
  /\ Layer \subseteq Nat /\ 0 \in Layer
  /\ \A S \in SUBSET Layer : S # {} => \E l \in S : \A m \in S : m <= l
ASSUME CountAssumption == {TappingToggle, MaxCount} \subseteq Nat \ {0, 1}

Kinds == {"key", "mod_tap", "oneshot_mod", "layer_tap", "momentary", "tap_toggle",
          "oneshot_layer", "toggle", "to", "layer_mod", "transparent"}

\* action_for_keycode: the fields an action's kind does not use are NoCode, {} and 0.
Action == [kind : Kinds, code : Code \cup Mod \cup {NoCode}, mods : SUBSET Mod, layer : Layer]

Keyboard ==
  [keymap : [Layer -> [Key -> Action]],
   layers : SUBSET Layer,                  \* layer_state
   cache  : [Key -> Layer],                \* source_layers_cache
   keys   : SUBSET Code,                   \* the codes in keyboard_report
   real   : SUBSET Mod, weak : SUBSET Mod, oneshot : SUBSET Mod,
   osl    : SUBSET {"pressed", "other"},   \* the state bits of oneshot_layer_data
   osl_layer : Layer,
   acting : SUBSET Key]                    \* history: pressed as far as actions go

-----------------------------------------------------------------------------
(* action_layer.c                                                          *)

LayerOn(kb, l) == [kb EXCEPT !.layers = @ \cup {l}]
LayerOff(kb, l) == [kb EXCEPT !.layers = @ \ {l}]
LayerInvert(kb, l) == IF l \in kb.layers THEN LayerOff(kb, l) ELSE LayerOn(kb, l)
LayerMove(kb, l) == [kb EXCEPT !.layers = {l}]

\* The layers that are on and say something about k; layer 0 answers if none does.
Answering(kb, k) ==
  {l \in kb.layers \cup {0} : kb.keymap[l][k].kind # "transparent"} \cup {0}

\* layer_switch_get_layer
SourceLayer(kb, k) ==
  CHOOSE l \in Answering(kb, k) : \A m \in Answering(kb, k) : m <= l

\* layer_switch_get_action
LayerAction(kb, k) == kb.keymap[SourceLayer(kb, k)][k]

\* update_source_layers_cache with the layer of now.
Cached(kb, k) == [kb EXCEPT !.cache[k] = SourceLayer(kb, k)]

\* Mutant: the release looks at the layers of now.
CurrentAction(kb, k) == LayerAction(kb, k)

\* The action a release is looked up as.
CachedAction(kb, k) == kb.keymap[kb.cache[k]][k]

-----------------------------------------------------------------------------
(* action_util.c and the register functions of action.c                    *)

\* send_keyboard_report: one-shot modifiers are used up by a report with a key.
Reported(kb) == IF kb.keys = {} THEN kb ELSE [kb EXCEPT !.oneshot = {}]

RegisterMods(kb, mods) ==
  IF mods = {} THEN kb ELSE Reported([kb EXCEPT !.real = @ \cup mods])
UnregisterMods(kb, mods) ==
  IF mods = {} THEN kb ELSE Reported([kb EXCEPT !.real = @ \ mods])
AddWeakMods(kb, mods) ==
  IF mods = {} THEN kb ELSE Reported([kb EXCEPT !.weak = @ \cup mods])
DelWeakMods(kb, mods) ==
  IF mods = {} THEN kb ELSE Reported([kb EXCEPT !.weak = @ \ mods])
ClearWeakMods(kb) == [kb EXCEPT !.weak = {}]

RegisterCode(kb, c) ==
  CASE c \in Code -> Reported([kb EXCEPT !.keys = @ \cup {c}])
    [] c \in Mod  -> RegisterMods(kb, {c})
    [] OTHER      -> kb

UnregisterCode(kb, c) ==
  CASE c \in Code -> Reported([kb EXCEPT !.keys = @ \ {c}])
    [] c \in Mod  -> UnregisterMods(kb, {c})
    [] OTHER      -> kb

\* clear_keyboard: neither layers nor one-shots.
ClearKeyboard(kb) == [kb EXCEPT !.real = {}, !.keys = {}, !.weak = {}]

\* clear_oneshot_layer_state
ClearOneshotLayer(kb, bit) ==
  IF kb.osl = {bit}
    THEN [LayerOff(kb, kb.osl_layer) EXCEPT !.osl = {}, !.osl_layer = 0]
    ELSE [kb EXCEPT !.osl = @ \ {bit}]

\* set_oneshot_layer with ONESHOT_START
SetOneshotLayer(kb, l) == [LayerOn(kb, l) EXCEPT !.osl = {"pressed", "other"}, !.osl_layer = l]

-----------------------------------------------------------------------------
(* is_tap_action and the cases of process_action; pressed and count come   *)
(* from the record.                                                        *)

IsTapAction(a) ==
  a.kind \in {"mod_tap", "oneshot_mod", "layer_tap", "tap_toggle", "oneshot_layer"}

\* ACT_LMODS: modifiers of a key with a code last as long as no other key is pressed.
KeyAction(kb, a, pressed) ==
  LET strong == a.code \in Mod \cup {NoCode}
      freed == UnregisterCode(kb, a.code)
  IN  CASE pressed /\ strong   -> RegisterCode(RegisterMods(kb, a.mods), a.code)
        [] pressed /\ ~strong  -> RegisterCode(AddWeakMods(kb, a.mods), a.code)
        [] ~pressed /\ strong  -> UnregisterMods(freed, a.mods)
        [] ~pressed /\ ~strong -> DelWeakMods(freed, a.mods)

ModTap(kb, a, pressed, count) ==
  IF count > 0
    THEN IF pressed THEN RegisterCode(kb, a.code) ELSE UnregisterCode(kb, a.code)
    ELSE IF pressed THEN RegisterMods(kb, a.mods) ELSE UnregisterMods(kb, a.mods)

OneshotMod(kb, a, pressed, count) ==
  CASE count = 0 /\ pressed  -> RegisterMods(kb, a.mods)
    [] count = 0 /\ ~pressed -> [UnregisterMods(kb, a.mods) EXCEPT !.oneshot = @ \ a.mods]
    [] count = 1 /\ pressed  -> [kb EXCEPT !.oneshot = @ \cup a.mods]
    [] OTHER                 -> kb

LayerTap(kb, a, pressed, count) ==
  IF count > 0
    THEN IF pressed THEN RegisterCode(kb, a.code) ELSE UnregisterCode(kb, a.code)
    ELSE IF pressed THEN LayerOn(kb, a.layer) ELSE LayerOff(kb, a.layer)

TapToggle(kb, a, pressed, count) ==
  IF (IF pressed THEN count < TappingToggle ELSE count <= TappingToggle)
    THEN LayerInvert(kb, a.layer) ELSE kb

OneshotLayer(kb, a, pressed, count) ==
  IF pressed THEN SetOneshotLayer(kb, a.layer)
  ELSE LET up == ClearOneshotLayer(kb, "pressed")
       IN  IF count > 1 THEN ClearOneshotLayer(up, "other") ELSE up

LayerMod(kb, a, pressed) ==
  IF pressed THEN RegisterMods(LayerOn(kb, a.layer), a.mods)
             ELSE LayerOff(UnregisterMods(kb, a.mods), a.layer)

\* The switch of process_action.
Acted(kb, a, pressed, count) ==
  CASE a.kind = "key"           -> KeyAction(kb, a, pressed)
    [] a.kind = "mod_tap"       -> ModTap(kb, a, pressed, count)
    [] a.kind = "oneshot_mod"   -> OneshotMod(kb, a, pressed, count)
    [] a.kind = "layer_tap"     -> LayerTap(kb, a, pressed, count)
    [] a.kind = "momentary"     -> IF pressed THEN LayerOn(kb, a.layer) ELSE LayerOff(kb, a.layer)
    [] a.kind = "tap_toggle"    -> TapToggle(kb, a, pressed, count)
    [] a.kind = "oneshot_layer" -> OneshotLayer(kb, a, pressed, count)
    [] a.kind = "toggle"        -> IF pressed THEN kb ELSE LayerInvert(kb, a.layer)
    [] a.kind = "to"            -> IF pressed THEN LayerMove(kb, a.layer) ELSE kb
    [] a.kind = "layer_mod"     -> LayerMod(kb, a, pressed)
    [] OTHER                    -> kb

-----------------------------------------------------------------------------
(* process_record: r is the record of a key event.                         *)

\* A key that is no modifier ends the one-shot layer.
EndsOneshot(a, count) ==
  ~ (a.code \in Mod \/ a.kind = "oneshot_mod" \/ (a.kind = "mod_tap" /\ count = 0))

\* do_release_oneshot: the key pressed on the one-shot layer is released at once.
ReleasedAtOnce(kb, r) ==
  LET a == LayerAction(kb, r.key)
  IN  /\ r.pressed /\ kb.osl = {"other"}
      /\ EndsOneshot(a, r.count) /\ a.kind # "oneshot_layer"

PressProcessed(kb, r) ==
  LET a == LayerAction(kb, r.key)
      ended == IF kb.osl # {} /\ EndsOneshot(a, r.count)
                 THEN ClearOneshotLayer(Cached(kb, r.key), "other") ELSE Cached(kb, r.key)
      acted == Acted(ended, a, TRUE, r.count)
  IN  IF ReleasedAtOnce(kb, r) THEN LayerOff(Acted(LayerOn(acted, 0), a, FALSE, r.count), 0)
                               ELSE acted

\* Mutant: the release stores the layer of now.
ReleaseStores(kb, r) == Acted(Cached(kb, r.key), LayerAction(kb, r.key), FALSE, r.count)

\* The layer of the press decides what the release is a release of.
ReleaseProcessed(kb, r) == Acted(kb, CachedAction(kb, r.key), FALSE, r.count)

\* The record afterwards: process_action has turned a key released at once into a release.
AsProcessed(kb, r) == [r EXCEPT !.pressed = @ /\ ~ReleasedAtOnce(kb, r)]

Processed(kb, r) ==
  [IF r.pressed THEN PressProcessed(kb, r) ELSE ReleaseProcessed(kb, r)
    EXCEPT !.acting = IF AsProcessed(kb, r).pressed THEN @ \cup {r.key} ELSE @ \ {r.key}]
=============================================================================
