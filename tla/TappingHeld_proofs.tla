------------------------ MODULE TappingHeld_proofs ------------------------
(***************************************************************************)
(* Nothing stays on that no key holds: OnlyHeld and NothingStuck, for      *)
(* every keymap.                                                           *)
(*                                                                         *)
(* Of a keyboard: whatever is on is backed by a key whose press was acted  *)
(* upon, by the part of its action that its release is going to take back. *)
(* Which part that is depends on whether the release will be one of a tap, *)
(* which follows from the tap key and the marks in the buffer. Of the      *)
(* buffer: the events of a key alternate up to the key as it is now, a key *)
(* acted upon or open is released before it is pressed again, a mark is on *)
(* the next event of its key, and records grow no older than a term.       *)
(***************************************************************************)
EXTENDS Tapping_proofs

(* What the press of an action turns on, and its release off again; how:   *)
(* "tap" when the record has a tap count, else "hold". Layers that are left  *)
(* on are in Switched.                                                      *)

CodesOf(a, how) ==
  IF a.kind = "key" \/ (a.kind \in {"mod_tap", "layer_tap"} /\ how = "tap") THEN {a.code} ELSE {}

IsWeak(a) == a.kind = "key" /\ a.code \notin Mod \cup {NoCode}

KeysOf(a, how) == CodesOf(a, how) \cap Code

RealOf(a, how) ==
  (CodesOf(a, how) \cap Mod) \cup
  (IF \/ a.kind = "key" /\ ~IsWeak(a)
      \/ a.kind \in {"mod_tap", "oneshot_mod"} /\ how = "hold"
      \/ a.kind = "layer_mod"
     THEN a.mods ELSE {})

WeakOf(a) == IF IsWeak(a) THEN a.mods ELSE {}

LayersOf(a, how) ==
  IF a.kind \in {"momentary", "layer_mod"} \/ (a.kind = "layer_tap" /\ how = "hold")
    THEN {a.layer} ELSE {}

\* The layers some key of the keymap leaves on, and with the one-shot layer those of LeftOn.
Switched(b) ==
  {b.keymap[x[1]][x[2]].layer : x \in {y \in Layer \X Key :
     b.keymap[y[1]][y[2]].kind \in {"toggle", "to", "tap_toggle"}}} \cup {0}

Own(b) == b.layers \ (Switched(b) \cup (IF b.osl # {} THEN {b.osl_layer} ELSE {}))

\* taps: the keys whose next release is one of a tap.
HowOf(taps, k) == IF k \in taps THEN "tap" ELSE "hold"

HowCounted(r) == IF r.count > 0 THEN "tap" ELSE "hold"

\* The releases of keys are those of a tap under S as under T.
SameHow(S, T, keys) == \A k \in keys : k \in S <=> k \in T

Counted(S, r) == r.key \in S <=> r.count > 0

\* Whatever is on is what the release of some key in acting takes back.
Backed(b, taps) ==
  /\ \A c \in b.keys : \E k \in b.acting : c \in KeysOf(CachedAction(b, k), HowOf(taps, k))
  /\ \A c \in b.real : \E k \in b.acting : c \in RealOf(CachedAction(b, k), HowOf(taps, k))
  /\ \A c \in b.weak : \E k \in b.acting : c \in WeakOf(CachedAction(b, k))
  /\ \A l \in Own(b) : \E k \in b.acting : l \in LayersOf(CachedAction(b, k), HowOf(taps, k))

Gains(b, c, a, how) ==
  /\ c.keys \subseteq b.keys \cup KeysOf(a, how) /\ c.real \subseteq b.real \cup RealOf(a, how)
  /\ c.weak \subseteq b.weak \cup WeakOf(a) /\ Own(c) \subseteq Own(b) \cup LayersOf(a, how)

Loses(b, c, a, how) ==
  /\ c.keys \subseteq b.keys \ KeysOf(a, how) /\ c.real \subseteq b.real \ RealOf(a, how)
  /\ c.weak \subseteq b.weak \ WeakOf(a) /\ Own(c) \subseteq Own(b) \ LayersOf(a, how)

\* Nothing is on that was not on before.
Keeps(b, c) ==
  /\ c.keys \subseteq b.keys /\ c.real \subseteq b.real
  /\ c.weak \subseteq b.weak /\ Own(c) \subseteq Own(b)

Looks(b, c) ==
  /\ c \in Keyboard /\ c.keymap = b.keymap /\ c.cache = b.cache /\ c.acting = b.acting

SameOneshot(b, c) == c.osl = b.osl /\ c.osl_layer = b.osl_layer

\* No one-shot layer is replaced by that of another key.
SameLayer(b, c) == b.osl # {} /\ c.osl # {} => c.osl_layer = b.osl_layer

ActingAfter(b, r) == IF ReleasedAtOnce(b, r) THEN b.acting ELSE b.acting \cup {r.key}

OfMap(b, a) == \E l \in Layer, k \in Key : a = b.keymap[l][k]

-----------------------------------------------------------------------------
(* The operators of KeyActions.                                            *)

LEMMA ReportedSame ==
  ASSUME NEW b \in Keyboard
  PROVE  LET c == Reported(b)
         IN  /\ Looks(b, c) /\ SameOneshot(b, c) /\ c.layers = b.layers
             /\ c.keys = b.keys /\ c.real = b.real /\ c.weak = b.weak
  BY ReportedType DEF Reported, Keyboard, Looks, SameOneshot

LEMMA RegisterModsOn ==
  ASSUME NEW b \in Keyboard, NEW mods \in SUBSET Mod
  PROVE  LET c == RegisterMods(b, mods)
         IN  /\ Looks(b, c) /\ SameOneshot(b, c) /\ c.layers = b.layers
             /\ c.keys = b.keys /\ c.real = b.real \cup mods /\ c.weak = b.weak
<1> DEFINE on == [b EXCEPT !.real = @ \cup mods]
<1>1. /\ on \in Keyboard /\ Looks(b, on) /\ SameOneshot(b, on) /\ on.layers = b.layers
      /\ on.keys = b.keys /\ on.real = b.real \cup mods /\ on.weak = b.weak
  BY DEF Keyboard, Looks, SameOneshot
<1> HIDE DEF on
<1> QED BY <1>1, ReportedSame DEF RegisterMods, Looks, SameOneshot, on

LEMMA UnregisterModsOff ==
  ASSUME NEW b \in Keyboard, NEW mods \in SUBSET Mod
  PROVE  LET c == UnregisterMods(b, mods)
         IN  /\ Looks(b, c) /\ SameOneshot(b, c) /\ c.layers = b.layers
             /\ c.keys = b.keys /\ c.real = b.real \ mods /\ c.weak = b.weak
<1> DEFINE off == [b EXCEPT !.real = @ \ mods]
<1>1. /\ off \in Keyboard /\ Looks(b, off) /\ SameOneshot(b, off) /\ off.layers = b.layers
      /\ off.keys = b.keys /\ off.real = b.real \ mods /\ off.weak = b.weak
  BY DEF Keyboard, Looks, SameOneshot
<1> HIDE DEF off
<1> QED BY <1>1, ReportedSame DEF UnregisterMods, Looks, SameOneshot, off

LEMMA WeakModsOnOff ==
  ASSUME NEW b \in Keyboard, NEW mods \in SUBSET Mod
  PROVE  /\ LET c == AddWeakMods(b, mods)
            IN  /\ Looks(b, c) /\ SameOneshot(b, c) /\ c.layers = b.layers
                /\ c.keys = b.keys /\ c.real = b.real /\ c.weak = b.weak \cup mods
         /\ LET c == DelWeakMods(b, mods)
            IN  /\ Looks(b, c) /\ SameOneshot(b, c) /\ c.layers = b.layers
                /\ c.keys = b.keys /\ c.real = b.real /\ c.weak = b.weak \ mods
<1> DEFINE on == [b EXCEPT !.weak = @ \cup mods]
           off == [b EXCEPT !.weak = @ \ mods]
<1>1. /\ on \in Keyboard /\ Looks(b, on) /\ SameOneshot(b, on) /\ on.layers = b.layers
      /\ on.keys = b.keys /\ on.real = b.real /\ on.weak = b.weak \cup mods
  BY DEF Keyboard, Looks, SameOneshot
<1>2. /\ off \in Keyboard /\ Looks(b, off) /\ SameOneshot(b, off) /\ off.layers = b.layers
      /\ off.keys = b.keys /\ off.real = b.real /\ off.weak = b.weak \ mods
  BY DEF Keyboard, Looks, SameOneshot
<1> HIDE DEF on, off
<1>3. CASE mods = {}
  BY <1>3 DEF AddWeakMods, DelWeakMods, Looks, SameOneshot
<1>4. CASE mods # {}
  BY <1>1, <1>2, <1>4, ReportedSame DEF AddWeakMods, DelWeakMods, Looks, SameOneshot, on, off
<1> QED BY <1>3, <1>4

\* A code goes into the report, a modifier among the modifiers.
LEMMA CodeOnOff ==
  ASSUME NEW b \in Keyboard, NEW code
  PROVE  /\ LET c == RegisterCode(b, code)
            IN  /\ Looks(b, c) /\ SameOneshot(b, c) /\ c.layers = b.layers /\ c.weak = b.weak
                /\ c.keys = b.keys \cup ({code} \cap Code)
                /\ c.real = b.real \cup ({code} \cap Mod)
         /\ LET c == UnregisterCode(b, code)
            IN  /\ Looks(b, c) /\ SameOneshot(b, c) /\ c.layers = b.layers /\ c.weak = b.weak
                /\ c.keys = b.keys \ ({code} \cap Code)
                /\ c.real = b.real \ ({code} \cap Mod)
<1> DEFINE on == [b EXCEPT !.keys = @ \cup {code}]
           off == [b EXCEPT !.keys = @ \ {code}]
<1>1. CASE code \in Code
  <2>1. /\ on \in Keyboard /\ Looks(b, on) /\ SameOneshot(b, on) /\ on.layers = b.layers
        /\ on.keys = b.keys \cup {code} /\ on.real = b.real /\ on.weak = b.weak
    BY <1>1 DEF Keyboard, Looks, SameOneshot
  <2>2. /\ off \in Keyboard /\ Looks(b, off) /\ SameOneshot(b, off) /\ off.layers = b.layers
        /\ off.keys = b.keys \ {code} /\ off.real = b.real /\ off.weak = b.weak
    BY <1>1 DEF Keyboard, Looks, SameOneshot
  <2>3. RegisterCode(b, code) = Reported(on) /\ UnregisterCode(b, code) = Reported(off)
    BY <1>1, CodeAssumption DEF RegisterCode, UnregisterCode
  <2>4. {code} \cap Code = {code} /\ {code} \cap Mod = {}
    BY <1>1, CodeAssumption
  <2> HIDE DEF on, off
  <2> QED BY <2>1, <2>2, <2>3, <2>4, ReportedSame DEF Looks, SameOneshot
<1>2. CASE code \notin Code /\ code \in Mod
  <2>1. /\ RegisterCode(b, code) = RegisterMods(b, {code})
        /\ UnregisterCode(b, code) = UnregisterMods(b, {code})
    BY <1>2 DEF RegisterCode, UnregisterCode
  <2>2. {code} \in SUBSET Mod /\ {code} \cap Mod = {code} /\ {code} \cap Code = {}
    BY <1>2
  <2> QED BY <2>1, <2>2, RegisterModsOn, UnregisterModsOff
<1>3. CASE code \notin Code \cup Mod
  <2>1. RegisterCode(b, code) = b /\ UnregisterCode(b, code) = b
    BY <1>3 DEF RegisterCode, UnregisterCode
  <2>2. {code} \cap Mod = {} /\ {code} \cap Code = {}
    BY <1>3
  <2> QED BY <2>1, <2>2 DEF Looks, SameOneshot
<1> QED BY <1>1, <1>2, <1>3

\* A layer that is switched on is owned unless some key leaves it on anyway.
LEMMA OwnLayers ==
  ASSUME NEW b \in Keyboard, NEW c \in Keyboard, c.keymap = b.keymap, SameOneshot(b, c)
  PROVE  /\ \A l : c.layers \subseteq b.layers \cup {l} => Own(c) \subseteq Own(b) \cup {l}
         /\ \A l \in Switched(b) : c.layers \subseteq b.layers \cup {l} => Own(c) \subseteq Own(b)
         /\ \A l : c.layers \subseteq b.layers \ {l} => Own(c) \subseteq Own(b) \ {l}
         /\ c.layers = b.layers => Own(c) = Own(b)
<1>1. Switched(c) = Switched(b)
  BY DEF Switched
<1> HIDE DEF Switched
<1> QED BY <1>1 DEF Own, SameOneshot

LEMMA SwitchedLayer ==
  ASSUME NEW b, NEW a, OfMap(b, a), a.kind \in {"toggle", "to", "tap_toggle"}
  PROVE  a.layer \in Switched(b)
<1>1. PICK l \in Layer, k \in Key : a = b.keymap[l][k]
  BY DEF OfMap
<1>2. <<l, k>> \in {y \in Layer \X Key :
                     b.keymap[y[1]][y[2]].kind \in {"toggle", "to", "tap_toggle"}}
  BY <1>1
<1>3. b.keymap[<<l, k>>[1]][<<l, k>>[2]].layer
        \in {b.keymap[x[1]][x[2]].layer : x \in {y \in Layer \X Key :
               b.keymap[y[1]][y[2]].kind \in {"toggle", "to", "tap_toggle"}}}
  BY <1>2
<1> QED BY <1>1, <1>3 DEF Switched

LEMMA LayerOnOwn ==
  ASSUME NEW b \in Keyboard, NEW l \in Layer
  PROVE  LET c == LayerOn(b, l)
         IN  /\ Looks(b, c) /\ SameOneshot(b, c) /\ c.layers = b.layers \cup {l}
             /\ c.keys = b.keys /\ c.real = b.real /\ c.weak = b.weak
             /\ Own(c) \subseteq Own(b) \cup {l}
             /\ l \in Switched(b) => Own(c) \subseteq Own(b)
<1> DEFINE c == LayerOn(b, l)
<1>1. /\ Looks(b, c) /\ SameOneshot(b, c) /\ c.layers = b.layers \cup {l}
      /\ c.keys = b.keys /\ c.real = b.real /\ c.weak = b.weak
  BY LayerOnType DEF LayerOn, Keyboard, Looks, SameOneshot
<1> HIDE DEF c
<1>2. Own(c) \subseteq Own(b) \cup {l} /\ (l \in Switched(b) => Own(c) \subseteq Own(b))
  BY <1>1, OwnLayers DEF Looks
<1> QED BY <1>1, <1>2 DEF c

LEMMA LayerOffOwn ==
  ASSUME NEW b \in Keyboard, NEW l \in Layer
  PROVE  LET c == LayerOff(b, l)
         IN  /\ Looks(b, c) /\ SameOneshot(b, c) /\ c.layers = b.layers \ {l}
             /\ c.keys = b.keys /\ c.real = b.real /\ c.weak = b.weak
             /\ Own(c) \subseteq Own(b) \ {l}
<1> DEFINE c == LayerOff(b, l)
<1>1. /\ Looks(b, c) /\ SameOneshot(b, c) /\ c.layers = b.layers \ {l}
      /\ c.keys = b.keys /\ c.real = b.real /\ c.weak = b.weak
  BY LayerOffType DEF LayerOff, Keyboard, Looks, SameOneshot
<1> HIDE DEF c
<1>2. Own(c) \subseteq Own(b) \ {l}
  BY <1>1, OwnLayers DEF Looks
<1> QED BY <1>1, <1>2 DEF c

LEMMA SwitchOwn ==
  ASSUME NEW b \in Keyboard, NEW l \in Switched(b), l \in Layer,
         NEW c, c = LayerInvert(b, l) \/ c = LayerMove(b, l)
  PROVE  /\ Looks(b, c) /\ SameOneshot(b, c)
         /\ c.keys = b.keys /\ c.real = b.real /\ c.weak = b.weak /\ Own(c) \subseteq Own(b)
<1>1. CASE c = LayerMove(b, l)
  <2>1. /\ Looks(b, c) /\ SameOneshot(b, c) /\ c.layers = {l}
        /\ c.keys = b.keys /\ c.real = b.real /\ c.weak = b.weak
    BY <1>1, LayerMoveType DEF LayerMove, Keyboard, Looks, SameOneshot
  <2>2. Own(c) \subseteq Own(b)
    BY <2>1, OwnLayers DEF Looks
  <2> QED BY <2>1, <2>2
<1>2. CASE c = LayerOn(b, l)
  BY <1>2, LayerOnOwn
<1>3. CASE c = LayerOff(b, l)
  BY <1>3, LayerOffOwn
<1> QED BY <1>1, <1>2, <1>3 DEF LayerInvert

\* The end of a one-shot layer switches it off.
LEMMA ClearOneshotOwn ==
  ASSUME NEW b \in Keyboard, NEW bit
  PROVE  LET c == ClearOneshotLayer(b, bit)
         IN  /\ Looks(b, c) /\ c.keys = b.keys /\ c.real = b.real /\ c.weak = b.weak
             /\ Own(c) \subseteq Own(b) /\ c.layers \subseteq b.layers
             /\ c.osl # {} => b.osl # {} /\ c.osl_layer = b.osl_layer
             /\ b.osl = {bit} => c.osl = {}
<1> DEFINE c == ClearOneshotLayer(b, bit)
<1>0. c \in Keyboard
  BY OneshotLayerTypes, LayerAssumption
<1>1. CASE b.osl = {bit}
  <2> DEFINE off == LayerOff(b, b.osl_layer)
  <2>1. /\ off \in Keyboard /\ off.keymap = b.keymap /\ off.cache = b.cache /\ off.acting = b.acting
        /\ off.keys = b.keys /\ off.real = b.real /\ off.weak = b.weak
        /\ off.layers = b.layers \ {b.osl_layer}
    BY LayerOffOwn DEF Looks, Keyboard
  <2>2. c = [off EXCEPT !.osl = {}, !.osl_layer = 0]
    BY <1>1 DEF ClearOneshotLayer
  <2> HIDE DEF c, off
  <2>3. /\ c.keymap = b.keymap /\ c.cache = b.cache /\ c.acting = b.acting
        /\ c.keys = b.keys /\ c.real = b.real /\ c.weak = b.weak
        /\ c.layers = b.layers \ {b.osl_layer} /\ c.osl = {}
    BY <2>1, <2>2 DEF Keyboard
  <2>4. Switched(c) = Switched(b)
    BY <2>3 DEF Switched
  <2>5. Own(c) \subseteq Own(b)
    BY <2>3, <2>4 DEF Own
  <2> QED BY <1>0, <2>3, <2>5 DEF Looks, c
<1>2. CASE b.osl # {bit}
  <2>1. c = [b EXCEPT !.osl = @ \ {bit}]
    BY <1>2 DEF ClearOneshotLayer
  <2>2. /\ c.keymap = b.keymap /\ c.cache = b.cache /\ c.acting = b.acting
        /\ c.keys = b.keys /\ c.real = b.real /\ c.weak = b.weak
        /\ c.layers = b.layers /\ c.osl = b.osl \ {bit} /\ c.osl_layer = b.osl_layer
    BY <2>1 DEF Keyboard
  <2>3. Switched(c) = Switched(b)
    BY <2>2 DEF Switched
  <2>4. c.osl = {} => b.osl = {}
    BY <1>2, <2>2
  <2>5. Own(c) \subseteq Own(b)
    BY <2>2, <2>3, <2>4 DEF Own
  <2> HIDE DEF c
  <2> QED BY <1>0, <1>2, <2>2, <2>5 DEF Looks, c
<1> QED BY <1>1, <1>2

LEMMA SetOneshotOwn ==
  ASSUME NEW b \in Keyboard, NEW l \in Layer, b.osl # {} => b.osl_layer = l
  PROVE  LET c == SetOneshotLayer(b, l)
         IN  /\ Looks(b, c) /\ c.keys = b.keys /\ c.real = b.real /\ c.weak = b.weak
             /\ Own(c) \subseteq Own(b) /\ c.osl # {} /\ c.osl_layer = l
<1> DEFINE c == SetOneshotLayer(b, l)
           on == LayerOn(b, l)
<1>0. c \in Keyboard
  BY OneshotLayerTypes, LayerAssumption
<1>1. /\ on \in Keyboard /\ on.keymap = b.keymap /\ on.cache = b.cache /\ on.acting = b.acting
      /\ on.keys = b.keys /\ on.real = b.real /\ on.weak = b.weak
      /\ on.layers = b.layers \cup {l}
  BY LayerOnOwn DEF Looks, Keyboard
<1>2. c = [on EXCEPT !.osl = {"pressed", "other"}, !.osl_layer = l]
  BY DEF SetOneshotLayer
<1> HIDE DEF c, on
<1>3. /\ c.keymap = b.keymap /\ c.cache = b.cache /\ c.acting = b.acting
      /\ c.keys = b.keys /\ c.real = b.real /\ c.weak = b.weak
      /\ c.layers = b.layers \cup {l} /\ c.osl # {} /\ c.osl_layer = l
  BY <1>1, <1>2 DEF Keyboard
<1>4. Switched(c) = Switched(b)
  BY <1>3 DEF Switched
<1>5. Own(c) \subseteq Own(b)
  BY <1>3, <1>4 DEF Own
<1> QED BY <1>0, <1>3, <1>5 DEF Looks, c

-----------------------------------------------------------------------------
(* process_action: a press turns on no more than the action says, and the  *)
(* release turns all of that off, whatever else is on.                     *)

LEMMA KeyActionMoves ==
  ASSUME NEW b \in Keyboard, NEW a \in Action, a.kind = "key", NEW how
  PROVE  /\ LET c == KeyAction(b, a, TRUE)
            IN  Looks(b, c) /\ SameOneshot(b, c) /\ Gains(b, c, a, how)
         /\ LET c == KeyAction(b, a, FALSE)
            IN  Looks(b, c) /\ SameOneshot(b, c) /\ Loses(b, c, a, how)
<1>1. a.mods \in SUBSET Mod /\ CodesOf(a, how) = {a.code} /\ LayersOf(a, how) = {}
  BY ActionParts DEF CodesOf, LayersOf
<1>2. CASE a.code \in Mod \cup {NoCode}
  <2> DEFINE on == RegisterMods(b, a.mods)
             freed == UnregisterCode(b, a.code)
  <2>1. /\ KeyAction(b, a, TRUE) = RegisterCode(on, a.code)
        /\ KeyAction(b, a, FALSE) = UnregisterMods(freed, a.mods)
    BY <1>2 DEF KeyAction
  <2>2. ~IsWeak(a) /\ WeakOf(a) = {} /\ RealOf(a, how) = ({a.code} \cap Mod) \cup a.mods
    BY <1>1, <1>2 DEF IsWeak, WeakOf, RealOf
  <2>3. /\ Looks(b, on) /\ SameOneshot(b, on) /\ on.layers = b.layers
        /\ on.keys = b.keys /\ on.real = b.real \cup a.mods /\ on.weak = b.weak
    BY <1>1, RegisterModsOn
  <2>4. /\ Looks(b, freed) /\ SameOneshot(b, freed) /\ freed.layers = b.layers
        /\ freed.weak = b.weak /\ freed.keys = b.keys \ ({a.code} \cap Code)
        /\ freed.real = b.real \ ({a.code} \cap Mod)
    BY CodeOnOff
  <2> HIDE DEF on, freed
  <2>5. LET c == RegisterCode(on, a.code)
        IN  /\ Looks(b, c) /\ SameOneshot(b, c) /\ c.layers = b.layers /\ c.weak = b.weak
            /\ c.keys = b.keys \cup ({a.code} \cap Code)
            /\ c.real = b.real \cup a.mods \cup ({a.code} \cap Mod)
    BY <2>3, CodeOnOff DEF Looks, SameOneshot
  <2>6. LET c == UnregisterMods(freed, a.mods)
        IN  /\ Looks(b, c) /\ SameOneshot(b, c) /\ c.layers = b.layers /\ c.weak = b.weak
            /\ c.keys = b.keys \ ({a.code} \cap Code)
            /\ c.real = (b.real \ ({a.code} \cap Mod)) \ a.mods
    BY <1>1, <2>4, UnregisterModsOff DEF Looks, SameOneshot
  <2>7. /\ Own(RegisterCode(on, a.code)) = Own(b)
        /\ Own(UnregisterMods(freed, a.mods)) = Own(b)
    BY <2>5, <2>6, OwnLayers DEF Looks
  <2> QED BY <1>1, <2>1, <2>2, <2>5, <2>6, <2>7 DEF Gains, Loses, KeysOf
<1>3. CASE a.code \notin Mod \cup {NoCode}
  <2> DEFINE on == AddWeakMods(b, a.mods)
             freed == UnregisterCode(b, a.code)
  <2>1. /\ KeyAction(b, a, TRUE) = RegisterCode(on, a.code)
        /\ KeyAction(b, a, FALSE) = DelWeakMods(freed, a.mods)
    BY <1>3 DEF KeyAction
  <2>2. IsWeak(a) /\ WeakOf(a) = a.mods /\ RealOf(a, how) = {} /\ {a.code} \cap Mod = {}
    BY <1>1, <1>3 DEF IsWeak, WeakOf, RealOf
  <2>3. /\ Looks(b, on) /\ SameOneshot(b, on) /\ on.layers = b.layers
        /\ on.keys = b.keys /\ on.real = b.real /\ on.weak = b.weak \cup a.mods
    BY <1>1, WeakModsOnOff
  <2>4. /\ Looks(b, freed) /\ SameOneshot(b, freed) /\ freed.layers = b.layers
        /\ freed.weak = b.weak /\ freed.keys = b.keys \ ({a.code} \cap Code)
        /\ freed.real = b.real \ ({a.code} \cap Mod)
    BY CodeOnOff
  <2> HIDE DEF on, freed
  <2>5. LET c == RegisterCode(on, a.code)
        IN  /\ Looks(b, c) /\ SameOneshot(b, c) /\ c.layers = b.layers
            /\ c.weak = b.weak \cup a.mods
            /\ c.keys = b.keys \cup ({a.code} \cap Code)
            /\ c.real = b.real \cup ({a.code} \cap Mod)
    BY <2>3, CodeOnOff DEF Looks, SameOneshot
  <2>6. LET c == DelWeakMods(freed, a.mods)
        IN  /\ Looks(b, c) /\ SameOneshot(b, c) /\ c.layers = b.layers
            /\ c.weak = b.weak \ a.mods
            /\ c.keys = b.keys \ ({a.code} \cap Code)
            /\ c.real = b.real \ ({a.code} \cap Mod)
    BY <1>1, <2>4, WeakModsOnOff DEF Looks, SameOneshot
  <2>7. /\ Own(RegisterCode(on, a.code)) = Own(b)
        /\ Own(DelWeakMods(freed, a.mods)) = Own(b)
    BY <2>5, <2>6, OwnLayers DEF Looks
  <2> QED BY <1>1, <2>1, <2>2, <2>5, <2>6, <2>7 DEF Gains, Loses, KeysOf
<1> QED BY <1>2, <1>3

\* The part of ModTap and LayerTap that is the code of a tap.
LEMMA TapCodeMoves ==
  ASSUME NEW b \in Keyboard, NEW a \in Action, a.kind \in {"mod_tap", "layer_tap"}
  PROVE  /\ LET c == RegisterCode(b, a.code)
            IN  Looks(b, c) /\ SameOneshot(b, c) /\ Gains(b, c, a, "tap")
         /\ LET c == UnregisterCode(b, a.code)
            IN  Looks(b, c) /\ SameOneshot(b, c) /\ Loses(b, c, a, "tap")
<1>1. /\ CodesOf(a, "tap") = {a.code} /\ LayersOf(a, "tap") = {} /\ WeakOf(a) = {}
      /\ RealOf(a, "tap") = {a.code} \cap Mod
  BY DEF CodesOf, LayersOf, WeakOf, IsWeak, RealOf
<1>2. /\ Own(RegisterCode(b, a.code)) = Own(b) /\ Own(UnregisterCode(b, a.code)) = Own(b)
  BY CodeOnOff, OwnLayers DEF Looks
<1> QED BY <1>1, <1>2, CodeOnOff DEF Gains, Loses, KeysOf

LEMMA ModsOwn ==
  ASSUME NEW b \in Keyboard, NEW mods \in SUBSET Mod
  PROVE  /\ LET c == RegisterMods(b, mods)
            IN  /\ Looks(b, c) /\ SameOneshot(b, c) /\ c.keys = b.keys
                /\ c.real = b.real \cup mods /\ c.weak = b.weak /\ Own(c) = Own(b)
         /\ LET c == UnregisterMods(b, mods)
            IN  /\ Looks(b, c) /\ SameOneshot(b, c) /\ c.keys = b.keys
                /\ c.real = b.real \ mods /\ c.weak = b.weak /\ Own(c) = Own(b)
<1>1. /\ Own(RegisterMods(b, mods)) = Own(b) /\ Own(UnregisterMods(b, mods)) = Own(b)
  BY RegisterModsOn, UnregisterModsOff, OwnLayers DEF Looks
<1> QED BY <1>1, RegisterModsOn, UnregisterModsOff

LEMMA ModTapMoves ==
  ASSUME NEW b \in Keyboard, NEW a \in Action, a.kind = "mod_tap",
         NEW count \in Nat, NEW how,
         (how = "tap" /\ count > 0) \/ (how = "hold" /\ count = 0)
  PROVE  /\ LET c == ModTap(b, a, TRUE, count)
            IN  Looks(b, c) /\ SameOneshot(b, c) /\ Gains(b, c, a, how)
         /\ LET c == ModTap(b, a, FALSE, count)
            IN  Looks(b, c) /\ SameOneshot(b, c) /\ Loses(b, c, a, how)
<1>1. CASE how = "tap"
  BY <1>1, TapCodeMoves DEF ModTap
<1>2. CASE how = "hold"
  <2>1. /\ ModTap(b, a, TRUE, count) = RegisterMods(b, a.mods)
        /\ ModTap(b, a, FALSE, count) = UnregisterMods(b, a.mods)
    BY <1>2 DEF ModTap
  <2>2. /\ KeysOf(a, how) = {} /\ LayersOf(a, how) = {} /\ WeakOf(a) = {}
        /\ RealOf(a, how) = a.mods /\ a.mods \in SUBSET Mod
    BY <1>2, ActionParts DEF CodesOf, KeysOf, LayersOf, WeakOf, IsWeak, RealOf
  <2>3. LET c == RegisterMods(b, a.mods)
        IN  Looks(b, c) /\ SameOneshot(b, c) /\ Gains(b, c, a, how)
    BY <2>2, ModsOwn DEF Gains
  <2>4. LET c == UnregisterMods(b, a.mods)
        IN  Looks(b, c) /\ SameOneshot(b, c) /\ Loses(b, c, a, how)
    BY <2>2, ModsOwn DEF Loses
  <2> QED BY <2>1, <2>3, <2>4
<1> QED BY <1>1, <1>2

LEMMA OneshotModMoves ==
  ASSUME NEW b \in Keyboard, NEW a \in Action, a.kind = "oneshot_mod",
         NEW count \in Nat, NEW how,
         (how = "tap" /\ count > 0) \/ (how = "hold" /\ count = 0)
  PROVE  /\ LET c == OneshotMod(b, a, TRUE, count)
            IN  Looks(b, c) /\ SameOneshot(b, c) /\ Gains(b, c, a, how)
         /\ LET c == OneshotMod(b, a, FALSE, count)
            IN  Looks(b, c) /\ SameOneshot(b, c) /\ Loses(b, c, a, how)
<1>0. /\ KeysOf(a, how) = {} /\ LayersOf(a, how) = {} /\ WeakOf(a) = {}
      /\ RealOf(a, how) = IF how = "tap" THEN {} ELSE a.mods
      /\ a.mods \in SUBSET Mod
  BY ActionParts DEF CodesOf, KeysOf, LayersOf, WeakOf, IsWeak, RealOf
<1>1. ASSUME NEW c, Looks(b, c), SameOneshot(b, c), c.layers = b.layers
      PROVE  Own(c) = Own(b)
  BY <1>1, OwnLayers DEF Looks
<1>2. CASE how = "hold"
  <2> DEFINE off == UnregisterMods(b, a.mods)
             c == [off EXCEPT !.oneshot = @ \ a.mods]
  <2>1. /\ OneshotMod(b, a, TRUE, count) = RegisterMods(b, a.mods)
        /\ OneshotMod(b, a, FALSE, count) = c
    BY <1>2 DEF OneshotMod
  <2>2. /\ Looks(b, off) /\ SameOneshot(b, off) /\ off.layers = b.layers
        /\ off.keys = b.keys /\ off.real = b.real \ a.mods /\ off.weak = b.weak
    BY <1>0, UnregisterModsOff
  <2> HIDE DEF off
  <2>3. /\ Looks(b, c) /\ SameOneshot(b, c) /\ c.layers = b.layers
        /\ c.keys = b.keys /\ c.real = b.real \ a.mods /\ c.weak = b.weak
    BY <2>2, <1>0 DEF Looks, SameOneshot, Keyboard
  <2> HIDE DEF c
  <2>4. Own(c) = Own(b) /\ RealOf(a, how) = a.mods
    BY <1>0, <1>1, <1>2, <2>3
  <2>5. Looks(b, c) /\ SameOneshot(b, c) /\ Loses(b, c, a, how)
    BY <1>0, <2>3, <2>4 DEF Loses
  <2>6. LET on == RegisterMods(b, a.mods)
        IN  Looks(b, on) /\ SameOneshot(b, on) /\ Gains(b, on, a, how)
    BY <1>0, <2>4, ModsOwn DEF Gains
  <2> QED BY <2>1, <2>5, <2>6
<1>3. CASE how = "tap"
  <2> DEFINE c == [b EXCEPT !.oneshot = @ \cup a.mods]
  <2>1. /\ OneshotMod(b, a, TRUE, count) \in {b, c}
        /\ OneshotMod(b, a, FALSE, count) = b
    BY <1>3 DEF OneshotMod
  <2>2. /\ Looks(b, c) /\ SameOneshot(b, c) /\ c.layers = b.layers
        /\ c.keys = b.keys /\ c.real = b.real /\ c.weak = b.weak
    BY <1>0 DEF Looks, SameOneshot, Keyboard
  <2> HIDE DEF c
  <2>3. Looks(b, b) /\ SameOneshot(b, b)
    BY DEF Looks, SameOneshot
  <2> QED BY <1>0, <1>1, <1>3, <2>1, <2>2, <2>3 DEF Gains, Loses
<1> QED BY <1>2, <1>3

LEMMA LayerTapMoves ==
  ASSUME NEW b \in Keyboard, NEW a \in Action, a.kind = "layer_tap",
         NEW count \in Nat, NEW how,
         (how = "tap" /\ count > 0) \/ (how = "hold" /\ count = 0)
  PROVE  /\ LET c == LayerTap(b, a, TRUE, count)
            IN  Looks(b, c) /\ SameOneshot(b, c) /\ Gains(b, c, a, how)
         /\ LET c == LayerTap(b, a, FALSE, count)
            IN  Looks(b, c) /\ SameOneshot(b, c) /\ Loses(b, c, a, how)
<1>1. CASE how = "tap"
  BY <1>1, TapCodeMoves DEF LayerTap
<1>2. CASE how = "hold"
  <2>1. /\ LayerTap(b, a, TRUE, count) = LayerOn(b, a.layer)
        /\ LayerTap(b, a, FALSE, count) = LayerOff(b, a.layer)
    BY <1>2 DEF LayerTap
  <2>2. /\ KeysOf(a, how) = {} /\ LayersOf(a, how) = {a.layer} /\ WeakOf(a) = {}
        /\ RealOf(a, how) = {} /\ a.layer \in Layer
    BY <1>2, ActionParts DEF CodesOf, KeysOf, LayersOf, WeakOf, IsWeak, RealOf
  <2>3. /\ Own(LayerOn(b, a.layer)) \subseteq Own(b) \cup {a.layer}
        /\ Own(LayerOff(b, a.layer)) \subseteq Own(b) \ {a.layer}
    BY <2>2, LayerOnOwn, LayerOffOwn
  <2>4. LET c == LayerOn(b, a.layer)
        IN  Looks(b, c) /\ SameOneshot(b, c) /\ Gains(b, c, a, how)
    BY <2>2, <2>3, LayerOnOwn DEF Gains
  <2>5. LET c == LayerOff(b, a.layer)
        IN  Looks(b, c) /\ SameOneshot(b, c) /\ Loses(b, c, a, how)
    BY <2>2, <2>3, LayerOffOwn DEF Loses
  <2> QED BY <2>1, <2>4, <2>5
<1> QED BY <1>1, <1>2

LEMMA LayerModMoves ==
  ASSUME NEW b \in Keyboard, NEW a \in Action, a.kind = "layer_mod", NEW how
  PROVE  /\ LET c == LayerMod(b, a, TRUE)
            IN  Looks(b, c) /\ SameOneshot(b, c) /\ Gains(b, c, a, how)
         /\ LET c == LayerMod(b, a, FALSE)
            IN  Looks(b, c) /\ SameOneshot(b, c) /\ Loses(b, c, a, how)
<1> DEFINE on == LayerOn(b, a.layer)
           off == UnregisterMods(b, a.mods)
<1>1. /\ KeysOf(a, how) = {} /\ LayersOf(a, how) = {a.layer} /\ WeakOf(a) = {}
      /\ RealOf(a, how) = a.mods /\ a.layer \in Layer /\ a.mods \in SUBSET Mod
  BY ActionParts DEF CodesOf, KeysOf, LayersOf, WeakOf, IsWeak, RealOf
<1>2. /\ LayerMod(b, a, TRUE) = RegisterMods(on, a.mods)
      /\ LayerMod(b, a, FALSE) = LayerOff(off, a.layer)
  BY DEF LayerMod
<1>3. /\ Looks(b, on) /\ SameOneshot(b, on) /\ on.layers = b.layers \cup {a.layer}
      /\ on.keys = b.keys /\ on.real = b.real /\ on.weak = b.weak
  BY <1>1, LayerOnOwn
<1>4. /\ Looks(b, off) /\ SameOneshot(b, off) /\ off.layers = b.layers
      /\ off.keys = b.keys /\ off.real = b.real \ a.mods /\ off.weak = b.weak
  BY <1>1, UnregisterModsOff
<1> HIDE DEF on, off
<1>5. LET c == RegisterMods(on, a.mods)
      IN  /\ Looks(b, c) /\ SameOneshot(b, c) /\ c.layers = b.layers \cup {a.layer}
          /\ c.keys = b.keys /\ c.real = b.real \cup a.mods /\ c.weak = b.weak
  BY <1>1, <1>3, RegisterModsOn DEF Looks, SameOneshot
<1>6. LET c == LayerOff(off, a.layer)
      IN  /\ Looks(b, c) /\ SameOneshot(b, c) /\ c.layers = b.layers \ {a.layer}
          /\ c.keys = b.keys /\ c.real = b.real \ a.mods /\ c.weak = b.weak
  BY <1>1, <1>4, LayerOffOwn DEF Looks, SameOneshot
<1>7. Own(RegisterMods(on, a.mods)) \subseteq Own(b) \cup {a.layer}
  <2> DEFINE c == RegisterMods(on, a.mods)
  <2>1. /\ c \in Keyboard /\ c.keymap = b.keymap /\ SameOneshot(b, c)
        /\ c.layers \subseteq b.layers \cup {a.layer}
    BY <1>5 DEF Looks
  <2> HIDE DEF c
  <2>2. Own(c) \subseteq Own(b) \cup {a.layer}
    BY <2>1, OwnLayers
  <2> QED BY <2>2 DEF c
<1>8. Own(LayerOff(off, a.layer)) \subseteq Own(b) \ {a.layer}
  <2> DEFINE c == LayerOff(off, a.layer)
  <2>1. /\ c \in Keyboard /\ c.keymap = b.keymap /\ SameOneshot(b, c)
        /\ c.layers \subseteq b.layers \ {a.layer}
    BY <1>6 DEF Looks
  <2> HIDE DEF c
  <2>2. Own(c) \subseteq Own(b) \ {a.layer}
    BY <2>1, OwnLayers
  <2> QED BY <2>2 DEF c
<1> QED BY <1>1, <1>2, <1>5, <1>6, <1>7, <1>8 DEF Gains, Loses

\* The kinds that do nothing but switch a layer.
LEMMA SwitchMoves ==
  ASSUME NEW b \in Keyboard, NEW a \in Action, OfMap(b, a), NEW how, NEW count \in Nat,
         a.kind \in {"momentary", "tap_toggle", "toggle", "to", "transparent"}
  PROVE  /\ LET c == Acted(b, a, TRUE, count)
            IN  Looks(b, c) /\ SameOneshot(b, c) /\ Gains(b, c, a, how)
         /\ LET c == Acted(b, a, FALSE, count)
            IN  Looks(b, c) /\ SameOneshot(b, c) /\ Loses(b, c, a, how)
<1>1. /\ KeysOf(a, how) = {} /\ WeakOf(a) = {} /\ RealOf(a, how) = {} /\ a.layer \in Layer
      /\ LayersOf(a, how) = IF a.kind = "momentary" THEN {a.layer} ELSE {}
  BY ActionParts DEF CodesOf, KeysOf, LayersOf, WeakOf, IsWeak, RealOf
<1>2. CASE a.kind = "momentary"
  <2>1. /\ Acted(b, a, TRUE, count) = LayerOn(b, a.layer)
        /\ Acted(b, a, FALSE, count) = LayerOff(b, a.layer)
    BY <1>2 DEF Acted
  <2>2. /\ Own(LayerOn(b, a.layer)) \subseteq Own(b) \cup {a.layer}
        /\ Own(LayerOff(b, a.layer)) \subseteq Own(b) \ {a.layer}
    BY <1>1, LayerOnOwn, LayerOffOwn
  <2>3. LET c == LayerOn(b, a.layer)
        IN  Looks(b, c) /\ SameOneshot(b, c) /\ Gains(b, c, a, how)
    BY <1>1, <1>2, <2>2, LayerOnOwn DEF Gains
  <2>4. LET c == LayerOff(b, a.layer)
        IN  Looks(b, c) /\ SameOneshot(b, c) /\ Loses(b, c, a, how)
    BY <1>1, <1>2, <2>2, LayerOffOwn DEF Loses
  <2> QED BY <2>1, <2>3, <2>4
<1>3. CASE a.kind # "momentary"
  <2>1. ASSUME NEW pressed \in BOOLEAN
        PROVE  LET c == Acted(b, a, pressed, count)
               IN  /\ Looks(b, c) /\ SameOneshot(b, c)
                   /\ c.keys = b.keys /\ c.real = b.real /\ c.weak = b.weak
                        /\ Own(c) \subseteq Own(b)
    <3>1. CASE Acted(b, a, pressed, count) = b
      BY <3>1 DEF Looks, SameOneshot
    <3>2. CASE /\ Acted(b, a, pressed, count) \in {LayerInvert(b, a.layer), LayerMove(b, a.layer)}
               /\ a.kind # "transparent"
      BY <1>1, <1>3, <3>2, SwitchedLayer, SwitchOwn
    <3> QED BY <1>3, <3>1, <3>2 DEF Acted, TapToggle
  <2> QED BY <1>1, <1>3, <2>1 DEF Gains, Loses
<1> QED BY <1>2, <1>3

LEMMA OneshotLayerOn ==
  ASSUME NEW b \in Keyboard, NEW a \in Action, a.kind = "oneshot_layer", NEW how,
         NEW count \in Nat, b.osl # {} => b.osl_layer = a.layer
  PROVE  LET c == OneshotLayer(b, a, TRUE, count)
         IN  Looks(b, c) /\ Gains(b, c, a, how) /\ c.osl # {} /\ c.osl_layer = a.layer
<1>1. /\ KeysOf(a, how) = {} /\ LayersOf(a, how) = {} /\ WeakOf(a) = {}
      /\ RealOf(a, how) = {} /\ a.layer \in Layer
  BY ActionParts DEF CodesOf, KeysOf, LayersOf, WeakOf, IsWeak, RealOf
<1>2. OneshotLayer(b, a, TRUE, count) = SetOneshotLayer(b, a.layer)
  BY DEF OneshotLayer
<1> DEFINE c == SetOneshotLayer(b, a.layer)
<1>3. /\ Looks(b, c) /\ c.keys = b.keys /\ c.real = b.real /\ c.weak = b.weak
      /\ Own(c) \subseteq Own(b) /\ c.osl # {} /\ c.osl_layer = a.layer
  BY <1>1, SetOneshotOwn
<1> HIDE DEF c
<1>4. Gains(b, c, a, how)
  BY <1>1, <1>3 DEF Gains
<1> QED BY <1>2, <1>3, <1>4 DEF c

LEMMA OneshotLayerOff ==
  ASSUME NEW b \in Keyboard, NEW a \in Action, a.kind = "oneshot_layer", NEW how, NEW count \in Nat
  PROVE  LET c == OneshotLayer(b, a, FALSE, count)
         IN  /\ Looks(b, c) /\ Loses(b, c, a, how)
             /\ c.osl # {} => b.osl # {} /\ c.osl_layer = b.osl_layer
<1>1. /\ KeysOf(a, how) = {} /\ LayersOf(a, how) = {} /\ WeakOf(a) = {} /\ RealOf(a, how) = {}
  BY DEF CodesOf, KeysOf, LayersOf, WeakOf, IsWeak, RealOf
<1> DEFINE up == ClearOneshotLayer(b, "pressed")
           both == ClearOneshotLayer(up, "other")
<1>2. /\ Looks(b, up) /\ up.keys = b.keys /\ up.real = b.real /\ up.weak = b.weak
      /\ Own(up) \subseteq Own(b) /\ (up.osl # {} => b.osl # {} /\ up.osl_layer = b.osl_layer)
  BY ClearOneshotOwn
<1>3. OneshotLayer(b, a, FALSE, count) \in {up, both}
  BY DEF OneshotLayer
<1> HIDE DEF up
<1>4. /\ Looks(up, both) /\ both.keys = up.keys /\ both.real = up.real /\ both.weak = up.weak
      /\ Own(both) \subseteq Own(up) /\ (both.osl # {} => up.osl # {} /\ both.osl_layer = up.osl_layer)
  BY <1>2, ClearOneshotOwn DEF Looks
<1> HIDE DEF both
<1>5. Loses(b, up, a, how) /\ Loses(b, both, a, how) /\ Looks(b, both)
  BY <1>1, <1>2, <1>4 DEF Loses, Looks
<1> QED BY <1>2, <1>3, <1>4, <1>5

LEMMA ActedPress ==
  ASSUME NEW b \in Keyboard, NEW a \in Action, OfMap(b, a), NEW count \in Nat, NEW how,
         (how = "tap" /\ count > 0) \/ (how = "hold" /\ count = 0),
         a.kind = "oneshot_layer" /\ b.osl # {} => b.osl_layer = a.layer
  PROVE  LET c == Acted(b, a, TRUE, count)
         IN  /\ Looks(b, c) /\ Gains(b, c, a, how)
             /\ a.kind # "oneshot_layer" => SameOneshot(b, c)
             /\ a.kind = "oneshot_layer" => c.osl # {} /\ c.osl_layer = a.layer
<1>1. CASE a.kind = "key"
  BY <1>1, KeyActionMoves DEF Acted
<1>2. CASE a.kind = "mod_tap"
  BY <1>2, ModTapMoves DEF Acted
<1>3. CASE a.kind = "oneshot_mod"
  BY <1>3, OneshotModMoves DEF Acted
<1>4. CASE a.kind = "layer_tap"
  BY <1>4, LayerTapMoves DEF Acted
<1>5. CASE a.kind = "layer_mod"
  BY <1>5, LayerModMoves DEF Acted
<1>6. CASE a.kind \in {"momentary", "tap_toggle", "toggle", "to", "transparent"}
  <2>1. a.kind # "oneshot_layer"
    BY <1>6
  <2>2. LET c == Acted(b, a, TRUE, count) IN Looks(b, c) /\ SameOneshot(b, c) /\ Gains(b, c, a, how)
    BY <1>6, SwitchMoves
  <2> QED BY <2>1, <2>2
<1>7. CASE a.kind = "oneshot_layer"
  <2>1. Acted(b, a, TRUE, count) = OneshotLayer(b, a, TRUE, count)
    BY <1>7 DEF Acted
  <2>2. b.osl # {} => b.osl_layer = a.layer
    BY <1>7
  <2> QED BY <1>7, <2>1, <2>2, OneshotLayerOn
<1> QED BY <1>1, <1>2, <1>3, <1>4, <1>5, <1>6, <1>7 DEF Action, Kinds

LEMMA ActedRelease ==
  ASSUME NEW b \in Keyboard, NEW a \in Action, OfMap(b, a), NEW count \in Nat, NEW how,
         (how = "tap" /\ count > 0) \/ (how = "hold" /\ count = 0)
  PROVE  LET c == Acted(b, a, FALSE, count)
         IN  /\ Looks(b, c) /\ Loses(b, c, a, how)
             /\ c.osl # {} => b.osl # {} /\ c.osl_layer = b.osl_layer
<1>0. ASSUME NEW c, SameOneshot(b, c) PROVE c.osl # {} => b.osl # {} /\ c.osl_layer = b.osl_layer
  BY <1>0 DEF SameOneshot
<1>1. CASE a.kind = "key"
  BY <1>0, <1>1, KeyActionMoves DEF Acted
<1>2. CASE a.kind = "mod_tap"
  BY <1>0, <1>2, ModTapMoves DEF Acted
<1>3. CASE a.kind = "oneshot_mod"
  BY <1>0, <1>3, OneshotModMoves DEF Acted
<1>4. CASE a.kind = "layer_tap"
  BY <1>0, <1>4, LayerTapMoves DEF Acted
<1>5. CASE a.kind = "layer_mod"
  BY <1>0, <1>5, LayerModMoves DEF Acted
<1>6. CASE a.kind \in {"momentary", "tap_toggle", "toggle", "to", "transparent"}
  <2>1. LET c == Acted(b, a, FALSE, count) IN Looks(b, c) /\ SameOneshot(b, c)
          /\ Loses(b, c, a, how)
    BY <1>6, SwitchMoves
  <2> QED BY <1>0, <2>1
<1>7. CASE a.kind = "oneshot_layer"
  BY <1>7, OneshotLayerOff DEF Acted
<1> QED BY <1>1, <1>2, <1>3, <1>4, <1>5, <1>6, <1>7 DEF Action, Kinds

-----------------------------------------------------------------------------
(* process_record.                                                         *)

LEMMA CachedOwn ==
  ASSUME NEW b \in Keyboard, NEW k \in Key
  PROVE  LET c == Cached(b, k)
         IN  /\ c \in Keyboard /\ c.keymap = b.keymap /\ c.acting = b.acting /\ SameOneshot(b, c)
             /\ c.cache = [b.cache EXCEPT ![k] = SourceLayer(b, k)]
             /\ c.keys = b.keys /\ c.real = b.real /\ c.weak = b.weak /\ Own(c) = Own(b)
<1> DEFINE c == Cached(b, k)
<1>1. /\ c \in Keyboard /\ c.keymap = b.keymap /\ c.acting = b.acting /\ SameOneshot(b, c)
      /\ c.cache = [b.cache EXCEPT ![k] = SourceLayer(b, k)]
      /\ c.keys = b.keys /\ c.real = b.real /\ c.weak = b.weak /\ c.layers = b.layers
  BY CachedType DEF Cached, Keyboard, SameOneshot
<1> HIDE DEF c
<1>2. Own(c) = Own(b)
  BY <1>1, OwnLayers
<1> QED BY <1>1, <1>2 DEF c

LEMMA ActionsOfMap ==
  ASSUME NEW b \in Keyboard, NEW k \in Key
  PROVE  /\ LayerAction(b, k) \in Action /\ OfMap(b, LayerAction(b, k))
         /\ CachedAction(b, k) \in Action /\ OfMap(b, CachedAction(b, k))
<1>1. SourceLayer(b, k) \in Layer /\ b.cache[k] \in Layer
  BY SourceLayerType DEF Keyboard
<1> QED BY <1>1, LayerActionType, CachedActionType DEF LayerAction, CachedAction, OfMap

\* A press turns on what the action of its layer says, and the cache knows that layer; a
\* key released at once leaves nothing on.
LEMMA PressMoves ==
  ASSUME NEW b \in Keyboard, NEW r \in Record, IsEvent(r), r.pressed, NEW how,
         (how = "tap" /\ r.count > 0) \/ (how = "hold" /\ r.count = 0),
         SameLayer(b, PressProcessed(b, r))
  PROVE  LET c == PressProcessed(b, r)
         IN  /\ c \in Keyboard /\ c.keymap = b.keymap /\ c.acting = b.acting
             /\ c.cache = [b.cache EXCEPT ![r.key] = SourceLayer(b, r.key)]
             /\ ~ReleasedAtOnce(b, r) => Gains(b, c, LayerAction(b, r.key), how)
             /\ ReleasedAtOnce(b, r) => Keeps(b, c)
<1> DEFINE a == LayerAction(b, r.key)
           cached == Cached(b, r.key)
           cleared == ClearOneshotLayer(cached, "other")
           ended == IF b.osl # {} /\ EndsOneshot(a, r.count) THEN cleared ELSE cached
           acted == Acted(ended, a, TRUE, r.count)
           base == LayerOn(acted, 0)
           up == Acted(base, a, FALSE, r.count)
           final == LayerOff(up, 0)
<1>0. r.key \in Key /\ r.count \in Nat /\ 0 \in Layer
  BY RecordParts, CountAssumption, LayerAssumption DEF Record
<1>1. /\ PressProcessed(b, r) = IF ReleasedAtOnce(b, r) THEN final ELSE acted
      /\ ReleasedAtOnce(b, r) =>
           b.osl = {"other"} /\ EndsOneshot(a, r.count) /\ a.kind # "oneshot_layer"
  BY DEF PressProcessed, ReleasedAtOnce
<1>2. a \in Action /\ OfMap(b, a)
  BY <1>0, ActionsOfMap
<1>3. /\ cached \in Keyboard /\ cached.keymap = b.keymap /\ cached.acting = b.acting
      /\ cached.cache = [b.cache EXCEPT ![r.key] = SourceLayer(b, r.key)]
      /\ cached.keys = b.keys /\ cached.real = b.real /\ cached.weak = b.weak
      /\ Own(cached) = Own(b) /\ cached.osl = b.osl /\ cached.osl_layer = b.osl_layer
  BY <1>0, CachedOwn DEF SameOneshot
<1> HIDE DEF a, cached
<1>4. /\ Looks(cached, cleared) /\ Keeps(cached, cleared)
      /\ cleared.osl # {} => cached.osl # {} /\ cleared.osl_layer = cached.osl_layer
  BY <1>3, ClearOneshotOwn DEF Keeps
<1> HIDE DEF cleared
<1>5. /\ ended \in Keyboard /\ ended.keymap = b.keymap /\ ended.acting = b.acting
      /\ ended.cache = [b.cache EXCEPT ![r.key] = SourceLayer(b, r.key)] /\ Keeps(b, ended)
      /\ ended.osl # {} => b.osl # {} /\ ended.osl_layer = b.osl_layer
  BY <1>3, <1>4 DEF Looks, Keeps
<1> HIDE DEF ended
<1>6. OfMap(ended, a)
  BY <1>2, <1>5 DEF OfMap
<1>7. ASSUME a.kind = "oneshot_layer", ended.osl # {} PROVE ended.osl_layer = a.layer
  <2>1. /\ acted = OneshotLayer(ended, a, TRUE, r.count) /\ PressProcessed(b, r) = acted
        /\ OneshotLayer(ended, a, TRUE, r.count) = SetOneshotLayer(ended, a.layer)
    BY <1>1, <1>7 DEF Acted, OneshotLayer
  <2>2. acted.osl # {} /\ acted.osl_layer = a.layer
    <3> DEFINE on == LayerOn(ended, a.layer)
               set == [on EXCEPT !.osl = {"pressed", "other"}, !.osl_layer = a.layer]
    <3>1. on \in Keyboard
      BY <1>2, <1>5, ActionParts, LayerOnType
    <3>2. SetOneshotLayer(ended, a.layer) = set
      BY DEF SetOneshotLayer
    <3> HIDE DEF on
    <3>3. set.osl = {"pressed", "other"} /\ set.osl_layer = a.layer
      BY <3>1 DEF Keyboard
    <3> HIDE DEF acted, set
    <3>4. acted = set
      BY <2>1, <3>2
    <3> QED BY <3>3, <3>4
  <2> QED BY <1>5, <1>7, <2>1, <2>2 DEF SameLayer
<1>8. /\ Looks(ended, acted) /\ Gains(ended, acted, a, how)
  BY <1>0, <1>2, <1>5, <1>6, <1>7, ActedPress
<1> HIDE DEF acted
<1>9. Gains(b, acted, a, how)
  BY <1>5, <1>8 DEF Gains, Keeps
<1>10. CASE ~ReleasedAtOnce(b, r)
  BY <1>1, <1>5, <1>8, <1>9, <1>10 DEF Looks, a
<1>11. CASE ReleasedAtOnce(b, r)
  <2>1. 0 \in Switched(acted)
    BY DEF Switched
  <2>2. Looks(acted, base) /\ Keeps(acted, base)
    BY <1>0, <1>8, <2>1, LayerOnOwn DEF Looks, Keeps
  <2> HIDE DEF base
  <2>3. OfMap(base, a)
    BY <1>6, <1>8, <2>2 DEF OfMap, Looks
  <2>4. Looks(base, up) /\ Loses(base, up, a, how)
    BY <1>0, <1>2, <2>2, <2>3, ActedRelease DEF Looks
  <2> HIDE DEF up
  <2>5. Looks(up, final) /\ Keeps(up, final)
    BY <1>0, <2>4, LayerOffOwn DEF Looks, Keeps
  <2> HIDE DEF final
  <2>6. /\ Keeps(b, final) /\ final \in Keyboard /\ final.keymap = b.keymap
        /\ final.acting = b.acting /\ final.cache = ended.cache
    BY <1>5, <1>8, <1>9, <2>2, <2>4, <2>5 DEF Looks, Keeps, Gains, Loses
  <2> QED BY <1>1, <1>5, <1>11, <2>6
<1> QED BY <1>10, <1>11

LEMMA HowOfCases ==
  ASSUME NEW taps, NEW k
  PROVE  (HowOf(taps, k) = "tap" /\ k \in taps) \/ (HowOf(taps, k) = "hold" /\ k \notin taps)
  BY DEF HowOf

LEMMA HowCountedCases ==
  ASSUME NEW r, r.count \in Nat
  PROVE  (HowCounted(r) = "tap" /\ r.count > 0) \/ (HowCounted(r) = "hold" /\ r.count = 0)
<1>1. (HowCounted(r) = "tap" /\ r.count > 0) \/ (HowCounted(r) = "hold" /\ ~(r.count > 0))
  BY DEF HowCounted
<1>2. ~(r.count > 0) => r.count = 0
  OBVIOUS
<1> QED BY <1>1, <1>2

LEMMA HowSame ==
  ASSUME NEW S, NEW T, NEW keys, SameHow(S, T, keys)
  PROVE  \A k \in keys : HowOf(S, k) = HowOf(T, k)
  BY DEF SameHow, HowOf

\* A press that is acted upon is backed by its key.
LEMMA BackedPress ==
  ASSUME NEW b \in Keyboard, NEW r \in Record, IsEvent(r), r.pressed, r.key \notin b.acting,
         NEW taps, NEW taps2, Backed(b, taps),
         SameHow(taps, taps2, b.acting),
         ReleasedAtOnce(b, r) \/ Counted(taps2, r),
         SameLayer(b, PressProcessed(b, r)), NEW c, c = Processed(b, r)
  PROVE  /\ Backed(c, taps2)
         /\ c.acting = ActingAfter(b, r)
<1> DEFINE p == PressProcessed(b, r)
           a == LayerAction(b, r.key)
           how == HowCounted(r)
<1>0. r.key \in Key /\ r.count \in Nat
  BY RecordParts, CountAssumption DEF Record
<1>1. (how = "tap" /\ r.count > 0) \/ (how = "hold" /\ r.count = 0)
  BY <1>0, HowCountedCases
<1> HIDE DEF how
<1>2. /\ p \in Keyboard /\ p.keymap = b.keymap /\ p.acting = b.acting
      /\ p.cache = [b.cache EXCEPT ![r.key] = SourceLayer(b, r.key)]
      /\ ~ReleasedAtOnce(b, r) => Gains(b, p, a, how)
      /\ ReleasedAtOnce(b, r) => Keeps(b, p)
  BY <1>1, PressMoves
<1>3. /\ ReleasedAtOnce(b, r) => c = [p EXCEPT !.acting = @ \ {r.key}]
      /\ ~ReleasedAtOnce(b, r) => c = [p EXCEPT !.acting = @ \cup {r.key}]
  <2>1. AsProcessed(b, r).pressed = (r.pressed /\ ~ReleasedAtOnce(b, r))
    BY DEF AsProcessed, Record
  <2> QED BY <2>1 DEF Processed
<1> HIDE DEF p
<1>4. /\ c.keymap = p.keymap /\ c.cache = p.cache /\ c.keys = p.keys /\ c.real = p.real
      /\ c.weak = p.weak /\ c.layers = p.layers /\ c.osl = p.osl /\ c.osl_layer = p.osl_layer
      /\ c.acting = IF ReleasedAtOnce(b, r) THEN b.acting ELSE b.acting \cup {r.key}
  <2>1. CASE ReleasedAtOnce(b, r)
    <3>1. b.acting \ {r.key} = b.acting
      OBVIOUS
    <3>2. c = [p EXCEPT !.acting = @ \ {r.key}]
      BY <1>3, <2>1
    <3> QED BY <1>2, <2>1, <3>1, <3>2 DEF Keyboard
  <2>2. CASE ~ReleasedAtOnce(b, r)
    BY <1>2, <1>3, <2>2 DEF Keyboard
  <2> QED BY <2>1, <2>2
<1>5. Own(c) = Own(p)
  BY <1>4 DEF Own, Switched
<1>6. \A k \in b.acting : CachedAction(c, k) = CachedAction(b, k)
  BY <1>2, <1>4 DEF CachedAction, Keyboard
<1>7. CachedAction(c, r.key) = a
  BY <1>0, <1>2, <1>4 DEF CachedAction, Keyboard, LayerAction
<1> HIDE DEF a
<1>7a. \A k \in b.acting : HowOf(taps, k) = HowOf(taps2, k)
  BY HowSame
<1>8. CASE ReleasedAtOnce(b, r)
  <2>1. Keeps(b, c) /\ c.acting = b.acting
    BY <1>2, <1>4, <1>5, <1>8 DEF Keeps
  <2>2. Backed(c, taps2)
    BY <1>6, <1>7a, <2>1 DEF Backed, Keeps
  <2> QED BY <1>4, <2>2 DEF ActingAfter
<1>9. CASE ~ReleasedAtOnce(b, r)
  <2>1. Gains(b, c, a, how) /\ c.acting = b.acting \cup {r.key} /\ r.key \in c.acting
    BY <1>2, <1>4, <1>5, <1>9 DEF Gains
  <2>2. HowOf(taps2, r.key) = how
    BY <1>0, <1>1, <1>9, HowOfCases DEF Counted
  <2>3. Backed(c, taps2)
    BY <1>6, <1>7, <1>7a, <2>1, <2>2 DEF Backed, Gains
  <2> QED BY <1>4, <2>3 DEF ActingAfter
<1> QED BY <1>8, <1>9

\* A release takes back what is backed by its key alone.
LEMMA BackedRelease ==
  ASSUME NEW b \in Keyboard, NEW r \in Record, IsEvent(r), ~r.pressed,
         NEW taps, NEW taps2, Backed(b, taps),
         SameHow(taps, taps2, b.acting \ {r.key}),
         r.key \notin b.acting \/ Counted(taps, r), NEW c, c = Processed(b, r)
  PROVE  /\ Backed(c, taps2) /\ c.acting = b.acting \ {r.key}
         /\ c.osl # {} => b.osl # {} /\ c.osl_layer = b.osl_layer
<1> DEFINE p == ReleaseProcessed(b, r)
           a == CachedAction(b, r.key)
           how == HowCounted(r)
<1>0. r.key \in Key /\ r.count \in Nat
  BY RecordParts, CountAssumption DEF Record
<1>1. (how = "tap" /\ r.count > 0) \/ (how = "hold" /\ r.count = 0)
  BY <1>0, HowCountedCases
<1> HIDE DEF how
<1>2. a \in Action /\ OfMap(b, a) /\ p = Acted(b, a, FALSE, r.count)
  BY <1>0, ActionsOfMap DEF ReleaseProcessed
<1>3. c = [p EXCEPT !.acting = @ \ {r.key}]
  <2>1. ~AsProcessed(b, r).pressed
    BY DEF AsProcessed, Record
  <2> QED BY <2>1 DEF Processed
<1> HIDE DEF p, a
<1>4. /\ Looks(b, p) /\ Loses(b, p, a, how)
      /\ p.osl # {} => b.osl # {} /\ p.osl_layer = b.osl_layer
  BY <1>0, <1>1, <1>2, ActedRelease
<1>5. /\ c.keymap = b.keymap /\ c.cache = b.cache /\ c.keys = p.keys /\ c.real = p.real
      /\ c.weak = p.weak /\ c.layers = p.layers /\ c.osl = p.osl /\ c.osl_layer = p.osl_layer
      /\ c.acting = b.acting \ {r.key}
  BY <1>3, <1>4 DEF Looks, Keyboard
<1>6. Own(c) = Own(p)
  BY <1>4, <1>5 DEF Own, Switched, Looks
<1>7. \A k : CachedAction(c, k) = CachedAction(b, k)
  BY <1>5 DEF CachedAction
<1>8. Loses(b, c, a, how)
  BY <1>4, <1>5, <1>6 DEF Loses
<1>9. r.key \in b.acting => HowOf(taps, r.key) = how
  BY <1>0, <1>1, HowOfCases DEF Counted
<1>9a. \A k \in b.acting \ {r.key} : HowOf(taps, k) = HowOf(taps2, k)
  BY HowSame
<1>10. CachedAction(b, r.key) = a
  BY DEF a
<1>11. Backed(c, taps2)
  BY <1>5, <1>7, <1>8, <1>9, <1>9a, <1>10 DEF Backed, Loses
<1> QED BY <1>4, <1>5, <1>11

LEMMA BackedSame ==
  ASSUME NEW b, NEW taps, NEW taps2, Backed(b, taps),
         SameHow(taps, taps2, b.acting)
  PROVE  Backed(b, taps2)
  BY HowSame DEF Backed

\* The press of a key in action_exec writes the cache and forgets the weak modifiers.
LEMMA BackedCached ==
  ASSUME NEW b \in Keyboard, NEW k \in Key, NEW taps, Backed(b, taps),
         LET c == Cached(ClearWeakMods(b), k)
         IN  k \in b.acting => CachedAction(c, k) = CachedAction(b, k)
  PROVE  LET c == Cached(ClearWeakMods(b), k)
         IN  Backed(c, taps) /\ c.acting = b.acting
<1> DEFINE w == ClearWeakMods(b)
           c == Cached(w, k)
<1>1. /\ w \in Keyboard /\ w.keymap = b.keymap /\ w.acting = b.acting /\ w.cache = b.cache
      /\ w.keys = b.keys /\ w.real = b.real /\ w.weak = {} /\ w.layers = b.layers
      /\ w.osl = b.osl /\ w.osl_layer = b.osl_layer
  BY ClearsType DEF ClearWeakMods, Keyboard
<1> HIDE DEF w
<1>2. /\ c.keymap = b.keymap /\ c.acting = b.acting
      /\ c.cache = [b.cache EXCEPT ![k] = SourceLayer(w, k)]
      /\ c.keys = b.keys /\ c.real = b.real /\ c.weak = {} /\ Own(c) = Own(w)
  BY <1>1, CachedOwn
<1>3. Own(w) = Own(b)
  BY <1>1 DEF Own, Switched
<1>4. \A j \in b.acting : CachedAction(c, j) = CachedAction(b, j)
  <2>1. \A j \in b.acting \ {k} : CachedAction(c, j) = CachedAction(b, j)
    BY <1>2 DEF CachedAction, Keyboard
  <2>2. k \in b.acting => CachedAction(c, k) = CachedAction(b, k)
    BY DEF w
  <2> QED BY <2>1, <2>2
<1> HIDE DEF c
<1>5. Backed(c, taps)
  BY <1>2, <1>3, <1>4 DEF Backed
<1> QED BY <1>2, <1>5 DEF c, w

-----------------------------------------------------------------------------
(* The events on their way: those of the buffer and then that of the call. *)

Pending == IF IsEvent(event) THEN Append(waiting, event) ELSE waiting

IsOpen(tap) == tap.pressed /\ tap.count = 0

IsTapped(tap) == tap.pressed /\ tap.count > 0

\* The presses and the releases of a key alternate,
Alternates(P) ==
  \A i, j \in 1 .. Len(P) :
    i < j /\ P[i].key = P[j].key /\ (P[i].pressed <=> P[j].pressed) =>
      \E h \in i + 1 .. j - 1 : P[h].key = P[i].key /\ (P[h].pressed <=> ~P[i].pressed)

\* and its last event left it as it is now.
UpToDate(P, D) ==
  \A i \in 1 .. Len(P) :
    \/ P[i].pressed <=> P[i].key \in D
    \/ \E j \in i + 1 .. Len(P) : P[j].key = P[i].key /\ (P[j].pressed <=> ~P[i].pressed)

\* The next event of k is a release.
Opened(P, D, k) ==
  /\ k \in D \/ \E i \in 1 .. Len(P) : P[i].key = k /\ ~P[i].pressed
  /\ \A i \in 1 .. Len(P) : P[i].key = k /\ P[i].pressed =>
       \E h \in 1 .. i - 1 : P[h].key = k /\ ~P[h].pressed

\* A press is not processed twice, and not while its key is open.
Expects(P, D, acting, tap) ==
  /\ \A k \in acting : Opened(P, D, k)
  /\ IsOpen(tap) => tap.key \notin acting /\ Opened(P, D, tap.key)
  /\ IsTapped(tap) => tap.key \in acting

IsFirst(P, n) == \A h \in 1 .. n - 1 : P[h].key # P[n].key

\* A release that waits is marked as that of a tap only if it is the next event of its key.
Marks(P, tap) ==
  /\ \A i \in 1 .. Len(P) : P[i].count > 0 =>
       ~P[i].pressed /\ IsFirst(P, i) /\ ~(IsOpen(tap) /\ tap.key = P[i].key)
  /\ IsTapped(tap) /\ tap.count = 1 => \E i \in 1 .. Len(P) : P[i].key = tap.key /\ P[i].count > 0

Ages(P, tap) ==
  /\ \A i \in 1 .. Len(P) : IsEvent(P[i]) /\ P[i].ago <= Term
  /\ \A i, j \in 1 .. Len(P) : i < j => P[j].ago <= P[i].ago
  /\ IsOpen(tap) => \A i \in 1 .. Len(P) : P[i].key = tap.key => P[i].ago <= tap.ago

TappedIs(tap, k) == IsTapped(tap) /\ tap.key = k

\* The keys whose next release is one of a tap.
Taps(P, tap) ==
  {k \in Key : TappedIs(tap, k) \/ \E i \in 1 .. Len(P) : P[i].key = k /\ P[i].count > 0}

Queue(P, D, acting, tap) ==
  /\ Alternates(P) /\ UpToDate(P, D) /\ Expects(P, D, acting, tap)
  /\ Marks(P, tap) /\ Ages(P, tap)

\* Q is P without its event n, the next one of its key: the first of all or the last.
Without(P, n, d, Q) ==
  /\ Len(Q) = Len(P) - 1
  /\ (d = 1 /\ n = 1) \/ (d = 0 /\ n = Len(P))
  /\ \A i \in 1 .. Len(Q) : /\ Q[i].key = P[i + d].key /\ (Q[i].pressed <=> P[i + d].pressed)
                            /\ Q[i].ago = P[i + d].ago
  /\ IsFirst(P, n)

LEMMA FirstIsNoPress ==
  ASSUME NEW P, NEW D, NEW n \in 1 .. Len(P), IsFirst(P, n), Opened(P, D, P[n].key)
  PROVE  ~P[n].pressed
  BY DEF IsFirst, Opened

LEMMA WithoutAlternates ==
  ASSUME NEW P \in Seq(Record), NEW Q \in Seq(Record), NEW n \in 1 .. Len(P), NEW d \in {0, 1},
         Without(P, n, d, Q), Alternates(P)
  PROVE  Alternates(Q)
<1>1. Len(P) \in Nat /\ Len(Q) \in Nat
  OBVIOUS
<1>2. ASSUME NEW i \in 1 .. Len(Q), NEW j \in 1 .. Len(Q), i < j, Q[i].key = Q[j].key,
             Q[i].pressed <=> Q[j].pressed
      PROVE  \E h \in i + 1 .. j - 1 : Q[h].key = Q[i].key /\ (Q[h].pressed <=> ~Q[i].pressed)
  <2>1. i + d \in 1 .. Len(P) /\ j + d \in 1 .. Len(P) /\ i + d < j + d
    BY <1>1, <1>2 DEF Without
  <2>0. P[i + d].key = P[j + d].key /\ (P[i + d].pressed <=> P[j + d].pressed)
    BY <1>2 DEF Without
  <2>2. PICK h \in (i + d) + 1 .. (j + d) - 1 : P[h].key = P[i + d].key
          /\ (P[h].pressed <=> ~P[i + d].pressed)
    BY <2>0, <2>1 DEF Alternates
  <2>3. h - d \in i + 1 .. j - 1 /\ h - d \in 1 .. Len(Q) /\ (h - d) + d = h
    BY <1>1, <2>1, <2>2
  <2>4. Q[h - d].key = P[h].key /\ (Q[h - d].pressed <=> P[h].pressed)
    BY <2>3 DEF Without
  <2> QED BY <2>2, <2>3, <2>4 DEF Without
<1> QED BY <1>2 DEF Alternates

LEMMA WithoutUpToDate ==
  ASSUME NEW P \in Seq(Record), NEW Q \in Seq(Record), NEW n \in 1 .. Len(P), NEW d \in {0, 1},
         Without(P, n, d, Q), NEW D, UpToDate(P, D)
  PROVE  UpToDate(Q, D)
<1>1. Len(P) \in Nat /\ Len(Q) \in Nat
  OBVIOUS
<1>2. ASSUME NEW i \in 1 .. Len(Q), ~(Q[i].pressed <=> Q[i].key \in D)
      PROVE  \E j \in i + 1 .. Len(Q) : Q[j].key = Q[i].key /\ (Q[j].pressed <=> ~Q[i].pressed)
  <2>1. i + d \in 1 .. Len(P)
    BY <1>1, <1>2 DEF Without
  <2>2. PICK j \in (i + d) + 1 .. Len(P) : P[j].key = P[i + d].key
          /\ (P[j].pressed <=> ~P[i + d].pressed)
    BY <1>2, <2>1 DEF Without, UpToDate
  <2>3. d = 0 => j # Len(P)
    BY <1>1, <2>1, <2>2 DEF Without, IsFirst
  <2>4. j - d \in i + 1 .. Len(Q) /\ j - d \in 1 .. Len(Q) /\ (j - d) + d = j
    BY <1>1, <2>1, <2>2, <2>3 DEF Without
  <2>5. Q[j - d].key = P[j].key /\ (Q[j - d].pressed <=> P[j].pressed)
    BY <2>4 DEF Without
  <2> QED BY <2>2, <2>4, <2>5 DEF Without
<1> QED BY <1>2 DEF UpToDate

LEMMA WithoutOpened ==
  ASSUME NEW P \in Seq(Record), NEW Q \in Seq(Record), NEW n \in 1 .. Len(P), NEW d \in {0, 1},
         Without(P, n, d, Q), NEW D, NEW k, k # P[n].key, Opened(P, D, k)
  PROVE  Opened(Q, D, k)
<1>1. Len(P) \in Nat /\ Len(Q) \in Nat
  OBVIOUS
<1>2. ASSUME NEW i \in 1 .. Len(P), P[i].key = k
      PROVE  i - d \in 1 .. Len(Q) /\ Q[i - d].key = k /\ (Q[i - d].pressed <=> P[i].pressed)
  <2>1. i # n /\ i - d \in 1 .. Len(Q) /\ (i - d) + d = i
    BY <1>1, <1>2 DEF Without
  <2> QED BY <1>2, <2>1 DEF Without
<1>3. k \in D \/ \E i \in 1 .. Len(Q) : Q[i].key = k /\ ~Q[i].pressed
  BY <1>2 DEF Opened
<1>4. ASSUME NEW i \in 1 .. Len(Q), Q[i].key = k, Q[i].pressed
      PROVE  \E h \in 1 .. i - 1 : Q[h].key = k /\ ~Q[h].pressed
  <2>1. i + d \in 1 .. Len(P) /\ P[i + d].key = k /\ P[i + d].pressed
    BY <1>1, <1>4 DEF Without
  <2>2. PICK h \in 1 .. (i + d) - 1 : P[h].key = k /\ ~P[h].pressed
    BY <2>1 DEF Opened
  <2>3. h \in 1 .. Len(P)
    BY <1>1, <2>1, <2>2
  <2>4. h - d \in 1 .. Len(Q) /\ Q[h - d].key = k /\ ~Q[h - d].pressed
    BY <1>2, <2>2, <2>3
  <2>5. h - d \in 1 .. i - 1
    BY <1>1, <2>2, <2>4
  <2> QED BY <2>4, <2>5
<1> QED BY <1>3, <1>4 DEF Opened

\* Once the press of a key is processed, its release is what comes next.
LEMMA PressOpens ==
  ASSUME NEW P \in Seq(Record), NEW Q \in Seq(Record), NEW n \in 1 .. Len(P), NEW d \in {0, 1},
         Without(P, n, d, Q), NEW D, Alternates(P), UpToDate(P, D), P[n].pressed
  PROVE  Opened(Q, D, P[n].key)
<1> DEFINE k == P[n].key
<1>1. Len(P) \in Nat /\ Len(Q) \in Nat
  OBVIOUS
<1>2. ASSUME NEW j \in n + 1 .. Len(P), P[j].key = k
      PROVE  d = 1 /\ j - 1 \in 1 .. Len(Q) /\ Q[j - 1].key = k
              /\ (Q[j - 1].pressed <=> P[j].pressed)
  <2>1. d = 1 /\ n = 1 /\ j - 1 \in 1 .. Len(Q) /\ (j - 1) + 1 = j
    BY <1>1, <1>2 DEF Without
  <2> QED BY <1>2, <2>1 DEF Without
<1>3. k \in D \/ \E i \in 1 .. Len(Q) : Q[i].key = k /\ ~Q[i].pressed
  <2>1. CASE k \notin D
    <3>1. PICK j \in n + 1 .. Len(P) : P[j].key = k /\ (P[j].pressed <=> ~P[n].pressed)
      BY <2>1 DEF UpToDate
    <3> QED BY <1>2, <3>1
  <2> QED BY <2>1
<1>4. ASSUME NEW i \in 1 .. Len(Q), Q[i].key = k, Q[i].pressed
      PROVE  \E h \in 1 .. i - 1 : Q[h].key = k /\ ~Q[h].pressed
  <2>1. d = 1 /\ n = 1
    BY <1>1, <1>4 DEF Without, IsFirst
  <2>2. i + 1 \in 1 .. Len(P) /\ P[i + 1].key = k /\ P[i + 1].pressed
    BY <1>1, <1>4, <2>1 DEF Without
  <2>5. PICK h \in n + 1 .. (i + 1) - 1 : P[h].key = k /\ (P[h].pressed <=> ~P[n].pressed)
    BY <2>1, <2>2 DEF Alternates
  <2>6. h \in n + 1 .. Len(P)
    BY <2>1, <2>2, <2>5
  <2>8. h - 1 \in 1 .. i - 1
    BY <2>1, <2>5
  <2>9. Q[h - 1].key = k /\ ~Q[h - 1].pressed
    BY <1>2, <2>5, <2>6
  <2> QED BY <2>8, <2>9
<1> QED BY <1>3, <1>4 DEF Opened

\* An event is processed, and what becomes of the tap key and of the keys acted upon:
\* tap2 and acting2.
Takes(P, n, acting, tap, acting2, tap2) ==
  /\ acting2 \subseteq acting \cup {P[n].key} /\ (P[n].key \in acting2 => P[n].pressed)
  /\ IsOpen(tap2) =>
       \/ P[n].pressed /\ tap2 = P[n] /\ tap2.key \notin acting2
       \/ tap2 = tap /\ P[n].key # tap.key
  /\ IsTapped(tap2) => /\ tap2.key \in acting2
                       /\ tap2.count = 1 => tap2 = tap /\ P[n].key # tap.key

LEMMA TakesExpects ==
  ASSUME NEW P \in Seq(Record), NEW Q \in Seq(Record), NEW n \in 1 .. Len(P), NEW d \in {0, 1},
         Without(P, n, d, Q), NEW D, NEW acting, NEW tap, Queue(P, D, acting, tap),
         NEW acting2, NEW tap2, Takes(P, n, acting, tap, acting2, tap2)
  PROVE  Expects(Q, D, acting2, tap2)
<1>1. \A k : k # P[n].key /\ Opened(P, D, k) => Opened(Q, D, k)
  BY WithoutOpened
<1>2. P[n].pressed => Opened(Q, D, P[n].key)
  BY PressOpens DEF Queue
<1>3. \A k \in acting2 : Opened(Q, D, k)
  BY <1>1, <1>2 DEF Queue, Expects, Takes
<1>4. ASSUME IsOpen(tap2) PROVE tap2.key \notin acting2 /\ Opened(Q, D, tap2.key)
  <2>1. CASE P[n].pressed /\ tap2 = P[n] /\ tap2.key \notin acting2
    BY <1>2, <2>1
  <2>2. CASE tap2 = tap /\ P[n].key # tap.key
    <3>1. tap.key \notin acting /\ Opened(P, D, tap.key)
      BY <1>4, <2>2 DEF Queue, Expects
    <3> QED BY <1>1, <2>2, <3>1 DEF Takes
  <2> QED BY <1>4, <2>1, <2>2 DEF Takes
<1> QED BY <1>3, <1>4 DEF Expects, Takes

LEMMA TakesMarks ==
  ASSUME NEW P \in Seq(Record), NEW Q \in Seq(Record), NEW n \in 1 .. Len(P), NEW d \in {0, 1},
         Without(P, n, d, Q), \A i \in 1 .. Len(Q) : Q[i].count = P[i + d].count,
         NEW D, NEW acting, NEW tap, Queue(P, D, acting, tap),
         NEW acting2, NEW tap2, Takes(P, n, acting, tap, acting2, tap2)
  PROVE  Marks(Q, tap2)
<1>1. Len(P) \in Nat /\ Len(Q) \in Nat
  OBVIOUS
<1>2. ASSUME NEW i \in 1 .. Len(Q), Q[i].count > 0
      PROVE  ~Q[i].pressed /\ IsFirst(Q, i) /\ ~(IsOpen(tap2) /\ tap2.key = Q[i].key)
  <2>1. /\ i + d \in 1 .. Len(P) /\ P[i + d].count > 0 /\ Q[i].key = P[i + d].key
        /\ Q[i].pressed <=> P[i + d].pressed
    BY <1>1, <1>2 DEF Without
  <2>2. ~P[i + d].pressed /\ IsFirst(P, i + d) /\ ~(IsOpen(tap) /\ tap.key = P[i + d].key)
    BY <2>1 DEF Queue, Marks
  <2>3. IsFirst(Q, i)
    <3>1. ASSUME NEW h \in 1 .. i - 1 PROVE Q[h].key # Q[i].key
      <4>1. h \in 1 .. Len(Q) /\ h + d \in 1 .. (i + d) - 1
        BY <1>1, <3>1
      <4> QED BY <2>1, <2>2, <4>1 DEF Without, IsFirst
    <3> QED BY <3>1 DEF IsFirst
  <2>4. P[i + d].key # P[n].key \/ ~P[n].pressed
    <3>1. CASE d = 1
      <4>1. n \in 1 .. (i + d) - 1
        BY <1>1, <2>1, <3>1 DEF Without
      <4> QED BY <2>2, <4>1 DEF IsFirst
    <3>2. CASE d = 0
      <4>1. i + d \in 1 .. n - 1
        BY <1>1, <2>1, <3>2 DEF Without
      <4> QED BY <4>1 DEF Without, IsFirst
    <3> QED BY <3>1, <3>2
  <2> QED BY <2>1, <2>2, <2>3, <2>4 DEF Takes
<1>3. ASSUME IsTapped(tap2), tap2.count = 1
      PROVE  \E i \in 1 .. Len(Q) : Q[i].key = tap2.key /\ Q[i].count > 0
  <2>1. tap2 = tap /\ P[n].key # tap.key
    BY <1>3 DEF Takes
  <2>2. PICK i \in 1 .. Len(P) : P[i].key = tap.key /\ P[i].count > 0
    BY <1>3, <2>1 DEF Queue, Marks
  <2>3. i # n /\ i - d \in 1 .. Len(Q) /\ (i - d) + d = i
    BY <1>1, <2>1, <2>2 DEF Without
  <2> QED BY <2>1, <2>2, <2>3 DEF Without
<1> QED BY <1>2, <1>3 DEF Marks

LEMMA TakesAges ==
  ASSUME NEW P \in Seq(Record), NEW Q \in Seq(Record), NEW n \in 1 .. Len(P), NEW d \in {0, 1},
         Without(P, n, d, Q), NEW D, NEW acting, NEW tap, Queue(P, D, acting, tap),
         NEW acting2, NEW tap2, Takes(P, n, acting, tap, acting2, tap2)
  PROVE  Ages(Q, tap2)
<1>1. Len(P) \in Nat /\ Len(Q) \in Nat
  OBVIOUS
<1>2. ASSUME NEW i \in 1 .. Len(Q)
      PROVE  i + d \in 1 .. Len(P) /\ Q[i].key = P[i + d].key /\ Q[i].ago = P[i + d].ago
  BY <1>1 DEF Without
<1>3. \A i \in 1 .. Len(Q) : IsEvent(Q[i]) /\ Q[i].ago <= Term
  BY <1>2 DEF Queue, Ages, IsEvent
<1>4. ASSUME NEW i \in 1 .. Len(Q), NEW j \in 1 .. Len(Q), i < j PROVE Q[j].ago <= Q[i].ago
  <2>1. i + d < j + d
    BY <1>1, <1>4
  <2> QED BY <1>2, <2>1 DEF Queue, Ages
<1>5. ASSUME IsOpen(tap2), NEW i \in 1 .. Len(Q), Q[i].key = tap2.key PROVE Q[i].ago <= tap2.ago
  <2>1. CASE P[n].pressed /\ tap2 = P[n]
    <3>1. n < i + d
      BY <1>1, <1>2, <1>5, <2>1 DEF Without, IsFirst
    <3> QED BY <1>2, <2>1, <3>1 DEF Queue, Ages
  <2>2. CASE tap2 = tap
    BY <1>2, <1>5, <2>2 DEF Queue, Ages
  <2> QED BY <1>5, <2>1, <2>2 DEF Takes
<1> QED BY <1>3, <1>4, <1>5 DEF Ages

LEMMA TakesQueue ==
  ASSUME NEW P \in Seq(Record), NEW Q \in Seq(Record), NEW n \in 1 .. Len(P), NEW d \in {0, 1},
         Without(P, n, d, Q), \A i \in 1 .. Len(Q) : Q[i].count = P[i + d].count,
         NEW D, NEW acting, NEW tap, Queue(P, D, acting, tap),
         NEW acting2, NEW tap2, Takes(P, n, acting, tap, acting2, tap2)
  PROVE  Queue(Q, D, acting2, tap2)
<1>1. Alternates(Q) /\ UpToDate(Q, D)
  BY WithoutAlternates, WithoutUpToDate DEF Queue
<1>2. Expects(Q, D, acting2, tap2)
  BY TakesExpects
<1>3. Marks(Q, tap2)
  BY TakesMarks
<1>4. Ages(Q, tap2)
  BY TakesAges
<1> QED BY <1>1, <1>2, <1>3, <1>4 DEF Queue

\* Q is P with its event i marked.
Marked(P, i, Q) ==
  /\ Len(Q) = Len(P)
  /\ \A h \in 1 .. Len(P) : /\ Q[h].key = P[h].key /\ (Q[h].pressed <=> P[h].pressed)
                            /\ Q[h].ago = P[h].ago /\ (h # i => Q[h].count = P[h].count)
  /\ Q[i].count > 0

LEMMA MarkedShape ==
  ASSUME NEW P \in Seq(Record), NEW Q \in Seq(Record), NEW i \in 1 .. Len(P), Marked(P, i, Q)
  PROVE  /\ Alternates(P) => Alternates(Q)
         /\ \A D : UpToDate(P, D) => UpToDate(Q, D)
         /\ \A D, k : Opened(P, D, k) => Opened(Q, D, k)
         /\ \A h \in 1 .. Len(P) : IsFirst(P, h) => IsFirst(Q, h)
<1>1. /\ Len(Q) = Len(P) /\ Len(P) \in Nat
      /\ \A h \in 1 .. Len(P) : Q[h].key = P[h].key /\ (Q[h].pressed <=> P[h].pressed)
  BY DEF Marked
<1>2. ASSUME Alternates(P) PROVE Alternates(Q)
  <2>1. ASSUME NEW a \in 1 .. Len(Q), NEW b \in 1 .. Len(Q), a < b, Q[a].key = Q[b].key,
               Q[a].pressed <=> Q[b].pressed
        PROVE  \E h \in a + 1 .. b - 1 : Q[h].key = Q[a].key /\ (Q[h].pressed <=> ~Q[a].pressed)
    <3>1. PICK h \in a + 1 .. b - 1 : P[h].key = P[a].key /\ (P[h].pressed <=> ~P[a].pressed)
      BY <1>1, <1>2, <2>1 DEF Alternates
    <3>2. h \in 1 .. Len(P)
      BY <1>1, <3>1
    <3> QED BY <1>1, <3>1, <3>2
  <2> QED BY <2>1 DEF Alternates
<1>3. ASSUME NEW D, UpToDate(P, D) PROVE UpToDate(Q, D)
  <2>1. \A a \in 1 .. Len(P) : \A j \in a + 1 .. Len(P) : j \in 1 .. Len(P)
    BY <1>1
  <2> QED BY <1>1, <1>3, <2>1 DEF UpToDate
<1>4. ASSUME NEW D, NEW k, Opened(P, D, k) PROVE Opened(Q, D, k)
  <2>1. \A a \in 1 .. Len(P) : \A h \in 1 .. a - 1 : h \in 1 .. Len(P)
    BY <1>1
  <2> QED BY <1>1, <1>4, <2>1 DEF Opened
<1>5. ASSUME NEW h \in 1 .. Len(P), IsFirst(P, h) PROVE IsFirst(Q, h)
  <2>1. \A a \in 1 .. h - 1 : a \in 1 .. Len(P)
    BY <1>1
  <2> QED BY <1>1, <1>5, <2>1 DEF IsFirst
<1> QED BY <1>2, <1>3, <1>4, <1>5

LEMMA FirstReleaseOpened ==
  ASSUME NEW P \in Seq(Record), NEW i \in 1 .. Len(P), IsFirst(P, i), ~P[i].pressed, NEW D
  PROVE  Opened(P, D, P[i].key)
<1>1. ASSUME NEW j \in 1 .. Len(P), P[j].key = P[i].key, P[j].pressed PROVE i \in 1 .. j - 1
  BY <1>1 DEF IsFirst
<1> QED BY <1>1 DEF Opened

\* The tap key is acted upon as tapped, and its release is marked.
LEMMA MarkedQueue ==
  ASSUME NEW P \in Seq(Record), NEW Q \in Seq(Record), NEW i \in 1 .. Len(P), Marked(P, i, Q),
         ~P[i].pressed, IsFirst(P, i), NEW D, NEW acting, NEW tap, Queue(P, D, acting, tap),
         NEW acting2, acting2 \subseteq acting \cup {P[i].key}, NEW tap2, ~IsOpen(tap2),
         IsTapped(tap2) => tap2.key = P[i].key /\ tap2.key \in acting2
  PROVE  Queue(Q, D, acting2, tap2)
<1>1. Alternates(Q) /\ UpToDate(Q, D)
  BY MarkedShape DEF Queue
<1>2. Expects(Q, D, acting2, tap2)
  <2>1. \A k \in acting2 : Opened(P, D, k)
    BY FirstReleaseOpened DEF Queue, Expects
  <2>2. \A k \in acting2 : Opened(Q, D, k)
    BY <2>1, MarkedShape
  <2> QED BY <2>2 DEF Expects
<1>3. Marks(Q, tap2)
  <2>1. ASSUME NEW h \in 1 .. Len(Q), Q[h].count > 0 PROVE ~Q[h].pressed /\ IsFirst(Q, h)
    <3>1. h \in 1 .. Len(P) /\ (Q[h].pressed <=> P[h].pressed)
      BY DEF Marked
    <3>2. ~P[h].pressed /\ IsFirst(P, h)
      BY <2>1, <3>1 DEF Marked, Queue, Marks
    <3> QED BY <3>1, <3>2, MarkedShape
  <2>2. Q[i].key = P[i].key /\ Q[i].count > 0 /\ i \in 1 .. Len(Q)
    BY DEF Marked
  <2> QED BY <2>1, <2>2 DEF Marks
<1>4. Ages(Q, tap2)
  BY DEF Queue, Ages, Marked, IsEvent
<1> QED BY <1>1, <1>2, <1>3, <1>4 DEF Queue

\* Nothing is processed, the tap key is decided to be held, or its time is over.
LEMMA KeptQueue ==
  ASSUME NEW P \in Seq(Record), NEW D, NEW acting, NEW tap, Queue(P, D, acting, tap),
         NEW acting2, NEW tap2,
         acting2 \subseteq acting \cup (IF IsOpen(tap) THEN {tap.key} ELSE {}),
         IsOpen(tap2) => /\ IsOpen(tap) /\ tap2.key = tap.key /\ tap2.ago = tap.ago
                         /\ acting2 = acting,
         IsTapped(tap2) => /\ IsTapped(tap) /\ tap2.key = tap.key /\ tap2.count = tap.count
                           /\ acting2 = acting
  PROVE  Queue(P, D, acting2, tap2)
<1>1. Expects(P, D, acting2, tap2)
  BY DEF Queue, Expects
<1>2. Marks(P, tap2)
  BY DEF Queue, Marks
<1>3. Ages(P, tap2)
  BY DEF Queue, Ages
<1> QED BY <1>1, <1>2, <1>3 DEF Queue

\* An event of k arrives: k was up before a press and down before a release.
LEMMA AppendQueue ==
  ASSUME NEW P \in Seq(Record), NEW D, NEW acting, NEW tap, Queue(P, D, acting, tap),
         NEW k \in Key, NEW pressed \in BOOLEAN, k \in D <=> ~pressed, NEW D2,
         D2 = (IF pressed THEN D \cup {k} ELSE D \ {k}), NEW e \in Record,
         e = KeyEvent(k, pressed), \A i \in 1 .. Len(P) : P[i].ago \in Nat,
         tap.ago \in Nat
  PROVE  Queue(Append(P, e), D2, acting, tap)
<1> DEFINE Q == Append(P, e)
           n == Len(P) + 1
<1>1. /\ Len(P) \in Nat /\ Len(Q) = n /\ Q \in Seq(Record) /\ Q[n] = e
      /\ \A i \in 1 .. Len(P) : Q[i] = P[i]
  OBVIOUS
<1>2. /\ e.key = k /\ (e.pressed <=> pressed) /\ e.ago = 0 /\ e.count = 0 /\ IsEvent(e)
  BY KeyEventType, NoRecordType DEF KeyEvent, NoRecord
<1> HIDE DEF Q
<1>3. Alternates(Q)
  <2>1. ASSUME NEW i \in 1 .. Len(P), NEW j \in 1 .. Len(P), i < j, Q[i].key = Q[j].key,
               Q[i].pressed <=> Q[j].pressed
        PROVE  \E h \in i + 1 .. j - 1 : Q[h].key = Q[i].key /\ (Q[h].pressed <=> ~Q[i].pressed)
    <3>1. PICK h \in i + 1 .. j - 1 : P[h].key = P[i].key /\ (P[h].pressed <=> ~P[i].pressed)
      BY <1>1, <2>1 DEF Queue, Alternates
    <3>2. h \in 1 .. Len(P)
      BY <1>1, <3>1
    <3> QED BY <1>1, <3>1, <3>2
  <2>2. ASSUME NEW i \in 1 .. Len(P), Q[i].key = Q[n].key, Q[i].pressed <=> Q[n].pressed
        PROVE  \E h \in i + 1 .. n - 1 : Q[h].key = Q[i].key /\ (Q[h].pressed <=> ~Q[i].pressed)
    <3>1. P[i].key = k /\ (P[i].pressed <=> pressed)
      BY <1>1, <1>2, <2>2
    <3>2. PICK h \in i + 1 .. Len(P) : P[h].key = P[i].key /\ (P[h].pressed <=> ~P[i].pressed)
      BY <3>1 DEF Queue, UpToDate
    <3>3. h \in 1 .. Len(P) /\ h \in i + 1 .. n - 1
      BY <1>1, <3>2
    <3> QED BY <1>1, <3>2, <3>3
  <2>3. \A i \in 1 .. Len(Q) : i = n \/ i \in 1 .. Len(P)
    BY <1>1
  <2>4. ASSUME NEW i \in 1 .. Len(Q), NEW j \in 1 .. Len(Q), i < j, Q[i].key = Q[j].key,
               Q[i].pressed <=> Q[j].pressed
        PROVE  \E h \in i + 1 .. j - 1 : Q[h].key = Q[i].key /\ (Q[h].pressed <=> ~Q[i].pressed)
    <3>1. i \in 1 .. Len(P)
      BY <1>1, <2>4
    <3>2. CASE j = n
      BY <2>2, <2>4, <3>1, <3>2
    <3>3. CASE j \in 1 .. Len(P)
      BY <2>1, <2>4, <3>1, <3>3
    <3> QED BY <2>3, <3>2, <3>3
  <2> QED BY <2>4 DEF Alternates
<1>4. UpToDate(Q, D2)
  <2>1. ASSUME NEW i \in 1 .. Len(P), ~(Q[i].pressed <=> Q[i].key \in D2)
        PROVE  \E j \in i + 1 .. Len(Q) : Q[j].key = Q[i].key /\ (Q[j].pressed <=> ~Q[i].pressed)
    <3>1. CASE P[i].key = k
      BY <1>1, <1>2, <2>1, <3>1
    <3>2. CASE P[i].key # k
      <4>1. PICK j \in i + 1 .. Len(P) : P[j].key = P[i].key /\ (P[j].pressed <=> ~P[i].pressed)
        BY <1>1, <2>1, <3>2 DEF Queue, UpToDate
      <4>2. j \in 1 .. Len(P) /\ j \in i + 1 .. Len(Q)
        BY <1>1, <4>1
      <4> QED BY <1>1, <4>1, <4>2
    <3> QED BY <3>1, <3>2
  <2>2. Q[n].pressed <=> Q[n].key \in D2
    BY <1>1, <1>2
  <2> QED BY <1>1, <2>1, <2>2 DEF UpToDate
<1>5. \A j : Opened(P, D, j) => Opened(Q, D2, j)
  <2> SUFFICES ASSUME NEW j, Opened(P, D, j) PROVE Opened(Q, D2, j)
    OBVIOUS
  <2>1. j \in D2 \/ \E i \in 1 .. Len(Q) : Q[i].key = j /\ ~Q[i].pressed
    <3>1. CASE j = k /\ ~pressed
      BY <1>1, <1>2, <3>1
    <3>2. CASE j # k \/ pressed
      BY <1>1, <3>2 DEF Opened
    <3> QED BY <3>1, <3>2
  <2>2. ASSUME NEW i \in 1 .. Len(P), Q[i].key = j, Q[i].pressed
        PROVE  \E h \in 1 .. i - 1 : Q[h].key = j /\ ~Q[h].pressed
    <3>1. PICK h \in 1 .. i - 1 : P[h].key = j /\ ~P[h].pressed
      BY <1>1, <2>2 DEF Opened
    <3>2. h \in 1 .. Len(P)
      BY <1>1, <3>1
    <3> QED BY <1>1, <3>1, <3>2
  <2>3. ASSUME Q[n].key = j, Q[n].pressed PROVE \E h \in 1 .. n - 1 : Q[h].key = j /\ ~Q[h].pressed
    <3>1. j = k /\ pressed /\ j \notin D
      BY <1>1, <1>2, <2>3
    <3> QED BY <1>1, <3>1 DEF Opened
  <2> QED BY <1>1, <2>1, <2>2, <2>3 DEF Opened
<1>6. Expects(Q, D2, acting, tap)
  BY <1>5 DEF Queue, Expects
<1>7. Marks(Q, tap)
  <2>1. ASSUME NEW i \in 1 .. Len(Q), Q[i].count > 0
        PROVE  ~Q[i].pressed /\ IsFirst(Q, i) /\ ~(IsOpen(tap) /\ tap.key = Q[i].key)
    <3>1. i \in 1 .. Len(P) /\ P[i].count > 0
      BY <1>1, <1>2, <2>1
    <3>2. \A h \in 1 .. i - 1 : h \in 1 .. Len(P)
      BY <1>1, <3>1
    <3> QED BY <1>1, <3>1, <3>2 DEF Queue, Marks, IsFirst
  <2> QED BY <1>1, <2>1 DEF Queue, Marks
<1>8. Ages(Q, tap)
  <2>0. Term \in Nat
    BY TermAssumption
  <2>1. \A i \in 1 .. Len(Q) : IsEvent(Q[i]) /\ Q[i].ago <= Term
    <3>1. \A i \in 1 .. Len(P) : IsEvent(Q[i]) /\ Q[i].ago <= Term
      BY <1>1 DEF Queue, Ages
    <3>2. IsEvent(Q[n]) /\ Q[n].ago <= Term
      BY <1>1, <1>2, <2>0
    <3>3. \A i \in 1 .. Len(Q) : i = n \/ i \in 1 .. Len(P)
      BY <1>1
    <3> QED BY <3>1, <3>2, <3>3
  <2>2. \A i, j \in 1 .. Len(Q) : i < j => Q[j].ago <= Q[i].ago
    BY <1>1, <1>2 DEF Queue, Ages
  <2>3. IsOpen(tap) => \A i \in 1 .. Len(Q) : Q[i].key = tap.key => Q[i].ago <= tap.ago
    BY <1>1, <1>2 DEF Queue, Ages
  <2> QED BY <2>1, <2>2, <2>3 DEF Ages
<1> QED BY <1>3, <1>4, <1>6, <1>7, <1>8 DEF Queue, Q

\* Time passes for the records, and no age comes round.
LEMMA AgedQueue ==
  ASSUME NEW P \in Seq(Record), NEW Q \in Seq(Record), Len(Q) = Len(P),
         \A i \in 1 .. Len(P) : Q[i] = Aged(P[i]) /\ P[i].ago < Term,
         NEW D, NEW acting, NEW tap \in Record, Queue(P, D, acting, tap),
         P # <<>> => tap.ago < Term
  PROVE  Queue(Q, D, acting, Aged(tap))
<1>1. ASSUME NEW r \in Record
      PROVE  /\ Aged(r).key = r.key /\ (Aged(r).pressed <=> r.pressed) /\ Aged(r).count = r.count
             /\ IsEvent(r) /\ r.ago < Term => Aged(r).ago = r.ago + 1
  <2>1. /\ Aged(r).key = r.key /\ (Aged(r).pressed <=> r.pressed) /\ Aged(r).count = r.count
        /\ IsEvent(r) => Aged(r).ago = (r.ago + 1) % Wrap
    BY DEF Aged, Record
  <2>2. r.ago < Term => (r.ago + 1) % Wrap = r.ago + 1
    <3>1. r.ago \in Nat /\ Term \in Nat /\ Wrap \in Nat /\ Term > 1 /\ 2 * Term <= Wrap
      BY TermAssumption DEF Record
    <3> QED BY <3>1
  <2> QED BY <2>1, <2>2
<1>2. Len(P) \in Nat /\ \A i \in 1 .. Len(P) : P[i] \in Record /\ P[i].ago \in Nat /\ IsEvent(P[i])
  <2>1. ASSUME NEW r \in Record PROVE r.ago \in Nat
    BY TermAssumption DEF Record
  <2>2. \A i \in 1 .. Len(P) : P[i] \in Record
    OBVIOUS
  <2>3. \A i \in 1 .. Len(P) : IsEvent(P[i])
    BY DEF Queue, Ages
  <2> QED BY <2>1, <2>2, <2>3
<1>3. \A i \in 1 .. Len(P) : /\ Q[i].key = P[i].key /\ (Q[i].pressed <=> P[i].pressed)
                             /\ Q[i].count = P[i].count /\ Q[i].ago = P[i].ago + 1
  BY <1>1, <1>2
<1> DEFINE tap2 == Aged(tap)
<1>4. /\ tap2.key = tap.key /\ (tap2.pressed <=> tap.pressed) /\ tap2.count = tap.count
      /\ P # <<>> /\ IsEvent(tap) => tap2.ago = tap.ago + 1
  BY <1>1
<1>5. tap.pressed => IsEvent(tap)
  BY DEF Record, IsEvent
<1>5a. tap.ago \in Nat
  BY TermAssumption DEF Record
<1> HIDE DEF tap2
<1>6. Alternates(Q)
  <2>1. ASSUME NEW a \in 1 .. Len(Q), NEW b \in 1 .. Len(Q), a < b, Q[a].key = Q[b].key,
               Q[a].pressed <=> Q[b].pressed
        PROVE  \E h \in a + 1 .. b - 1 : Q[h].key = Q[a].key /\ (Q[h].pressed <=> ~Q[a].pressed)
    <3>1. PICK h \in a + 1 .. b - 1 : P[h].key = P[a].key /\ (P[h].pressed <=> ~P[a].pressed)
      BY <1>3, <2>1 DEF Queue, Alternates
    <3>2. h \in 1 .. Len(P)
      BY <1>2, <3>1
    <3> QED BY <1>3, <3>1, <3>2
  <2> QED BY <2>1 DEF Alternates
<1>7. UpToDate(Q, D)
  <2>1. \A a \in 1 .. Len(P) : \A j \in a + 1 .. Len(P) : j \in 1 .. Len(P)
    BY <1>2
  <2> QED BY <1>3, <2>1 DEF Queue, UpToDate
<1>8. Expects(Q, D, acting, tap2)
  <2>1. ASSUME NEW k, Opened(P, D, k) PROVE Opened(Q, D, k)
    <3>1. \A a \in 1 .. Len(P) : \A h \in 1 .. a - 1 : h \in 1 .. Len(P)
      BY <1>2
    <3> QED BY <1>3, <2>1, <3>1 DEF Opened
  <2> QED BY <1>4, <2>1 DEF Queue, Expects, IsOpen, IsTapped
<1>9. Marks(Q, tap2)
  <2>1. \A a \in 1 .. Len(P) : \A h \in 1 .. a - 1 : h \in 1 .. Len(P)
    BY <1>2
  <2> QED BY <1>3, <1>4, <2>1 DEF Queue, Marks, IsOpen, IsTapped, IsFirst
<1>10. Ages(Q, tap2)
  <2>0. Term \in Nat
    BY TermAssumption
  <2>1. ASSUME NEW i \in 1 .. Len(Q) PROVE IsEvent(Q[i]) /\ Q[i].ago <= Term
    <3>1. Q[i].ago = P[i].ago + 1 /\ P[i].ago < Term /\ P[i].ago \in Nat
      BY <1>2, <1>3
    <3>2. P[i].ago + 1 <= Term
      BY <2>0, <3>1
    <3>3. IsEvent(Q[i])
      BY <1>2, <1>3 DEF IsEvent
    <3> QED BY <3>1, <3>2, <3>3
  <2>2. ASSUME NEW i \in 1 .. Len(Q), NEW j \in 1 .. Len(Q), i < j PROVE Q[j].ago <= Q[i].ago
    <3>1. P[j].ago <= P[i].ago
      BY <2>2 DEF Queue, Ages
    <3>2. Q[i].ago = P[i].ago + 1 /\ Q[j].ago = P[j].ago + 1 /\ P[i].ago \in Nat /\ P[j].ago \in Nat
      BY <1>2, <1>3
    <3> QED BY <3>1, <3>2
  <2>3. ASSUME IsOpen(tap2), NEW i \in 1 .. Len(Q), Q[i].key = tap2.key PROVE Q[i].ago <= tap2.ago
    <3>1. IsOpen(tap) /\ P # <<>>
      BY <1>4, <2>3 DEF IsOpen
    <3>2. tap2.ago = tap.ago + 1
      BY <1>4, <1>5, <3>1 DEF IsOpen
    <3>3. P[i].key = tap.key /\ P[i].ago <= tap.ago
      BY <1>3, <1>4, <2>3, <3>1 DEF Queue, Ages
    <3> QED BY <1>2, <1>3, <1>5a, <3>2, <3>3
  <2> QED BY <2>1, <2>2, <2>3 DEF Ages
<1> QED BY <1>6, <1>7, <1>8, <1>9, <1>10 DEF Queue, tap2

\* How the keys whose next release is one of a tap change with event n.
TapsFollow(P, n, tap, Q, tap2) ==
  /\ \A k \in Key : k # P[n].key /\ (TappedIs(tap, k) <=> TappedIs(tap2, k)) =>
       (k \in Taps(P, tap) <=> k \in Taps(Q, tap2))
  /\ P[n].pressed => (P[n].key \in Taps(Q, tap2) <=> TappedIs(tap2, P[n].key))
  /\ P[n].key \in Taps(P, tap) <=> TappedIs(tap, P[n].key) \/ P[n].count > 0

LEMMA TapsTaken ==
  ASSUME NEW P \in Seq(Record), NEW Q \in Seq(Record), NEW n \in 1 .. Len(P), NEW d \in {0, 1},
         Without(P, n, d, Q), \A i \in 1 .. Len(Q) : Q[i].count = P[i + d].count,
         NEW tap, Marks(P, tap), NEW tap2, P[n].key \in Key
  PROVE  TapsFollow(P, n, tap, Q, tap2)
<1>1. Len(P) \in Nat /\ Len(Q) \in Nat
  OBVIOUS
<1>2. ASSUME NEW i \in 1 .. Len(P), i # n
      PROVE  i - d \in 1 .. Len(Q) /\ Q[i - d].key = P[i].key /\ Q[i - d].count = P[i].count
  <2>1. i - d \in 1 .. Len(Q) /\ (i - d) + d = i
    BY <1>1, <1>2 DEF Without
  <2> QED BY <2>1 DEF Without
<1>3. ASSUME NEW i \in 1 .. Len(Q)
      PROVE  i + d \in 1 .. Len(P) /\ i + d # n /\ Q[i].key = P[i + d].key
              /\ Q[i].count = P[i + d].count
  BY <1>1 DEF Without
<1>4. ASSUME NEW i \in 1 .. Len(P), P[i].key = P[n].key, P[i].count > 0 PROVE i = n /\ ~P[n].pressed
  <2>1. ~P[i].pressed /\ IsFirst(P, i)
    BY <1>4 DEF Marks
  <2>2. ~(n \in 1 .. i - 1) /\ ~(i \in 1 .. n - 1)
    BY <1>4, <2>1 DEF IsFirst, Without
  <2> QED BY <1>1, <2>1, <2>2
<1>5. ASSUME NEW k \in Key, k # P[n].key
      PROVE  (\E i \in 1 .. Len(P) : P[i].key = k /\ P[i].count > 0) <=>
                (\E i \in 1 .. Len(Q) : Q[i].key = k /\ Q[i].count > 0)
  <2>1. ASSUME NEW i \in 1 .. Len(P), P[i].key = k, P[i].count > 0
        PROVE  \E j \in 1 .. Len(Q) : Q[j].key = k /\ Q[j].count > 0
    BY <1>2, <1>5, <2>1
  <2>2. ASSUME NEW i \in 1 .. Len(Q), Q[i].key = k, Q[i].count > 0
        PROVE  \E j \in 1 .. Len(P) : P[j].key = k /\ P[j].count > 0
    BY <1>3, <2>2
  <2> QED BY <2>1, <2>2
<1>6. ASSUME P[n].pressed, NEW i \in 1 .. Len(Q), Q[i].key = P[n].key, Q[i].count > 0 PROVE FALSE
  BY <1>3, <1>4, <1>6
<1>7. \A k \in Key : k # P[n].key /\ (TappedIs(tap, k) <=> TappedIs(tap2, k)) =>
        (k \in Taps(P, tap) <=> k \in Taps(Q, tap2))
  BY <1>5 DEF Taps, TappedIs
<1>8. P[n].pressed => (P[n].key \in Taps(Q, tap2) <=> TappedIs(tap2, P[n].key))
  BY <1>6 DEF Taps, TappedIs
<1>9. P[n].key \in Taps(P, tap) <=> TappedIs(tap, P[n].key) \/ P[n].count > 0
  BY <1>4 DEF Taps, TappedIs
<1> QED BY <1>7, <1>8, <1>9 DEF TapsFollow

LEMMA TapsMarked ==
  ASSUME NEW P \in Seq(Record), NEW Q \in Seq(Record), NEW i \in 1 .. Len(P), Marked(P, i, Q),
         NEW tap, NEW tap2, P[i].key \in Key
  PROVE  /\ \A k \in Key : k # P[i].key /\ (TappedIs(tap, k) <=> TappedIs(tap2, k)) =>
              (k \in Taps(P, tap) <=> k \in Taps(Q, tap2))
         /\ P[i].key \in Taps(Q, tap2)
  BY DEF Taps, Marked, TappedIs

\* What holds of the keyboard b and the queue P while nothing excused has happened.
Held(P, D, b, tap) == Queue(P, D, b.acting, tap) /\ Backed(b, Taps(P, tap))

\* One event is processed as a release.
LEMMA ReleaseTaken ==
  ASSUME NEW P \in Seq(Record), NEW Q \in Seq(Record), NEW n \in 1 .. Len(P), NEW d \in {0, 1},
         Without(P, n, d, Q), \A i \in 1 .. Len(Q) : Q[i].count = P[i + d].count,
         NEW D, NEW b \in Keyboard, NEW tap \in Record, Held(P, D, b, tap),
         ~P[n].pressed, NEW r \in Record, r.key = P[n].key, ~r.pressed,
         r.count > 0 <=> TappedIs(tap, P[n].key) \/ P[n].count > 0,
         NEW tap2,
         \/ tap2 = tap /\ (tap.pressed => tap.key # P[n].key)
         \/ ~tap2.pressed /\ (tap.pressed => tap.key = P[n].key)
  PROVE  Held(Q, D, Processed(b, r), tap2)
<1>1. P[n].key \in Key /\ IsEvent(r) /\ b.acting \subseteq Key
  <2>1. P[n] \in Record /\ IsEvent(P[n])
    BY DEF Held, Queue, Ages
  <2> QED BY <2>1, RecordParts DEF IsEvent, Keyboard
<1>2. Marks(P, tap)
  BY DEF Held, Queue
<1> DEFINE c == Processed(b, r)
           S == Taps(P, tap)
           T == Taps(Q, tap2)
<1>3. TapsFollow(P, n, tap, Q, tap2)
  BY <1>1, <1>2, TapsTaken
<1>4. SameHow(S, T, b.acting \ {r.key}) /\ Counted(S, r)
  BY <1>1, <1>3 DEF TapsFollow, IsTapped, TappedIs, SameHow, Counted
<1>5. Backed(b, S)
  BY DEF Held
<1> HIDE DEF S, T
<1>7. Backed(c, T) /\ c.acting = b.acting \ {r.key}
  BY <1>1, <1>4, <1>5, BackedRelease
<1> HIDE DEF c
<1>8. Takes(P, n, b.acting, tap, c.acting, tap2)
  <2>1. IsTapped(tap) => tap.key \in b.acting
    BY DEF Held, Queue, Expects
  <2> QED BY <1>7, <2>1 DEF Takes, IsOpen, IsTapped, TappedIs
<1>9. Queue(Q, D, c.acting, tap2)
  BY <1>8, TakesQueue DEF Held
<1> QED BY <1>7, <1>9 DEF Held, T, c

\* One event is processed as a press.
LEMMA PressTaken ==
  ASSUME NEW P \in Seq(Record), NEW Q \in Seq(Record), NEW n \in 1 .. Len(P), NEW d \in {0, 1},
         Without(P, n, d, Q), \A i \in 1 .. Len(Q) : Q[i].count = P[i + d].count,
         NEW D, NEW b \in Keyboard, NEW tap \in Record, Held(P, D, b, tap),
         P[n].pressed, NEW r \in Record, r.key = P[n].key, r.pressed,
         SameLayer(b, PressProcessed(b, r)),
         NEW tap2, ~IsOpen(tap2),
         \/ tap2 = tap /\ r.count = 0
         \/ ~tap.pressed /\ ~tap2.pressed /\ r.count = 0
         \/ /\ ~tap.pressed /\ tap2.key = r.key /\ r.count > 1 /\ tap2.count = r.count
            /\ tap2.pressed <=> ~ReleasedAtOnce(b, r)
  PROVE  Held(Q, D, Processed(b, r), tap2)
<1>1. P[n].key \in Key /\ IsEvent(r) /\ b.acting \subseteq Key
  <2>1. P[n] \in Record /\ IsEvent(P[n])
    BY DEF Held, Queue, Ages
  <2> QED BY <2>1, RecordParts DEF IsEvent, Keyboard
<1>2. Marks(P, tap)
  BY DEF Held, Queue
<1>3. r.key \notin b.acting
  BY FirstIsNoPress DEF Held, Queue, Expects, Without
<1>4. IsTapped(tap) => tap.key \in b.acting /\ tap.key # r.key
  BY <1>3 DEF Held, Queue, Expects
<1> DEFINE c == Processed(b, r)
           S == Taps(P, tap)
           T == Taps(Q, tap2)
<1>5. TapsFollow(P, n, tap, Q, tap2)
  BY <1>1, <1>2, TapsTaken
<1>6. SameHow(S, T, b.acting)
  BY <1>1, <1>3, <1>5 DEF TapsFollow, IsTapped, TappedIs, SameHow
<1>6a. r.count \in Nat
  BY CountAssumption DEF Record
<1>7. ReleasedAtOnce(b, r) \/ Counted(T, r)
  BY <1>4, <1>5, <1>6a DEF TapsFollow, IsTapped, TappedIs, Counted
<1>8. Backed(b, S)
  BY DEF Held
<1> HIDE DEF S, T
<1>9. Backed(c, T) /\ c.acting = ActingAfter(b, r)
  BY <1>1, <1>3, <1>6, <1>7, <1>8, BackedPress
<1> HIDE DEF c
<1>10. Takes(P, n, b.acting, tap, c.acting, tap2)
  BY <1>3, <1>4, <1>6a, <1>9 DEF ActingAfter, Takes, IsOpen, IsTapped, TappedIs
<1>11. Queue(Q, D, c.acting, tap2)
  BY <1>10, TakesQueue DEF Held
<1> QED BY <1>9, <1>11 DEF Held, T, c

\* The press of a key with two meanings is taken, and nothing else happens.
LEMMA StartTaken ==
  ASSUME NEW P \in Seq(Record), NEW Q \in Seq(Record), NEW n \in 1 .. Len(P), NEW d \in {0, 1},
         Without(P, n, d, Q), \A i \in 1 .. Len(Q) : Q[i].count = P[i + d].count,
         NEW D, NEW b \in Keyboard, NEW tap \in Record, Held(P, D, b, tap),
         P[n].pressed, ~tap.pressed, NEW tap2, tap2 = P[n] \/ ~tap2.pressed
  PROVE  Held(Q, D, b, tap2) /\ P[n].key \notin b.acting /\ P[n].count = 0
<1>1. P[n].key \in Key /\ b.acting \subseteq Key /\ P[n].count \in Nat
  <2>1. P[n] \in Record /\ IsEvent(P[n])
    BY DEF Held, Queue, Ages
  <2>2. P[n].key \in Key
    BY <2>1, RecordParts
  <2>3. b.acting \subseteq Key
    BY DEF Keyboard
  <2>4. P[n].count \in Nat
    BY <2>1, CountAssumption DEF Record
  <2> QED BY <2>2, <2>3, <2>4
<1>2. Marks(P, tap)
  BY DEF Held, Queue
<1>3. P[n].key \notin b.acting
  BY FirstIsNoPress DEF Held, Queue, Expects, Without
<1>4. P[n].count = 0
  BY <1>1, <1>2 DEF Marks
<1>5. ~IsTapped(tap2) /\ ~IsTapped(tap)
  BY <1>4 DEF IsTapped, TappedIs
<1>5a. TapsFollow(P, n, tap, Q, tap2)
  BY <1>1, <1>2, TapsTaken
<1>6. \A k \in Key : k # P[n].key => (k \in Taps(P, tap) <=> k \in Taps(Q, tap2))
  BY <1>5, <1>5a DEF TapsFollow, TappedIs
<1>7. SameHow(Taps(P, tap), Taps(Q, tap2), b.acting)
  BY <1>1, <1>3, <1>6 DEF SameHow
<1>8. Backed(b, Taps(Q, tap2))
  BY <1>7, BackedSame DEF Held
<1>9. Takes(P, n, b.acting, tap, b.acting, tap2)
  BY <1>3, <1>5 DEF Takes, IsOpen, IsTapped, TappedIs
<1>10. Queue(Q, D, b.acting, tap2)
  BY <1>9, TakesQueue DEF Held
<1> QED BY <1>3, <1>4, <1>8, <1>10 DEF Held

\* The tap key is acted upon as tapped, since its release has been seen.
LEMMA TapActed ==
  ASSUME NEW P \in Seq(Record), NEW Q \in Seq(Record), NEW i \in 1 .. Len(P), Marked(P, i, Q),
         ~P[i].pressed, IsFirst(P, i), NEW D, NEW b \in Keyboard, NEW tap, Held(P, D, b, tap),
         ~IsTapped(tap), P[i].key \notin b.acting,
         NEW r \in Record, r.key = P[i].key, r.pressed, r.count = 1,
         SameLayer(b, PressProcessed(b, r))
  PROVE  Held(Q, D, Processed(b, r), AsProcessed(b, r))
<1> DEFINE tap2 == AsProcessed(b, r)
<1>1. P[i].key \in Key /\ IsEvent(r) /\ b.acting \subseteq Key
  <2>1. P[i] \in Record /\ IsEvent(P[i])
    BY DEF Held, Queue, Ages
  <2> QED BY <2>1, RecordParts DEF IsEvent, Keyboard
<1>2. tap2.key = r.key /\ tap2.count = 1 /\ (tap2.pressed <=> ~ReleasedAtOnce(b, r))
  BY DEF AsProcessed, Record
<1> HIDE DEF tap2
<1> DEFINE c == Processed(b, r)
           S == Taps(P, tap)
           T == Taps(Q, tap2)
<1>3. \A k \in Key : k # P[i].key => (TappedIs(tap, k) <=> TappedIs(tap2, k))
  BY <1>2 DEF TappedIs
<1>4. SameHow(S, T, b.acting) /\ Counted(T, r)
  BY <1>1, <1>3, TapsMarked DEF SameHow, Counted
<1>5. Backed(b, S)
  BY DEF Held
<1> HIDE DEF S, T
<1>6. Backed(c, T) /\ c.acting = ActingAfter(b, r)
  <2>1. r.key \notin b.acting
    OBVIOUS
  <2> QED BY <1>1, <1>4, <1>5, <2>1, BackedPress
<1> HIDE DEF c
<1>7. /\ ~IsOpen(tap2) /\ c.acting \subseteq b.acting \cup {P[i].key}
      /\ IsTapped(tap2) => tap2.key = P[i].key /\ tap2.key \in c.acting
  BY <1>2, <1>6 DEF ActingAfter, IsOpen, IsTapped, TappedIs
<1>8. Queue(Q, D, c.acting, tap2)
  BY <1>7, MarkedQueue DEF Held
<1> QED BY <1>6, <1>8 DEF Held, T, c, tap2

\* The tap key is acted upon as held.
LEMMA HoldActed ==
  ASSUME NEW P \in Seq(Record), NEW D, NEW b \in Keyboard, NEW tap \in Record, Held(P, D, b, tap),
         IsOpen(tap), NEW r \in Record, r.key = tap.key, r.pressed, r.count = 0,
         SameLayer(b, PressProcessed(b, r))
  PROVE  Held(P, D, Processed(b, r), NoRecord)
<1>1. tap.key \in Key /\ IsEvent(r) /\ b.acting \subseteq Key
  BY RecordParts DEF IsOpen, IsEvent, Keyboard, Record
<1>2. tap.key \notin b.acting
  BY DEF Held, Queue, Expects
<1>3. ~IsTapped(tap) /\ ~IsTapped(NoRecord) /\ ~IsOpen(NoRecord)
  BY DEF IsTapped, IsOpen, NoRecord, TappedIs
<1>4. Taps(P, NoRecord) = Taps(P, tap)
  BY <1>3 DEF Taps, TappedIs
<1>5. tap.key \notin Taps(P, tap)
  BY <1>3 DEF Taps, Held, Queue, Marks, TappedIs
<1> DEFINE c == Processed(b, r)
           S == Taps(P, tap)
<1>6. Backed(b, S) /\ Counted(S, r) /\ SameHow(S, S, b.acting) /\ r.key \notin b.acting
  BY <1>2, <1>5 DEF Held, Counted, SameHow
<1> HIDE DEF S
<1>7. Backed(c, S) /\ c.acting = ActingAfter(b, r)
  BY <1>1, <1>6, BackedPress
<1> HIDE DEF c
<1>8. Queue(P, D, c.acting, NoRecord)
  BY <1>3, <1>7, KeptQueue DEF Held, ActingAfter
<1> QED BY <1>4, <1>7, <1>8 DEF Held, S, c

\* Nothing is acted upon, and the tap key stays what it is, or is forgotten once it is up.
LEMMA TapKept ==
  ASSUME NEW P \in Seq(Record), NEW D, NEW b, NEW tap, Held(P, D, b, tap), NEW tap2,
         \/ /\ tap2.key = tap.key /\ tap2.ago = tap.ago /\ tap2.count = tap.count
            /\ tap2.pressed <=> tap.pressed
         \/ ~tap.pressed /\ ~tap2.pressed
  PROVE  Held(P, D, b, tap2)
<1>1. Taps(P, tap2) = Taps(P, tap)
  BY DEF Taps, IsTapped, TappedIs
<1>2. Queue(P, D, b.acting, tap2)
  BY KeptQueue DEF Held, IsOpen, IsTapped, TappedIs
<1> QED BY <1>1, <1>2 DEF Held

\* A tap key is replaced: one that was tapped once has its release marked already.
LEMMA TapEndsReleased ==
  ASSUME NEW P \in Seq(Record), NEW D, NEW b \in Keyboard, NEW tap \in Record, Held(P, D, b, tap),
         IsTapped(tap), NEW r \in Record, IsEvent(r), r.key = tap.key, ~r.pressed, r.count > 0
  PROVE  /\ Held(P, D, Processed(b, r), NoRecord) /\ Processed(b, r) \in Keyboard
         /\ Processed(b, r).osl # {} => b.osl # {} /\ Processed(b, r).osl_layer = b.osl_layer
<1>1. ~IsTapped(NoRecord) /\ ~IsOpen(NoRecord) /\ ~NoRecord.pressed
  BY DEF IsTapped, IsOpen, NoRecord, TappedIs
<1> DEFINE c == Processed(b, r)
           S == Taps(P, tap)
           T == Taps(P, NoRecord)
<1>2. r.key \in Key
  BY DEF Record, IsEvent
<1>3. SameHow(S, T, b.acting \ {r.key}) /\ Counted(S, r)
  BY <1>1, <1>2 DEF Taps, TappedIs, SameHow, Counted
<1>4. Backed(b, S)
  BY DEF Held
<1> HIDE DEF S, T
<1>5. Backed(c, T) /\ c.acting = b.acting \ {r.key}
  BY <1>3, <1>4, BackedRelease, ZenonT(60)
<1>6. c.osl # {} => b.osl # {} /\ c.osl_layer = b.osl_layer
  BY <1>3, <1>4, BackedRelease, ZenonT(60)
<1>7. c \in Keyboard
  BY ProcessedType
<1> HIDE DEF c
<1>8. Queue(P, D, c.acting, NoRecord)
  BY <1>1, <1>5, KeptQueue DEF Held
<1> QED BY <1>5, <1>6, <1>7, <1>8 DEF Held, T, c

LEMMA TapEnds ==
  ASSUME NEW P \in Seq(Record), NEW D, NEW b \in Keyboard, NEW tap \in Record, Held(P, D, b, tap),
         IsTapped(tap), NEW r \in Record, r.key = tap.key, ~r.pressed, r.count = tap.count,
         NEW c, tap.count > 1 => c = Processed(b, r), ~(tap.count > 1) => c = b
  PROVE  /\ Held(P, D, c, NoRecord) /\ c \in Keyboard
         /\ c.osl # {} => b.osl # {} /\ c.osl_layer = b.osl_layer
<1>1. ~IsTapped(NoRecord) /\ ~IsOpen(NoRecord) /\ ~NoRecord.pressed
  BY DEF IsTapped, IsOpen, NoRecord, TappedIs
<1>2. tap.key \in Key /\ tap.count \in Nat /\ tap.count > 0
  BY RecordParts, CountAssumption, NoneAssumption DEF IsTapped, Record
<1>3. CASE tap.count > 1
  <2>1. IsEvent(r) /\ r.count > 0
    BY <1>2, NoneAssumption DEF IsEvent
  <2>2. /\ Held(P, D, Processed(b, r), NoRecord) /\ Processed(b, r) \in Keyboard
        /\ Processed(b, r).osl # {} => b.osl # {} /\ Processed(b, r).osl_layer = b.osl_layer
    BY <2>1, TapEndsReleased
  <2>3. c = Processed(b, r)
    BY <1>3
  <2> QED BY <2>2, <2>3
<1>4. CASE ~(tap.count > 1)
  <2>1. tap.count = 1 /\ c = b
    BY <1>2, <1>4 DEF IsTapped, TappedIs
  <2>2. \E i \in 1 .. Len(P) : P[i].key = tap.key /\ P[i].count > 0
    BY <2>1 DEF Held, Queue, Marks
  <2>3. Taps(P, NoRecord) = Taps(P, tap)
    BY <1>1, <2>2 DEF Taps, TappedIs
  <2>4. Queue(P, D, b.acting, NoRecord)
    BY <1>1, KeptQueue DEF Held
  <2> QED BY <2>1, <2>3, <2>4 DEF Held
<1> QED BY <1>3, <1>4

-----------------------------------------------------------------------------
(* What Done and Kept do to the queue.                                     *)

\* The release of an open tap key that waits came too late to be seen within its term.
Scanned(W, tap) ==
  IsOpen(tap) => \A i \in 1 .. Len(W) : W[i].key = tap.key /\ ~W[i].pressed => ~InTerm(W[i], tap)

\* After a tick what waits first has arrived within the term of the tap key.
InStep == settled /\ phase = "idle" /\ waiting # <<>> => InTerm(waiting[1], tapping)

HeldInv == excused = {} => Held(Pending, down, kb, tapping) /\ Scanned(waiting, tapping) /\ InStep

\* What a branch of process_tapping is given, and leaves nothing excused behind.
InWork ==
  /\ WaitInv /\ Frame /\ excused' = {} /\ excused = {}
  /\ Held(Pending, down, kb, tapping) /\ Scanned(waiting, tapping)

LEMMA PendingType ==
  ASSUME TappingTypeOK
  PROVE  Pending \in Seq(Record) /\ waiting \in Seq(Record) /\ event \in Record
<1>1. waiting \in Seq(Record) /\ event \in Record
  BY DEF TappingTypeOK
<1> QED BY <1>1 DEF Pending

LEMMA RecPlace ==
  ASSUME InWork, IsEvent(Rec)
  PROVE  \E n \in 1 .. Len(Pending), d \in {0, 1} :
           /\ Pending[n] = Rec /\ Len(Pending) \in Nat
           /\ phase = "drain" => n = 1 /\ d = 1 /\ Pending = waiting /\ waiting # <<>>
           /\ phase # "drain" => n = Len(Pending) /\ d = 0 /\ phase = "event"
                                   /\ Pending = Append(waiting, Rec)
                                        /\ Len(Pending) = Len(waiting) + 1
<1>1. Pending \in Seq(Record) /\ waiting \in Seq(Record) /\ event \in Record
  BY PendingType DEF InWork, WaitInv
<1>2. phase \in {"drain", "event"} /\ (phase = "drain" => waiting # <<>> /\ ~IsEvent(event))
  BY DEF InWork, WaitInv, Frame, TappingTypeOK
<1>3. CASE phase = "drain"
  <2>1. Pending = waiting /\ Rec = waiting[1] /\ waiting # <<>>
    BY <1>2, <1>3 DEF Pending, Rec
  <2>2. Len(waiting) \in Nat /\ 1 \in 1 .. Len(waiting)
    BY <1>1, <2>1
  <2> QED BY <1>3, <2>1, <2>2
<1>4. CASE phase # "drain"
  <2>1. Rec = event /\ phase = "event" /\ Pending = Append(waiting, event)
    BY <1>2, <1>4 DEF Pending, Rec
  <2>2. /\ Len(Pending) = Len(waiting) + 1 /\ Len(waiting) \in Nat
        /\ Pending[Len(Pending)] = event
    BY <1>1, <2>1
  <2>3. Len(Pending) \in 1 .. Len(Pending) /\ Len(Pending) \in Nat
    BY <2>2
  <2> QED BY <1>4, <2>1, <2>2, <2>3
<1> QED BY <1>3, <1>4

\* An event whose other half waits is excused when it is processed at once.
LEMMA NotTyped ==
  ASSUME InWork, IsEvent(Rec), phase # "drain", ~Typed
  PROVE  \A i \in 1 .. Len(waiting) : waiting[i].key # Rec.key
<1>1. PICK n \in 1 .. Len(Pending), d \in {0, 1} :
        /\ Pending[n] = Rec /\ n = Len(Pending) /\ Pending = Append(waiting, Rec)
        /\ Len(Pending) = Len(waiting) + 1
  BY RecPlace
<1>2. waiting \in Seq(Record) /\ Rec \in Record /\ Len(waiting) \in Nat
  BY PendingType, RecType DEF InWork, WaitInv, Frame
<1>3. \A i \in 1 .. Len(waiting) : Pending[i] = waiting[i] /\ i \in 1 .. Len(Pending) /\ i < n
                                     /\ waiting[i] \in Record
  BY <1>1, <1>2
<1>4. ASSUME NEW i \in 1 .. Len(waiting), waiting[i].key = Rec.key PROVE FALSE
  <2>1. waiting[i].pressed = Rec.pressed
    BY <1>4 DEF Typed
  <2>2. Pending[i].key = Pending[n].key /\ (Pending[i].pressed <=> Pending[n].pressed)
    BY <1>1, <1>3, <1>4, <2>1
  <2>3. Alternates(Pending)
    BY DEF InWork, Held, Queue
  <2>4. PICK h \in i + 1 .. n - 1 : Pending[h].key = Pending[i].key
          /\ (Pending[h].pressed <=> ~Pending[i].pressed)
    BY <1>3, <2>2, <2>3 DEF Alternates
  <2>5. h \in 1 .. Len(waiting)
    BY <1>1, <1>2, <2>4
  <2>6. waiting[h].key = Rec.key /\ waiting[h].pressed # Rec.pressed
    BY <1>3, <1>4, <2>1, <2>4, <2>5
  <2> QED BY <2>5, <2>6 DEF Typed
<1> QED BY <1>4

LEMMA DoneQueue ==
  ASSUME InWork, IsEvent(Rec), NEW k, NEW tap, Done(k, tap, waiting)
  PROVE  /\ kb' = k /\ tapping' = tap /\ Replaced(k) = {} /\ Unscanned(tap) = {}
         /\ \E n \in 1 .. Len(Pending), d \in {0, 1} :
              /\ Pending[n] = Rec /\ Without(Pending, n, d, waiting')
              /\ \A i \in 1 .. Len(waiting') : waiting'[i].count = Pending[i + d].count
         /\ \A i \in 1 .. Len(waiting') : \E j \in 1 .. Len(waiting) : waiting'[i] = waiting[j]
         /\ waiting' \in Seq(Record)
<1>1. kb' = k /\ tapping' = tap /\ Replaced(k) = {} /\ Unscanned(tap) = {}
        /\ ~(phase = "event" /\ Typed)
  BY DEF Done, InWork
<1>2. waiting \in Seq(Record) /\ Rec \in Record /\ Pending \in Seq(Record)
  BY PendingType, RecType DEF InWork, WaitInv, Frame
<1>3. PICK n \in 1 .. Len(Pending), d \in {0, 1} :
           /\ Pending[n] = Rec /\ Len(Pending) \in Nat
           /\ phase = "drain" => n = 1 /\ d = 1 /\ Pending = waiting /\ waiting # <<>>
           /\ phase # "drain" => n = Len(Pending) /\ d = 0 /\ phase = "event"
                                   /\ Pending = Append(waiting, Rec)
                                        /\ Len(Pending) = Len(waiting) + 1
  BY RecPlace
<1>4. CASE phase = "drain"
  <2>1. waiting' = Tail(waiting) /\ Pending = waiting /\ n = 1 /\ d = 1 /\ waiting # <<>>
    BY <1>3, <1>4 DEF Done
  <2>2. /\ waiting' \in Seq(Record) /\ Len(waiting') = Len(waiting) - 1
        /\ \A i \in 1 .. Len(waiting') : waiting'[i] = waiting[i + 1] /\ i + 1 \in 1 .. Len(waiting)
    BY <1>2, <2>1
  <2>3. Without(Pending, n, d, waiting')
    BY <2>1, <2>2 DEF Without, IsFirst
  <2> QED BY <1>1, <1>3, <2>1, <2>2, <2>3
<1>5. CASE phase # "drain"
  <2>1. waiting' = waiting /\ n = Len(Pending) /\ d = 0 /\ Pending = Append(waiting, Rec) /\ ~Typed
        /\ Len(Pending) = Len(waiting) + 1
    BY <1>1, <1>3, <1>5 DEF Done
  <2>2. \A i \in 1 .. Len(waiting) : waiting[i].key # Rec.key
    BY <1>5, <2>1, NotTyped
  <2>3. \A i \in 1 .. Len(waiting') : waiting'[i] = Pending[i] /\ i + 0 = i
    BY <1>2, <2>1
  <2>4. \A h \in 1 .. n - 1 : h \in 1 .. Len(waiting) /\ Pending[h] = waiting[h]
    BY <1>2, <2>1
  <2>5. IsFirst(Pending, n)
    BY <1>3, <2>2, <2>4 DEF IsFirst
  <2>6. Len(waiting') = Len(Pending) - 1
    BY <1>2, <2>1
  <2>7. Without(Pending, n, d, waiting')
    BY <2>1, <2>3, <2>5, <2>6 DEF Without
  <2> QED BY <1>1, <1>2, <1>3, <2>1, <2>3, <2>7
<1> QED BY <1>4, <1>5

LEMMA KeptQueueSame ==
  ASSUME InWork, NEW k, NEW tap, NEW r, Kept(k, tap, r), r = Rec
  PROVE  /\ kb' = k /\ tapping' = tap /\ Replaced(k) = {} /\ waiting' = Pending
<1>1. waiting \in Seq(Record) /\ Pending \in Seq(Record)
  BY PendingType DEF InWork, WaitInv
<1>2. CASE phase = "drain"
  <2>1. Rec = waiting[1] /\ Pending = waiting /\ waiting' = [waiting EXCEPT ![1] = r]
    BY <1>2 DEF Kept, Rec, Pending, InWork, WaitInv
  <2>2. waiting' = waiting
    BY <1>1, <2>1
  <2> QED BY <1>2, <2>1, <2>2 DEF Kept, InWork
<1>3. CASE phase # "drain"
  <2>1. Rec = event
    BY <1>3 DEF Rec
  <2> QED BY <1>3, <2>1 DEF Kept, Pending, InWork
<1> QED BY <1>2, <1>3

LEMMA KeptQueueMarked ==
  ASSUME InWork, IsEvent(Rec), NEW k, NEW tap, NEW r \in Record, Kept(k, tap, r), r.key = Rec.key,
         r.pressed <=> Rec.pressed, r.ago = Rec.ago, r.count > 0
  PROVE  /\ kb' = k /\ tapping' = tap /\ Replaced(k) = {} /\ waiting' \in Seq(Record)
         /\ \E n \in 1 .. Len(Pending) :
              /\ Pending[n] = Rec /\ Marked(Pending, n, waiting')
              /\ \A h \in 1 .. n - 1 : h \in 1 .. Len(waiting) /\ waiting[h] = Pending[h]
<1>1. waiting \in Seq(Record) /\ Pending \in Seq(Record)
  BY PendingType DEF InWork, WaitInv
<1>2. PICK n \in 1 .. Len(Pending), d \in {0, 1} :
           /\ Pending[n] = Rec /\ Len(Pending) \in Nat
           /\ phase = "drain" => n = 1 /\ d = 1 /\ Pending = waiting /\ waiting # <<>>
           /\ phase # "drain" => n = Len(Pending) /\ d = 0 /\ phase = "event"
                                   /\ Pending = Append(waiting, Rec)
                                        /\ Len(Pending) = Len(waiting) + 1
  BY RecPlace
<1>3. IsEvent(r)
  BY DEF IsEvent
<1>4. CASE phase = "drain"
  <2>1. n = 1 /\ Pending = waiting /\ waiting' = [waiting EXCEPT ![1] = r]
          /\ 1 \in 1 .. Len(waiting)
    BY <1>2, <1>4 DEF Kept
  <2>2. /\ waiting' \in Seq(Record) /\ Len(waiting') = Len(waiting) /\ waiting'[1] = r
        /\ \A h \in 1 .. Len(waiting) : h # 1 => waiting'[h] = waiting[h]
    BY <1>1, <2>1
  <2>3. /\ Len(waiting') = Len(Pending) /\ waiting'[n] = r /\ Pending[n] = Rec
        /\ \A h \in 1 .. Len(Pending) : h # n => waiting'[h] = Pending[h]
    BY <1>2, <2>1, <2>2
  <2>4. Marked(Pending, n, waiting')
    BY <2>3 DEF Marked
  <2> QED BY <1>2, <1>4, <2>1, <2>2, <2>4 DEF Kept, InWork
<1>5. CASE phase # "drain"
  <2>1. /\ waiting' = Append(waiting, r) /\ n = Len(Pending) /\ Pending = Append(waiting, Rec)
        /\ kb' = k /\ tapping' = tap /\ Replaced(k) = {} /\ Len(Pending) = Len(waiting) + 1
    BY <1>2, <1>3, <1>5 DEF Kept, InWork
  <2>2. /\ waiting' \in Seq(Record) /\ Len(waiting') = Len(Pending) /\ waiting'[n] = r
        /\ \A h \in 1 .. Len(Pending) : h # n => waiting'[h] = waiting[h] /\ Pending[h] = waiting[h]
        /\ \A h \in 1 .. n - 1 : h \in 1 .. Len(waiting) /\ Pending[h] = waiting[h]
    BY <1>1, <2>1
  <2>3. Marked(Pending, n, waiting')
    BY <1>2, <2>2 DEF Marked
  <2> QED BY <1>2, <2>1, <2>2, <2>3
<1> QED BY <1>4, <1>5

LEMMA SameLayerOfPress ==
  ASSUME NEW b, NEW c \in Keyboard, b = kb, Replaced(c) = {} PROVE SameLayer(b, c)
  BY DEF Replaced, SameLayer

LEMMA PressProcessedLayer ==
  ASSUME NEW b \in Keyboard, NEW r \in Record, IsEvent(r), r.pressed,
         NEW base, SameLayer(base, Processed(b, r))
  PROVE  SameLayer(base, PressProcessed(b, r))
<1>1. PressProcessed(b, r) \in Keyboard
  BY PressProcessedType
<1> DEFINE p == PressProcessed(b, r)
           c == Processed(b, r)
<1>2. /\ AsProcessed(b, r).pressed => c = [p EXCEPT !.acting = @ \cup {r.key}]
      /\ ~AsProcessed(b, r).pressed => c = [p EXCEPT !.acting = @ \ {r.key}]
  BY DEF Processed
<1> HIDE DEF p
<1>3. c.osl = p.osl /\ c.osl_layer = p.osl_layer
  <2> HIDE DEF c
  <2>1. CASE AsProcessed(b, r).pressed
    BY <1>1, <1>2, <2>1 DEF Keyboard, p
  <2>2. CASE ~AsProcessed(b, r).pressed
    BY <1>1, <1>2, <2>2 DEF Keyboard, p
  <2> QED BY <2>1, <2>2
<1> HIDE DEF c
<1>4. SameLayer(base, p)
  BY <1>3 DEF SameLayer, c
<1> QED BY <1>4 DEF p

-----------------------------------------------------------------------------
(* The branches of process_tapping.                                        *)

HeldNext == Held(waiting', down, kb', tapping') /\ Scanned(waiting', tapping')

LEMMA InWorkTypes ==
  ASSUME InWork
  PROVE  /\ kb \in Keyboard /\ tapping \in Record /\ Rec \in Record
         /\ waiting \in Seq(Record) /\ Pending \in Seq(Record)
         /\ (Rec.pressed => IsEvent(Rec)) /\ (tapping.pressed => IsEvent(tapping))
<1>1. kb \in Keyboard /\ tapping \in Record /\ Rec \in Record
  BY RecType DEF InWork, WaitInv, Frame, TappingTypeOK
<1>2. (Rec.pressed => IsEvent(Rec)) /\ (tapping.pressed => IsEvent(tapping))
  BY <1>1 DEF Record, IsEvent
<1> QED BY <1>1, <1>2, PendingType DEF InWork, WaitInv

LEMMA ScannedLess ==
  ASSUME NEW V, NEW W, NEW tap, Scanned(W, tap), NEW tap2,
         \A i \in 1 .. Len(V) : \E j \in 1 .. Len(W) : V[i] = W[j],
         IsOpen(tap2) => IsOpen(tap) /\ tap2.key = tap.key /\ tap2.ago = tap.ago
  PROVE  Scanned(V, tap2)
  BY DEF Scanned, InTerm

LEMMA ReleaseDone ==
  ASSUME InWork, IsEvent(Rec), ~Rec.pressed, NEW r \in Record, r.key = Rec.key, ~r.pressed,
         r.count > 0 <=> TappedIs(tapping, Rec.key) \/ Rec.count > 0, NEW tap2,
         \/ tap2 = tapping /\ (tapping.pressed => tapping.key # Rec.key)
         \/ ~tap2.pressed /\ (tapping.pressed => tapping.key = Rec.key),
         Done(Processed(kb, r), tap2, waiting)
  PROVE  HeldNext
<1>1. /\ kb' = Processed(kb, r) /\ tapping' = tap2
      /\ \E n \in 1 .. Len(Pending), d \in {0, 1} :
           /\ Pending[n] = Rec /\ Without(Pending, n, d, waiting')
           /\ \A i \in 1 .. Len(waiting') : waiting'[i].count = Pending[i + d].count
      /\ \A i \in 1 .. Len(waiting') : \E j \in 1 .. Len(waiting) : waiting'[i] = waiting[j]
      /\ waiting' \in Seq(Record)
  BY DoneQueue
<1>2. PICK n \in 1 .. Len(Pending), d \in {0, 1} :
           /\ Pending[n] = Rec /\ Without(Pending, n, d, waiting')
           /\ \A i \in 1 .. Len(waiting') : waiting'[i].count = Pending[i + d].count
  BY <1>1
<1>3. Scanned(waiting', tap2)
  <2>1. IsOpen(tap2) => tap2 = tapping
    BY DEF IsOpen
  <2> QED BY <1>1, <2>1, ScannedLess DEF InWork
<1> DEFINE Q == waiting'
<1>4. /\ Q \in Seq(Record) /\ Without(Pending, n, d, Q) /\ ~Pending[n].pressed
      /\ \A i \in 1 .. Len(Q) : Q[i].count = Pending[i + d].count
      /\ r.key = Pending[n].key /\ (r.count > 0 <=> TappedIs(tapping, Pending[n].key) \/ Pending[n].count > 0)
      /\ \/ tap2 = tapping /\ (tapping.pressed => tapping.key # Pending[n].key)
         \/ ~tap2.pressed /\ (tapping.pressed => tapping.key = Pending[n].key)
  BY <1>1, <1>2
<1> HIDE DEF Q
<1>5. Held(Q, down, Processed(kb, r), tap2)
  BY <1>4, InWorkTypes, ReleaseTaken, ZenonT(60) DEF InWork
<1> QED BY <1>1, <1>3, <1>5 DEF HeldNext, Q

LEMMA PressDone ==
  ASSUME InWork, Rec.pressed, NEW r \in Record, r.key = Rec.key, r.pressed, NEW tap2, ~IsOpen(tap2),
         \/ tap2 = tapping /\ r.count = 0
         \/ ~tapping.pressed /\ ~tap2.pressed /\ r.count = 0
         \/ /\ ~tapping.pressed /\ tap2.key = r.key /\ r.count > 1 /\ tap2.count = r.count
            /\ tap2.pressed <=> ~ReleasedAtOnce(kb, r),
         Done(Processed(kb, r), tap2, waiting)
  PROVE  HeldNext
<1>0. IsEvent(Rec) /\ IsEvent(r) /\ kb \in Keyboard
  BY InWorkTypes DEF IsEvent
<1>1. /\ kb' = Processed(kb, r) /\ tapping' = tap2 /\ Replaced(Processed(kb, r)) = {}
      /\ \E n \in 1 .. Len(Pending), d \in {0, 1} :
           /\ Pending[n] = Rec /\ Without(Pending, n, d, waiting')
           /\ \A i \in 1 .. Len(waiting') : waiting'[i].count = Pending[i + d].count
      /\ waiting' \in Seq(Record)
  BY <1>0, DoneQueue
<1>2. PICK n \in 1 .. Len(Pending), d \in {0, 1} :
           /\ Pending[n] = Rec /\ Without(Pending, n, d, waiting')
           /\ \A i \in 1 .. Len(waiting') : waiting'[i].count = Pending[i + d].count
  BY <1>1
<1>3. Scanned(waiting', tap2)
  BY DEF Scanned
<1>3a. SameLayer(kb, PressProcessed(kb, r))
  BY <1>0, <1>1, ProcessedType, SameLayerOfPress, PressProcessedLayer
<1> DEFINE Q == waiting'
<1>4. /\ Q \in Seq(Record) /\ Without(Pending, n, d, Q) /\ Pending[n].pressed
      /\ \A i \in 1 .. Len(Q) : Q[i].count = Pending[i + d].count
      /\ r.key = Pending[n].key
  BY <1>1, <1>2
<1> HIDE DEF Q
<1>5. Held(Q, down, Processed(kb, r), tap2)
  BY <1>3a, <1>4, InWorkTypes, PressTaken DEF InWork
<1> QED BY <1>1, <1>3, <1>5 DEF HeldNext, Q

LEMMA SameKept ==
  ASSUME InWork, NEW tap2,
         \/ /\ tap2.key = tapping.key /\ tap2.ago = tapping.ago /\ tap2.count = tapping.count
            /\ tap2.pressed <=> tapping.pressed
            /\ IsEvent(Rec) => ~(Rec.key = tapping.key /\ ~Rec.pressed)
         \/ ~tapping.pressed /\ ~tap2.pressed,
         \/ Kept(kb, tap2, Rec)
         \/ ~IsEvent(Rec) /\ Done(kb, tap2, waiting)
  PROVE  HeldNext
<1>1. kb' = kb /\ tapping' = tap2 /\ waiting' = Pending
  <2>1. CASE Kept(kb, tap2, Rec)
    BY <2>1, KeptQueueSame
  <2>2. CASE ~IsEvent(Rec) /\ Done(kb, tap2, waiting)
    <3>1. phase # "drain"
      <4>1. phase = "drain" => IsEvent(waiting[1])
        <5>1. ASSUME phase = "drain" PROVE IsEvent(waiting[1])
          <6>1. Pending = waiting /\ waiting # <<>> /\ waiting \in Seq(Record)
            BY <5>1, PendingType DEF Pending, InWork, WaitInv, TappingTypeOK
          <6>2. 1 \in 1 .. Len(Pending)
            BY <6>1
          <6> QED BY <6>1, <6>2 DEF InWork, Held, Queue, Ages
        <5> QED BY <5>1
      <4> QED BY <2>2, <4>1 DEF Rec
    <3>2. Rec = event /\ Pending = waiting
      BY <2>2, <3>1 DEF Rec, Pending
    <3> QED BY <2>2, <3>1, <3>2 DEF Done
  <2> QED BY <2>1, <2>2
<1>2. Held(Pending, down, kb, tap2)
  BY InWorkTypes, TapKept DEF InWork
<1>3. Scanned(Pending, tap2)
  <2>1. ASSUME IsOpen(tap2), NEW i \in 1 .. Len(Pending), Pending[i].key = tap2.key,
          ~Pending[i].pressed
        PROVE  ~InTerm(Pending[i], tap2)
    <3>1. /\ tap2.key = tapping.key /\ tap2.ago = tapping.ago /\ IsOpen(tapping)
          /\ IsEvent(Rec) => ~(Rec.key = tapping.key /\ ~Rec.pressed)
      BY <2>1 DEF IsOpen
    <3>2. Pending = waiting \/ (event = Rec /\ IsEvent(event) /\ Pending = Append(waiting, event))
      BY DEF Pending, Rec, InWork, WaitInv
    <3>3. CASE i \in 1 .. Len(waiting) /\ Pending[i] = waiting[i]
      BY <2>1, <3>1, <3>3 DEF InWork, Scanned, InTerm
    <3>4. CASE Pending[i] = Rec /\ IsEvent(Rec)
      BY <2>1, <3>1, <3>4
    <3>5. waiting \in Seq(Record) /\ event \in Record
      BY PendingType DEF InWork, WaitInv
    <3>6. (i \in 1 .. Len(waiting) /\ Pending[i] = waiting[i]) \/ (Pending[i] = Rec /\ IsEvent(Rec))
      BY <3>2, <3>5
    <3> QED BY <3>3, <3>4, <3>6
  <2> QED BY <2>1 DEF Scanned
<1> QED BY <1>1, <1>2, <1>3 DEF HeldNext

LEMMA HoldKept ==
  ASSUME InWork, IsOpen(tapping), NEW r \in Record, r.key = tapping.key, r.pressed, r.count = 0,
         Kept(Processed(kb, r), NoRecord, Rec)
  PROVE  HeldNext
<1>0. IsEvent(r) /\ kb \in Keyboard
  BY InWorkTypes DEF IsOpen, IsEvent
<1>1. kb' = Processed(kb, r) /\ tapping' = NoRecord /\ waiting' = Pending
        /\ Replaced(Processed(kb, r)) = {}
  BY KeptQueueSame
<1>2. SameLayer(kb, PressProcessed(kb, r))
  BY <1>0, <1>1, ProcessedType, SameLayerOfPress, PressProcessedLayer
<1>3. Held(Pending, down, Processed(kb, r), NoRecord)
  BY <1>2, InWorkTypes, HoldActed DEF InWork
<1>4. Scanned(Pending, NoRecord)
  BY DEF Scanned, IsOpen, NoRecord
<1> QED BY <1>1, <1>3, <1>4 DEF HeldNext

LEMMA TermOfOlder ==
  ASSUME NEW r \in Record, NEW s \in Record, NEW tap \in Record,
         r.ago <= s.ago, s.ago <= tap.ago, InTerm(r, tap)
  PROVE  InTerm(s, tap)
<1>1. Wrap \in Nat /\ Term \in Nat /\ r.ago \in 0 .. Wrap - 1 /\ s.ago \in 0 .. Wrap - 1
        /\ tap.ago \in 0 .. Wrap - 1
  BY TermAssumption DEF Record
<1>2. ASSUME NEW x \in 0 .. Wrap - 1, NEW t \in 0 .. Wrap - 1, x <= t
      PROVE  (t + Wrap - x) % Wrap = t - x
  BY <1>1, <1>2
<1>3. r.ago <= tap.ago
  BY <1>1
<1>4. (tap.ago + Wrap - r.ago) % Wrap = tap.ago - r.ago
  BY <1>1, <1>2, <1>3
<1>5. (tap.ago + Wrap - s.ago) % Wrap = tap.ago - s.ago
  BY <1>1, <1>2
<1> QED BY <1>1, <1>4, <1>5 DEF InTerm

LEMMA FirstTapHeld ==
  ASSUME InWork, FirstTap
  PROVE  HeldNext
<1> DEFINE tap1 == [tapping EXCEPT !.count = 1]
           done == AsProcessed(kb, tap1)
           r == WithTap(Rec, done)
<1>1. /\ IsOpen(tapping) /\ InTerm(Rec, tapping) /\ Rec.key = tapping.key /\ ~Rec.pressed
      /\ Kept(Processed(kb, tap1), done, r)
  BY DEF FirstTap, Undecided, Within, OfTapping, IsOpen
<1>2. /\ kb \in Keyboard /\ tapping \in Record /\ Rec \in Record /\ Pending \in Seq(Record)
      /\ waiting \in Seq(Record) /\ IsEvent(Rec)
  BY <1>1, InWorkTypes DEF IsOpen, IsEvent
<1>3. tap1 \in Record /\ tap1.key = tapping.key /\ tap1.pressed /\ tap1.count = 1 /\ IsEvent(tap1)
  <2>1. tap1 \in Record
    BY <1>2, CountedType
  <2>2. tap1.key = tapping.key /\ (tap1.pressed <=> tapping.pressed) /\ tap1.count = 1
    BY <1>2 DEF Record
  <2> QED BY <1>1, <1>2, <2>1, <2>2 DEF IsOpen, IsEvent
<1> HIDE DEF tap1
<1>4. done \in Record /\ done.count = 1
  BY <1>3, AsProcessedType DEF AsProcessed, Record
<1> HIDE DEF done
<1>5. r \in Record /\ r.key = Rec.key /\ (r.pressed <=> Rec.pressed) /\ r.ago = Rec.ago
        /\ r.count > 0
  <2>1. r \in Record
    BY <1>2, <1>4, WithTapType
  <2>2. r.key = Rec.key /\ (r.pressed <=> Rec.pressed) /\ r.ago = Rec.ago /\ r.count = done.count
    BY <1>2 DEF WithTap, Record
  <2> QED BY <1>4, <2>1, <2>2
<1> HIDE DEF r
<1>6. /\ kb' = Processed(kb, tap1) /\ tapping' = done /\ Replaced(Processed(kb, tap1)) = {}
      /\ waiting' \in Seq(Record)
      /\ \E n \in 1 .. Len(Pending) :
              /\ Pending[n] = Rec /\ Marked(Pending, n, waiting')
              /\ \A h \in 1 .. n - 1 : h \in 1 .. Len(waiting) /\ waiting[h] = Pending[h]
  BY <1>1, <1>2, <1>5, KeptQueueMarked
<1>7. PICK n \in 1 .. Len(Pending) :
              /\ Pending[n] = Rec /\ Marked(Pending, n, waiting')
              /\ \A h \in 1 .. n - 1 : h \in 1 .. Len(waiting) /\ waiting[h] = Pending[h]
  BY <1>6
<1>8. SameLayer(kb, PressProcessed(kb, tap1))
  BY <1>2, <1>3, <1>6, ProcessedType, SameLayerOfPress, PressProcessedLayer
<1>9. Queue(Pending, down, kb.acting, tapping) /\ Scanned(waiting, tapping)
  BY DEF InWork, Held
<1>10. ASSUME NEW g \in 1 .. n - 1, Pending[g].key = tapping.key, ~Pending[g].pressed PROVE FALSE
  <2>1. g \in 1 .. Len(Pending) /\ g < n /\ Pending[g] \in Record /\ waiting[g] = Pending[g]
          /\ g \in 1 .. Len(waiting)
    BY <1>2, <1>7
  <2>2. Pending[n].ago <= Pending[g].ago /\ Pending[g].ago <= tapping.ago
    BY <1>1, <1>9, <1>10, <2>1 DEF Queue, Ages
  <2>3. InTerm(Pending[g], tapping)
    BY <1>1, <1>2, <1>7, <2>1, <2>2, TermOfOlder
  <2>4. ~InTerm(Pending[g], tapping)
    BY <1>1, <1>9, <1>10, <2>1 DEF Scanned
  <2> QED BY <2>3, <2>4
<1>11. IsFirst(Pending, n)
  <2>1. ASSUME NEW h \in 1 .. n - 1, Pending[h].key = tapping.key PROVE FALSE
    <3>1. Pending[h].pressed /\ h \in 1 .. Len(Pending)
      BY <1>2, <1>10, <2>1
    <3>2. Opened(Pending, down, tapping.key)
      BY <1>1, <1>9 DEF Queue, Expects
    <3>3. PICK g \in 1 .. h - 1 : Pending[g].key = tapping.key /\ ~Pending[g].pressed
      BY <2>1, <3>1, <3>2 DEF Opened
    <3>4. g \in 1 .. n - 1
      BY <1>2, <3>3
    <3> QED BY <1>10, <3>3, <3>4
  <2> QED BY <1>1, <1>7, <2>1 DEF IsFirst
<1>12. ~IsTapped(tapping) /\ tapping.key \notin kb.acting
  BY <1>1, <1>9 DEF IsTapped, IsOpen, Queue, Expects
<1> DEFINE Q == waiting'
<1>13. /\ Q \in Seq(Record) /\ Marked(Pending, n, Q) /\ ~Pending[n].pressed
       /\ Pending[n].key \notin kb.acting /\ tap1.key = Pending[n].key
  BY <1>1, <1>3, <1>6, <1>7, <1>12
<1> HIDE DEF Q
<1>14. Held(Q, down, Processed(kb, tap1), AsProcessed(kb, tap1))
  BY <1>2, <1>3, <1>8, <1>11, <1>12, <1>13, TapActed DEF InWork
<1>15. Scanned(Q, done)
  BY <1>4 DEF Scanned, IsOpen
<1> QED BY <1>6, <1>14, <1>15 DEF HeldNext, Q, done

\* A press is remembered as the tap key. It has no release in the buffer that would have
\* made it a tap.
LEMMA StartOpenHeld ==
  ASSUME InWork, Rec.pressed, NEW k \in Keyboard, NEW tap0 \in Record, ~tap0.pressed,
         Held(Pending, down, k, tap0), Done(k, Rec, waiting)
  PROVE  HeldNext
<1>1. Rec \in Record /\ IsEvent(Rec) /\ Pending \in Seq(Record) /\ waiting \in Seq(Record)
  BY InWorkTypes
<1>2. /\ kb' = k /\ tapping' = Rec /\ Unscanned(Rec) = {}
      /\ \E n \in 1 .. Len(Pending), d \in {0, 1} :
           /\ Pending[n] = Rec /\ Without(Pending, n, d, waiting')
           /\ \A i \in 1 .. Len(waiting') : waiting'[i].count = Pending[i + d].count
      /\ \A i \in 1 .. Len(waiting') : \E j \in 1 .. Len(waiting) : waiting'[i] = waiting[j]
      /\ waiting' \in Seq(Record)
  BY <1>1, DoneQueue
<1>3. PICK n \in 1 .. Len(Pending), d \in {0, 1} :
           /\ Pending[n] = Rec /\ Without(Pending, n, d, waiting')
           /\ \A i \in 1 .. Len(waiting') : waiting'[i].count = Pending[i + d].count
  BY <1>2
<1> DEFINE Q == waiting'
           tap2 == Rec
<1>4. /\ Q \in Seq(Record) /\ Without(Pending, n, d, Q) /\ Pending[n].pressed /\ tap2 = Pending[n]
      /\ \A i \in 1 .. Len(Q) : Q[i].count = Pending[i + d].count
  BY <1>2, <1>3
<1> HIDE DEF Q, tap2
<1>5. Held(Q, down, k, tap2) /\ Pending[n].count = 0
  BY <1>1, <1>4, StartTaken, ZenonT(60)
<1>6. TapReleases(Rec) = {}
  BY <1>2, <1>3, <1>5 DEF Unscanned
<1>7. Scanned(waiting', Rec)
  BY <1>2, <1>6 DEF Scanned, TapReleases
<1> QED BY <1>2, <1>5, <1>7 DEF HeldNext, Q, tap2

LEMMA ReleasedBetween ==
  ASSUME NEW W, Alternates(W), Len(W) \in Nat, NEW y \in 2 .. Len(W),
         W[y].key = W[1].key, W[1].pressed, W[y].pressed
  PROVE  \E g \in 2 .. y - 1 : W[g].key = W[1].key /\ ~W[g].pressed
<1>1. 1 \in 1 .. Len(W) /\ y \in 1 .. Len(W) /\ 1 < y
  OBVIOUS
<1>2. \E g \in 1 + 1 .. y - 1 : W[g].key = W[1].key /\ (W[g].pressed <=> ~W[1].pressed)
  BY <1>1 DEF Alternates
<1> QED BY <1>2

\* A press whose release waits is acted upon as a tap at once.
LEMMA StartTappedHeld ==
  ASSUME InWork, Rec.pressed, NEW k \in Keyboard, NEW tap0 \in Record, ~tap0.pressed,
         Held(Pending, down, k, tap0), k.osl # {} => kb.osl # {} /\ k.osl_layer = kb.osl_layer,
         NEW i \in TapReleases(Rec), \A j \in TapReleases(Rec) : i <= j,
         NEW tap1, tap1 = [Rec EXCEPT !.count = 1],
         Done(Processed(k, tap1), AsProcessed(k, tap1), [waiting EXCEPT ![i].count = 1])
  PROVE  HeldNext
<1>1. Rec \in Record /\ IsEvent(Rec) /\ Pending \in Seq(Record) /\ waiting \in Seq(Record) /\ TappingTypeOK
  BY InWorkTypes DEF InWork, WaitInv
<1>2. tap1 \in Record /\ tap1.key = Rec.key /\ tap1.pressed /\ tap1.count = 1 /\ IsEvent(tap1)
  <2>1. tap1 \in Record
    BY <1>1, CountedType
  <2>2. tap1.key = Rec.key /\ (tap1.pressed <=> Rec.pressed) /\ tap1.count = 1
    BY <1>1 DEF Record
  <2> QED BY <1>1, <2>1, <2>2 DEF IsEvent
<1>3. /\ i \in 1 .. Len(waiting) /\ waiting[i].key = Rec.key /\ ~waiting[i].pressed
      /\ InTerm(waiting[i], Rec) /\ waiting[i] \in Record
  BY <1>1 DEF TapReleases
<1>4. phase = "drain"
  <2>1. waiting[i].pressed # Rec.pressed
    BY <1>3
  <2>2. Typed
    BY <1>3, <2>1 DEF Typed
  <2>3. phase \in {"drain", "event"}
    BY DEF InWork, Frame, WaitInv, TappingTypeOK
  <2> QED BY <2>2, <2>3 DEF Done, InWork
<1>5. /\ kb' = Processed(k, tap1) /\ tapping' = AsProcessed(k, tap1)
      /\ Replaced(Processed(k, tap1)) = {} /\ waiting' = Tail([waiting EXCEPT ![i].count = 1])
  BY <1>4 DEF Done, InWork
<1>6. Pending = waiting /\ Rec = waiting[1] /\ 1 \in 1 .. Len(waiting) /\ i \in 2 .. Len(waiting)
  <2>1. Pending = waiting /\ Rec = waiting[1] /\ waiting # <<>>
    BY <1>1, <1>4 DEF Pending, Rec, InWork, WaitInv, TappingTypeOK
  <2>2. i # 1
    BY <1>3, <2>1
  <2> QED BY <1>1, <1>3, <2>1, <2>2
<1> DEFINE P == Tail(waiting)
           Q == waiting'
           m == i - 1
<1>7. /\ P \in Seq(Record) /\ Len(P) = Len(waiting) - 1
      /\ \A h \in 1 .. Len(P) : P[h] = waiting[h + 1] /\ h + 1 \in 1 .. Len(waiting)
  BY <1>1, <1>6
<1>8. /\ Q \in Seq(Record) /\ Len(Q) = Len(P) /\ m \in 1 .. Len(P) /\ Q[m].count = 1
      /\ \A h \in 1 .. Len(P) : h # m => Q[h] = P[h]
      /\ Q[m].key = P[m].key /\ (Q[m].pressed <=> P[m].pressed) /\ Q[m].ago = P[m].ago
  <2> DEFINE w == [waiting[i] EXCEPT !.count = 1]
             V == [waiting EXCEPT ![i] = w]
  <2>1. /\ w \in Record /\ w.key = waiting[i].key /\ (w.pressed <=> waiting[i].pressed)
        /\ w.ago = waiting[i].ago /\ w.count = 1
    <3>1. w \in Record
      BY <1>3, CountedType
    <3> QED BY <1>3, <3>1 DEF Record
  <2> HIDE DEF w
  <2>2. V = [waiting EXCEPT ![i].count = 1]
    BY DEF w
  <2>3. /\ V \in Seq(Record) /\ Len(V) = Len(waiting) /\ V[i] = w
        /\ \A h \in 1 .. Len(waiting) : h # i => V[h] = waiting[h]
    BY <1>1, <1>3, <2>1
  <2> HIDE DEF V
  <2>4. V # <<>> /\ Q = Tail(V)
    BY <1>5, <1>6, <2>2, <2>3
  <2> HIDE DEF Q
  <2>5. /\ Q \in Seq(Record) /\ Len(Q) = Len(V) - 1 /\ \A h \in 1 .. Len(Q) : Q[h] = V[h + 1]
    BY <2>3, <2>4
  <2>6. Len(Q) = Len(P) /\ m \in 1 .. Len(P) /\ m + 1 = i
    BY <1>6, <1>7, <2>3, <2>5
  <2>7. Q[m] = w /\ P[m] = waiting[i]
    BY <1>7, <2>3, <2>5, <2>6
  <2>8. \A h \in 1 .. Len(P) : h # m => Q[h] = P[h]
    BY <1>6, <1>7, <2>3, <2>5, <2>6
  <2> QED BY <2>1, <2>5, <2>6, <2>7, <2>8
<1>9. P[m] = waiting[i]
  BY <1>6, <1>7, <1>8
<1>10. Without(Pending, 1, 1, P) /\ 1 \in 1 .. Len(Pending) /\ Pending[1] = Rec
  BY <1>6, <1>7 DEF Without, IsFirst
<1> HIDE DEF P, Q, m
<1>11. Held(P, down, k, NoRecord) /\ Rec.key \notin k.acting
  <2>1. \A h \in 1 .. Len(P) : P[h].count = Pending[h + 1].count
    BY <1>6, <1>7
  <2>2. ~NoRecord.pressed
    BY DEF NoRecord
  <2>3. 1 \in {0, 1} /\ Pending[1].pressed
    BY <1>10
  <2> QED BY <1>1, <1>7, <1>10, <2>1, <2>2, <2>3, StartTaken, ZenonT(60)
<1>12. Queue(Pending, down, kb.acting, tapping)
  BY DEF InWork, Held
<1>13. ASSUME NEW g \in 2 .. Len(waiting), g < i, waiting[g].key = Rec.key,
        ~waiting[g].pressed PROVE FALSE
  <2>1. g \in 1 .. Len(waiting) /\ waiting[g] \in Record
    BY <1>1, <1>13
  <2>2. waiting[i].ago <= waiting[g].ago /\ waiting[g].ago <= Rec.ago
    <3>1. \A x, y \in 1 .. Len(waiting) : x < y => waiting[y].ago <= waiting[x].ago
      BY <1>6, <1>12 DEF Queue, Ages
    <3> QED BY <1>3, <1>6, <1>13, <2>1, <3>1
  <2>3. InTerm(waiting[g], Rec)
    BY <1>1, <1>3, <2>1, <2>2, TermOfOlder
  <2>4. g \in TapReleases(Rec)
    BY <1>13, <2>1, <2>3 DEF TapReleases
  <2>5. i <= g
    BY <2>4
  <2> QED BY <1>3, <1>13, <2>1, <2>5
<1>14. IsFirst(P, m)
  <2>1. ASSUME NEW h \in 1 .. m - 1, P[h].key = Rec.key PROVE FALSE
    <3>1. P[h] = waiting[h + 1] /\ h + 1 \in 2 .. Len(waiting) /\ h + 1 < i
      <4>1. h \in 1 .. Len(P) /\ h + 1 < i /\ h >= 1
        BY <1>6, <1>7, <1>8, <2>1 DEF m
      <4>2. P[h] = waiting[h + 1] /\ h + 1 \in 1 .. Len(waiting)
        BY <1>7, <4>1
      <4> QED BY <4>1, <4>2
    <3>2. waiting[h + 1].pressed
      BY <1>13, <2>1, <3>1
    <3>3. PICK g \in 2 .. h : waiting[g].key = Rec.key /\ ~waiting[g].pressed
      <4>1. /\ waiting[h + 1].key = waiting[1].key /\ waiting[1].pressed /\ waiting[h + 1].pressed
            /\ Alternates(waiting)
        BY <1>6, <1>12, <2>1, <3>1, <3>2 DEF Queue
      <4>2. h + 1 \in 2 .. Len(waiting) /\ Len(waiting) \in Nat /\ (h + 1) - 1 = h
        BY <1>1, <2>1, <3>1
      <4>3. \E g \in 2 .. (h + 1) - 1 : waiting[g].key = waiting[1].key /\ ~waiting[g].pressed
        BY <4>1, <4>2, ReleasedBetween
      <4> QED BY <1>6, <4>2, <4>3
    <3>4. g \in 2 .. Len(waiting) /\ g < i
      BY <1>3, <3>1, <3>3
    <3> QED BY <1>13, <3>3, <3>4
  <2> QED BY <1>3, <1>9, <2>1 DEF IsFirst
<1>15. Marked(P, m, Q)
  BY <1>8 DEF Marked
<1>16. SameLayer(k, PressProcessed(k, tap1))
  <2>1. SameLayer(kb, Processed(k, tap1))
    BY <1>2, <1>5, ProcessedType, SameLayerOfPress
  <2>2. SameLayer(kb, PressProcessed(k, tap1))
    BY <1>2, <2>1, PressProcessedLayer
  <2> QED BY <2>2 DEF SameLayer
<1>17. Held(Q, down, Processed(k, tap1), AsProcessed(k, tap1))
  <2>1. ~IsTapped(NoRecord)
    BY DEF IsTapped, NoRecord
  <2>2. ~P[m].pressed /\ P[m].key \notin k.acting /\ tap1.key = P[m].key
    BY <1>2, <1>3, <1>9, <1>11
  <2> QED BY <1>2, <1>7, <1>8, <1>11, <1>14, <1>15, <1>16, <2>1, <2>2, TapActed
<1>18. Scanned(Q, AsProcessed(k, tap1))
  BY <1>2 DEF Scanned, IsOpen, AsProcessed, Record
<1> QED BY <1>5, <1>17, <1>18 DEF HeldNext, Q

LEMMA StartHeld ==
  ASSUME InWork, Rec.pressed, NEW k \in Keyboard, NEW tap0 \in Record, ~tap0.pressed,
         Held(Pending, down, k, tap0), k.osl # {} => kb.osl # {} /\ k.osl_layer = kb.osl_layer,
         Start(k, Rec)
  PROVE  HeldNext
<1>1. CASE Done(k, Rec, waiting)
  BY <1>1, StartOpenHeld
<1>2. CASE \E i \in TapReleases(Rec) :
             LET tap1 == [Rec EXCEPT !.count = 1]
             IN  /\ \A j \in TapReleases(Rec) : i <= j
                 /\ Done(Processed(k, tap1), AsProcessed(k, tap1), [waiting EXCEPT ![i].count = 1])
  <2> DEFINE tap1 == [Rec EXCEPT !.count = 1]
  <2>1. PICK i \in TapReleases(Rec) :
             /\ \A j \in TapReleases(Rec) : i <= j
             /\ Done(Processed(k, tap1), AsProcessed(k, tap1), [waiting EXCEPT ![i].count = 1])
    BY <1>2
  <2>2. tap1 = [Rec EXCEPT !.count = 1]
    OBVIOUS
  <2> HIDE DEF tap1
  <2> QED BY <2>1, <2>2, StartTappedHeld
<1> QED BY <1>1, <1>2 DEF Start

\* Every branch keeps what is on backed by a key that is going to be released.
LEMMA BranchHeld ==
  ASSUME InWork, Branch
  PROVE  HeldNext
<1>0. /\ kb \in Keyboard /\ tapping \in Record /\ Rec \in Record
      /\ (Rec.pressed => IsEvent(Rec)) /\ (tapping.pressed => IsEvent(tapping))
      /\ tapping.count \in Nat /\ Rec.count \in Nat
  BY InWorkTypes, CountAssumption DEF Record
<1>0a. Held(Pending, down, kb, tapping)
  BY DEF InWork
<1>0b. Rec.pressed => Rec.count = 0
  <2>1. ASSUME Rec.pressed PROVE Rec.count = 0
    <3>1. \E n \in 1 .. Len(Pending) : Pending[n] = Rec
      BY <1>0, <2>1, RecPlace
    <3> QED BY <1>0, <1>0a, <2>1, <3>1 DEF Held, Queue, Marks
  <2> QED BY <2>1
<1>1. CASE IgnoreTick
  BY <1>1, SameKept DEF IgnoreTick
<1>2. ASSUME IsEvent(Rec), ~Rec.pressed, tapping.pressed => tapping.key # Rec.key,
             Done(Processed(kb, Rec), tapping, waiting)
      PROVE  HeldNext
  <2>1. Rec.count > 0 <=> TappedIs(tapping, Rec.key) \/ Rec.count > 0
    BY <1>2 DEF TappedIs, IsTapped
  <2> QED BY <1>0, <1>2, <2>1, ReleaseDone
<1>3. ASSUME Rec.pressed, NEW tap2, ~IsOpen(tapping), Done(Processed(kb, Rec), tap2, waiting),
             tap2 = tapping \/ (~tapping.pressed /\ ~tap2.pressed)
      PROVE  HeldNext
  <2>1. ~IsOpen(tap2)
    BY <1>3 DEF IsOpen
  <2> QED BY <1>0, <1>0b, <1>3, <2>1, PressDone
<1>4. CASE Regular
  <2>1. ~tapping.pressed /\ IsEvent(Rec) /\ Done(Processed(kb, Rec), tapping, waiting)
    BY <1>0, <1>4 DEF Regular, Fresh
  <2>2. ~IsOpen(tapping)
    BY <2>1 DEF IsOpen
  <2> QED BY <1>2, <1>3, <2>1, <2>2
<1>5. CASE EarlierUp
  BY <1>2, <1>5 DEF EarlierUp, OtherUp, OfTapping
<1>6. CASE WhileTapped
  <2>1. /\ IsTapped(tapping) /\ IsEvent(Rec) /\ ~(Rec.key = tapping.key /\ ~Rec.pressed)
        /\ Done(Processed(kb, Rec), tapping, waiting)
    BY <1>6 DEF WhileTapped, Tapped, IsTapped, OfTapping
  <2>2. ~IsOpen(tapping)
    BY <1>0, <2>1 DEF IsTapped, IsOpen
  <2> QED BY <1>2, <1>3, <2>1, <2>2
<1>7. CASE AfterTapUp
  BY <1>2, <1>7 DEF AfterTapUp, Released
<1>8. CASE OtherDown
  <2>1. /\ Rec.pressed /\ ~tapping.pressed /\ Done(Processed(kb, Rec), Interrupted, waiting)
    BY <1>8 DEF OtherDown, Released
  <2>2. ~Interrupted.pressed /\ ~IsOpen(tapping)
    BY <1>0, <2>1 DEF Interrupted, Record, IsOpen
  <2> QED BY <1>3, <2>1, <2>2
<1>9. CASE TapReleased
  <2> DEFINE r == WithTap(Rec, tapping)
             tap2 == IF Within THEN r ELSE NoRecord
  <2>1. /\ IsTapped(tapping) /\ Rec.key = tapping.key /\ ~Rec.pressed /\ IsEvent(Rec)
        /\ Done(Processed(kb, r), tap2, waiting)
    BY <1>0, <1>9 DEF TapReleased, Tapped, IsTapped, OfTapping, IsEvent
  <2>2. r \in Record /\ r.key = Rec.key /\ ~r.pressed /\ r.count > 0
    <3>1. r \in Record
      BY <1>0, WithTapType
    <3>2. r.key = Rec.key /\ (r.pressed <=> Rec.pressed) /\ r.count = tapping.count
      BY <1>0 DEF WithTap, Record
    <3> QED BY <2>1, <3>1, <3>2 DEF IsTapped
  <2>3. ~tap2.pressed
    BY <2>2 DEF NoRecord
  <2> HIDE DEF r, tap2
  <2>4. r.count > 0 <=> TappedIs(tapping, Rec.key) \/ Rec.count > 0
    BY <2>1, <2>2 DEF TappedIs
  <2> QED BY <1>0, <2>1, <2>2, <2>3, <2>4, ReleaseDone
<1>10. CASE RepeatTap
  <2> DEFINE t == WithTap(Rec, tapping)
             r == [t EXCEPT !.count = IF @ < MaxCount THEN @ + 1 ELSE @]
             tap2 == AsProcessed(kb, r)
  <2>1. /\ ~tapping.pressed /\ Rec.pressed /\ tapping.count > 0
        /\ Done(Processed(kb, r), tap2, waiting)
    BY <1>10 DEF RepeatTap, Released, Repeats
  <2>2. t \in Record /\ t.key = Rec.key /\ (t.pressed <=> Rec.pressed) /\ t.count = tapping.count
    <3>1. t \in Record
      BY <1>0, WithTapType
    <3> QED BY <1>0, <3>1 DEF WithTap, Record
  <2> HIDE DEF t
  <2>3. r \in Record /\ r.key = Rec.key /\ r.pressed /\ r.count > 1
    <3>1. r \in Record
      BY <2>2, CountedType
    <3>2. r.key = t.key /\ (r.pressed <=> t.pressed)
          /\ r.count = IF t.count < MaxCount THEN t.count + 1 ELSE t.count
      BY <2>2 DEF Record
    <3>3. r.count > 1
      BY <1>0, <2>1, <2>2, <3>2, CountAssumption
    <3> QED BY <2>1, <2>2, <3>1, <3>2, <3>3
  <2> HIDE DEF r
  <2>4. tap2.key = r.key /\ tap2.count = r.count /\ (tap2.pressed <=> ~ReleasedAtOnce(kb, r))
    BY <2>3 DEF AsProcessed, Record
  <2>5. ~IsOpen(tap2)
    BY <2>3, <2>4 DEF IsOpen
  <2> HIDE DEF tap2
  <2> QED BY <2>1, <2>3, <2>4, <2>5, PressDone
<1>11. ASSUME Rec.pressed, ~tapping.pressed, Start(kb, Rec) PROVE HeldNext
  BY <1>0, <1>0a, <1>11, StartHeld
<1>12. CASE StartTap \/ OtherTap
  BY <1>0, <1>11, <1>12 DEF StartTap, OtherTap, TapPress, Fresh, Released
<1>13. CASE TapAgain
  BY <1>0, <1>0a, <1>13, StartOpenHeld DEF TapAgain, Released
<1>14. CASE NextTap
  <2> DEFINE ended == [tapping EXCEPT !.pressed = FALSE]
             k == IF tapping.count > 1 THEN Processed(kb, ended) ELSE kb
  <2>1. IsTapped(tapping) /\ Rec.pressed /\ Start(k, Rec)
    BY <1>14 DEF NextTap, Tapped, TapPress, IsTapped
  <2>2. /\ ended \in Record /\ ended.key = tapping.key /\ ~ended.pressed
        /\ ended.count = tapping.count
    BY <1>0, CountedType DEF Record
  <2>2a. /\ tapping.count > 1 => k = Processed(kb, ended)
         /\ ~(tapping.count > 1) => k = kb
    OBVIOUS
  <2> HIDE DEF k, ended
  <2>3. /\ Held(Pending, down, k, NoRecord) /\ k \in Keyboard
        /\ k.osl # {} => kb.osl # {} /\ k.osl_layer = kb.osl_layer
    <3>1. Pending \in Seq(Record)
      BY InWorkTypes
    <3> QED BY <1>0, <1>0a, <2>1, <2>2, <2>2a, <3>1, TapEnds
  <2>4. NoRecord \in Record /\ ~NoRecord.pressed
    BY NoRecordType DEF NoRecord
  <2> QED BY <2>1, <2>3, <2>4, StartHeld
<1>15. CASE FirstTap
  BY <1>15, FirstTapHeld
<1>16. CASE UpWaits \/ DownWaits
  <2>1. /\ Interrupted.key = tapping.key /\ Interrupted.ago = tapping.ago
        /\ Interrupted.count = tapping.count /\ (Interrupted.pressed <=> tapping.pressed)
    BY <1>0 DEF Interrupted, Record
  <2> QED BY <1>16, <2>1, SameKept DEF UpWaits, DownWaits, OtherUp, OfTapping
<1>17. CASE TapOver
  <2>1. ~NoRecord.pressed
    BY DEF NoRecord
  <2> QED BY <1>17, <2>1, SameKept DEF TapOver, Released
<1>18. CASE HoldByOther
  <2>1. IsOpen(tapping) /\ Kept(Processed(kb, Interrupted), NoRecord, Rec)
    BY <1>18 DEF HoldByOther, Undecided, IsOpen
  <2>2. Interrupted \in Record
    BY <1>0, CountedType DEF Interrupted
  <2>3. Interrupted.key = tapping.key /\ Interrupted.pressed /\ Interrupted.count = 0
    BY <1>0, <2>1 DEF Interrupted, Record, IsOpen
  <2> QED BY <2>1, <2>2, <2>3, HoldKept
<1>19. CASE HoldByTime
  <2>1. IsOpen(tapping) /\ Kept(Processed(kb, tapping), NoRecord, Rec)
    BY <1>19 DEF HoldByTime, Undecided, IsOpen
  <2> QED BY <1>0, <2>1, HoldKept DEF IsOpen
<1> QED BY <1>1, <1>4, <1>5, <1>6, <1>7, <1>8, <1>9, <1>10, <1>12, <1>13, <1>14, <1>15, <1>16,
           <1>17, <1>18, <1>19 DEF Branch

-----------------------------------------------------------------------------
(* The steps of the keyboard.                                              *)

LEMMA InitHeld == ASSUME Init, TappingTypeOK PROVE HeldInv
<1>1. /\ waiting = <<>> /\ Pending = <<>> /\ Len(waiting) = 0 /\ Len(Pending) = 0
      /\ ~IsOpen(tapping) /\ ~IsTapped(tapping)
  BY NoRecordType DEF Init, Pending, IsOpen, IsTapped, NoRecord
<1>2. Queue(Pending, down, kb.acting, tapping)
  <2>1. kb.acting = {}
    BY DEF Init
  <2> QED BY <1>1, <2>1 DEF Queue, Alternates, UpToDate, Expects, Marks, Ages
<1>3. Backed(kb, Taps(Pending, tapping))
  <2>1. kb.keys = {} /\ kb.real = {} /\ kb.weak = {} /\ kb.layers = {}
    BY DEF Init
  <2> QED BY <2>1 DEF Backed, Own
<1> QED BY <1>1, <1>2, <1>3 DEF HeldInv, Held, Scanned, InStep

\* What has been excused stays excused.
LEMMA ExcusedStays == ASSUME WaitInv, [Next]_vars PROVE excused \subseteq excused'
<1>1. CASE ProcessTapping
  BY <1>1 DEF ProcessTapping, Branch, Done, Kept, IgnoreTick, StartTap, Start, Regular, FirstTap,
       EarlierUp, UpWaits, DownWaits, HoldByOther, HoldByTime, TapReleased, NextTap, WhileTapped,
       RepeatTap, TapAgain, OtherTap, OtherDown, AfterTapUp, TapOver
<1>2. CASE \E k \in Key : Press(k) \/ Release(k)
  BY <1>2 DEF Press, Release
<1>3. CASE Tick \/ Pass \/ \E on \in HoldSettings : SetHoldOkp(on)
  BY <1>3 DEF Tick, Pass, SetHoldOkp
<1>4. CASE UNCHANGED vars
  BY <1>4 DEF vars
<1> QED BY <1>1, <1>2, <1>3, <1>4 DEF Next

LEMMA ProcessHeld ==
  ASSUME WaitInv, ProcessTapping, excused = {}, excused' = {},
         Held(Pending, down, kb, tapping), Scanned(waiting, tapping)
  PROVE  Held(Pending', down', kb', tapping') /\ Scanned(waiting', tapping') /\ InStep'
<1>1. Frame /\ TappingTypeOK /\ Branch /\ (phase = "event" \/ phase = "drain")
  BY ProcessFrame
<1>2. HeldNext
  BY <1>1, BranchHeld DEF InWork
<1>3. Pending' = waiting' /\ down' = down
  BY <1>1, NoRecordType DEF Frame, Pending
<1>4. settled' = (settled /\ <<kb, tapping, waiting>>' = <<kb, tapping, waiting>>)
  BY DEF ProcessTapping
<1>5. ASSUME settled', phase' = "idle", waiting' # <<>> PROVE InTerm(waiting'[1], tapping')
  <2>1. CASE phase = "drain"
    <3>1. Within /\ UNCHANGED <<tapping, waiting>>
      BY <1>1, <1>4, <1>5, <2>1, DrainKept
    <3> QED BY <2>1, <3>1 DEF Within, Rec
  <2>2. CASE phase = "event"
    <3>1. ~IsEvent(event) /\ event.ago = 0 /\ tapping' = tapping
      BY <1>4, <1>5, <2>2 DEF WaitInv, Settledness
    <3> QED BY <1>1, <1>5, <2>2, <3>1, TickKept
  <2> QED BY <1>1, <2>1, <2>2
<1>6. InStep'
  BY <1>5 DEF InStep
<1> QED BY <1>2, <1>3, <1>6 DEF HeldNext

\* The event of a key joins the queue.
LEMMA AppendHeld ==
  ASSUME NEW P \in Seq(Record), NEW D, NEW b, NEW tap \in Record, Held(P, D, b, tap),
         NEW k \in Key, NEW pressed \in BOOLEAN, k \in D <=> ~pressed, NEW D2,
         D2 = (IF pressed THEN D \cup {k} ELSE D \ {k}), NEW e, e = KeyEvent(k, pressed),
         NEW c, Backed(c, Taps(P, tap)), c.acting = b.acting
  PROVE  Held(Append(P, e), D2, c, tap)
<1>1. e \in Record /\ ~(e.count > 0)
  <2>1. e.count = 0
    BY DEF KeyEvent, NoRecord
  <2> QED BY <2>1, KeyEventType
<1>2. (\A i \in 1 .. Len(P) : P[i].ago \in Nat) /\ tap.ago \in Nat
  <2>1. ASSUME NEW r \in Record PROVE r.ago \in Nat
    BY TermAssumption DEF Record
  <2> QED BY <2>1
<1>3. Queue(Append(P, e), D2, c.acting, tap)
  BY <1>1, <1>2, AppendQueue DEF Held
<1>4. Taps(Append(P, e), tap) = Taps(P, tap)
  <2>1. /\ Len(Append(P, e)) = Len(P) + 1 /\ Len(P) \in Nat
        /\ Append(P, e)[Len(P) + 1] = e
        /\ \A i \in 1 .. Len(P) : Append(P, e)[i] = P[i]
    BY <1>1
  <2>2. ASSUME NEW x \in Key
        PROVE  (\E i \in 1 .. Len(Append(P, e)) :
                  Append(P, e)[i].key = x /\ Append(P, e)[i].count > 0) <=>
               \E i \in 1 .. Len(P) : P[i].key = x /\ P[i].count > 0
    BY <1>1, <2>1
  <2> QED BY <2>2 DEF Taps
<1> QED BY <1>3, <1>4 DEF Held

LEMMA PressHeld ==
  ASSUME WaitInv, NEW k \in Key, Press(k), excused = {}, excused' = {},
         Held(Pending, down, kb, tapping), Scanned(waiting, tapping)
  PROVE  Held(Pending', down', kb', tapping') /\ Scanned(waiting', tapping') /\ InStep'
<1> DEFINE e == KeyEvent(k, TRUE)
           up == Cached(ClearWeakMods(kb), k)
<1>1. kb \in Keyboard /\ tapping \in Record /\ Pending \in Seq(Record)
  BY PendingType DEF WaitInv, TappingTypeOK
<1>2. /\ Pending' = Append(Pending, e) /\ waiting' = waiting /\ tapping' = tapping
      /\ down' = down \cup {k} /\ ~settled' /\ k \notin down
  BY KeyEventType DEF Press, WaitInv, Pending
<1>3. kb' = up /\ (k \in kb.acting => CachedAction(up, k) = CachedAction(kb, k))
  BY DEF Press
<1>4. Backed(kb, Taps(Pending, tapping))
  BY DEF Held
<1>5. Backed(up, Taps(Pending, tapping)) /\ up.acting = kb.acting
  BY <1>1, <1>3, <1>4, BackedCached
<1> HIDE DEF up
<1>6. down' = (IF TRUE THEN down \cup {k} ELSE down \ {k}) /\ (k \in down <=> ~TRUE)
  BY <1>2
<1>7. TRUE \in BOOLEAN /\ e = KeyEvent(k, TRUE)
  OBVIOUS
<1> HIDE DEF e
<1>8. Held(Append(Pending, e), down', up, tapping)
  BY <1>1, <1>5, <1>6, <1>7, AppendHeld
<1> QED BY <1>2, <1>3, <1>8 DEF InStep

LEMMA ReleaseHeld ==
  ASSUME WaitInv, NEW k \in Key, Release(k), excused = {}, excused' = {},
         Held(Pending, down, kb, tapping), Scanned(waiting, tapping)
  PROVE  Held(Pending', down', kb', tapping') /\ Scanned(waiting', tapping') /\ InStep'
<1> DEFINE e == KeyEvent(k, FALSE)
<1>1. tapping \in Record /\ Pending \in Seq(Record)
  BY PendingType DEF WaitInv, TappingTypeOK
<1>2. /\ Pending' = Append(Pending, e) /\ waiting' = waiting /\ tapping' = tapping
      /\ down' = down \ {k} /\ ~settled' /\ k \in down /\ kb' = kb
  BY KeyEventType DEF Release, WaitInv, Pending
<1>3. Backed(kb, Taps(Pending, tapping))
  BY DEF Held
<1>4. down' = (IF FALSE THEN down \cup {k} ELSE down \ {k}) /\ (k \in down <=> ~FALSE)
  BY <1>2
<1>5. FALSE \in BOOLEAN /\ e = KeyEvent(k, FALSE)
  OBVIOUS
<1> HIDE DEF e
<1>6. Held(Append(Pending, e), down', kb, tapping)
  BY <1>1, <1>3, <1>4, <1>5, AppendHeld
<1> QED BY <1>2, <1>6 DEF InStep

LEMMA Remainder == ASSUME NEW n \in Nat, NEW m \in Nat, n < m PROVE n % m = n
  OBVIOUS

LEMMA TimeMoves ==
  ASSUME NEW a \in Nat, NEW b \in Nat, NEW c \in Nat
  PROVE  (a + 1) + c - (b + 1) = a + c - b
  OBVIOUS

LEMMA PassHeld ==
  ASSUME WaitInv, Pass, excused = {}, excused' = {},
         Held(Pending, down, kb, tapping), Scanned(waiting, tapping), InStep
  PROVE  Held(Pending', down', kb', tapping') /\ Scanned(waiting', tapping') /\ InStep'
<1> DEFINE Q == waiting'
<1>1. /\ phase = "idle" /\ settled /\ ~IsEvent(event) /\ Pending = waiting /\ Pending' = Q
      /\ tapping' = Aged(tapping) /\ Q = [i \in 1 .. Len(waiting) |-> Aged(waiting[i])]
      /\ ~settled' /\ down' = down /\ kb' = kb /\ tapping \in Record
      /\ waiting \in Seq(Record)
  BY DEF Pass, WaitInv, TappingTypeOK, Pending
<1>2. \A i \in 1 .. Len(waiting) : Aged(waiting[i]) \in Record
  BY <1>1, AgedType
<1>3. Q \in Seq(Record) /\ Len(Q) = Len(waiting) /\ \A i \in 1 .. Len(waiting) :
        Q[i] = Aged(waiting[i])
  BY <1>1, <1>2
<1> HIDE DEF Q
<1>4. Queue(waiting, down, kb.acting, tapping) /\ Ages(waiting, tapping)
        /\ Backed(kb, Taps(waiting, tapping))
  BY <1>1 DEF Held, Queue
<1>5. /\ Term \in Nat /\ Term > 1 /\ Wrap \in Nat /\ 2 * Term <= Wrap
      /\ tapping.ago \in Nat /\ \A i \in 1 .. Len(waiting) : waiting[i].ago \in Nat
  <2>1. ASSUME NEW r \in Record PROVE r.ago \in Nat
    BY TermAssumption DEF Record
  <2> QED BY <1>1, <2>1, TermAssumption
<1>6. ASSUME waiting # <<>>
      PROVE  tapping.ago < Term /\ \A i \in 1 .. Len(waiting) : waiting[i].ago < Term
  <2>1. tapping.ago < Term
    BY <1>1, <1>6 DEF WaitInv, Settledness
  <2>2. 1 \in 1 .. Len(waiting) /\ Len(waiting) \in Nat
    BY <1>1, <1>6
  <2>3. waiting[1].ago <= Term /\ (tapping.ago + Wrap - waiting[1].ago) % Wrap < Term
    BY <1>1, <1>4, <1>6, <2>2 DEF Ages, InStep, InTerm
  <2>4. waiting[1].ago <= tapping.ago
    <3>1. waiting[1].ago \in Nat
      BY <1>5, <2>2
    <3>2. CASE waiting[1].ago > tapping.ago
      <4>1. /\ tapping.ago + Wrap - waiting[1].ago \in 0 .. Wrap - 1
            /\ tapping.ago + Wrap - waiting[1].ago >= Term
        BY <1>5, <2>3, <3>1, <3>2
      <4>2. (tapping.ago + Wrap - waiting[1].ago) % Wrap = tapping.ago + Wrap - waiting[1].ago
        <5>1. \A n \in Nat : n < Wrap => n % Wrap = n
          BY <1>5, Remainder
        <5>2. /\ tapping.ago + Wrap - waiting[1].ago \in Nat
              /\ tapping.ago + Wrap - waiting[1].ago < Wrap
          BY <1>5, <4>1
        <5> QED BY <5>1, <5>2
      <4> QED BY <1>5, <2>3, <3>1, <4>1, <4>2
    <3> QED BY <1>5, <3>1, <3>2
  <2>5. ASSUME NEW i \in 1 .. Len(waiting) PROVE waiting[i].ago <= waiting[1].ago
    <3>1. CASE i = 1
      BY <1>5, <2>2, <3>1
    <3>2. CASE i # 1
      <4>1. 1 < i
        BY <2>2, <3>2
      <4> QED BY <1>4, <2>2, <4>1 DEF Ages
    <3> QED BY <3>1, <3>2
  <2>6. \A i \in 1 .. Len(waiting) : waiting[i].ago < Term
    BY <1>5, <2>1, <2>2, <2>4, <2>5
  <2> QED BY <2>1, <2>6
<1>7. \A i \in 1 .. Len(waiting) : Q[i] = Aged(waiting[i]) /\ waiting[i].ago < Term
  <2>1. ASSUME NEW i \in 1 .. Len(waiting) PROVE waiting # <<>>
    BY <1>1
  <2> QED BY <1>3, <1>6, <2>1
<1>8. Queue(Q, down, kb.acting, Aged(tapping))
  BY <1>1, <1>3, <1>4, <1>6, <1>7, AgedQueue
<1>9. ASSUME NEW r \in Record
      PROVE  /\ Aged(r).key = r.key /\ (Aged(r).pressed <=> r.pressed) /\ Aged(r).count = r.count
             /\ IsEvent(r) => Aged(r).ago = (r.ago + 1) % Wrap
  BY DEF Aged, Record
<1>10. Taps(Q, Aged(tapping)) = Taps(waiting, tapping)
  <2>1. \A i \in 1 .. Len(waiting) : Q[i].key = waiting[i].key /\ Q[i].count = waiting[i].count
    BY <1>1, <1>3, <1>9
  <2>2. ASSUME NEW k \in Key
        PROVE  (\E i \in 1 .. Len(Q) : Q[i].key = k /\ Q[i].count > 0) <=>
               \E i \in 1 .. Len(waiting) : waiting[i].key = k /\ waiting[i].count > 0
    BY <1>3, <2>1
  <2>3. ASSUME NEW k PROVE TappedIs(Aged(tapping), k) <=> TappedIs(tapping, k)
    BY <1>1, <1>9 DEF TappedIs, IsTapped
  <2> QED BY <2>2, <2>3 DEF Taps
<1>11. Held(Q, down, kb, Aged(tapping))
  BY <1>4, <1>8, <1>10 DEF Held
<1>12. Scanned(Q, Aged(tapping))
  <2>1. ASSUME IsOpen(Aged(tapping)), NEW i \in 1 .. Len(Q), Q[i].key = Aged(tapping).key,
          ~Q[i].pressed
        PROVE  ~InTerm(Q[i], Aged(tapping))
    <3>1. i \in 1 .. Len(waiting) /\ waiting # <<>>
      BY <1>1, <1>3, <2>1
    <3>2. IsOpen(tapping) /\ IsEvent(tapping)
      BY <1>1, <1>9, <2>1 DEF IsOpen, Record, IsEvent
    <3>3. waiting[i].key = tapping.key /\ ~waiting[i].pressed /\ IsEvent(waiting[i])
            /\ waiting[i] \in Record
      BY <1>1, <1>3, <1>4, <1>9, <2>1, <3>1 DEF Ages
    <3>4. ~InTerm(waiting[i], tapping)
      BY <3>1, <3>2, <3>3 DEF Scanned
    <3>5. /\ tapping.ago < Term /\ waiting[i].ago < Term /\ waiting[i].ago \in Nat
      BY <1>5, <1>6, <3>1
    <3>6. (tapping.ago + 1) % Wrap = tapping.ago + 1
            /\ (waiting[i].ago + 1) % Wrap = waiting[i].ago + 1
      <4>1. \A n \in Nat : n < Term => (n + 1) % Wrap = n + 1
        <5>1. ASSUME NEW n \in Nat, n < Term PROVE n + 1 \in Nat /\ n + 1 < Wrap
          BY <1>5, <5>1
        <5> QED BY <1>5, <5>1, Remainder
      <4> QED BY <1>5, <3>5, <4>1
    <3>7. Aged(tapping).ago = tapping.ago + 1 /\ Q[i].ago = waiting[i].ago + 1
      BY <1>1, <1>3, <1>9, <3>1, <3>2, <3>3, <3>6
    <3>8. (tapping.ago + 1) + Wrap - (waiting[i].ago + 1) = tapping.ago + Wrap - waiting[i].ago
      BY <1>5, <3>5, TimeMoves
    <3> QED BY <3>4, <3>7, <3>8 DEF InTerm
  <2> QED BY <2>1 DEF Scanned
<1> QED BY <1>1, <1>11, <1>12 DEF InStep, Q

LEMMA HeldStep == ASSUME WaitInv, [Next]_vars, HeldInv PROVE HeldInv'
<1> SUFFICES ASSUME excused' = {}
             PROVE  Held(Pending', down', kb', tapping') /\ Scanned(waiting', tapping') /\ InStep'
  BY DEF HeldInv
<1>1. excused = {}
  BY ExcusedStays
<1>2. Held(Pending, down, kb, tapping) /\ Scanned(waiting, tapping) /\ InStep
  BY <1>1 DEF HeldInv
<1>3. CASE ProcessTapping
  BY <1>1, <1>2, <1>3, ProcessHeld
<1>4. CASE \E k \in Key : Press(k) \/ Release(k)
  BY <1>1, <1>2, <1>4, PressHeld, ReleaseHeld
<1>5. CASE Tick
  BY <1>2, <1>5 DEF Tick, Pending, InStep
<1>6. CASE Pass
  BY <1>1, <1>2, <1>6, PassHeld
<1>7. CASE \E on \in HoldSettings : SetHoldOkp(on)
  BY <1>2, <1>7 DEF SetHoldOkp, Pending, InStep
<1>8. CASE UNCHANGED vars
  BY <1>2, <1>8 DEF vars, Pending, InStep
<1> QED BY <1>3, <1>4, <1>5, <1>6, <1>7, <1>8 DEF Next

LEMMA HeldInvariant == Spec => [](WaitInv /\ HeldInv)
<1>1. Init /\ TappingTypeOK => HeldInv
  BY InitHeld
<1>2. WaitInv /\ HeldInv /\ [Next]_vars => HeldInv'
  BY HeldStep
<1>3. WaitInv => TappingTypeOK
  BY DEF WaitInv
<1> QED BY <1>1, <1>2, <1>3, WaitInvariant, PTL DEF Spec

-----------------------------------------------------------------------------
(* What the run checks.                                                    *)

LEMMA BackedIsHeld ==
  ASSUME NEW P, NEW D, Held(P, D, kb, tapping), TappingTypeOK
  PROVE  /\ kb.keys \cup kb.real \cup kb.weak
              \subseteq {x.code : x \in Holding} \cup UNION {x.mods : x \in Holding}
         /\ kb.layers \subseteq {x.layer : x \in Holding} \cup LeftOn
<1>1. Backed(kb, Taps(P, tapping)) /\ \A k \in kb.acting : CachedAction(kb, k) \in Holding
  BY DEF Held, Holding
<1>2. ASSUME NEW a, NEW how
      PROVE  /\ KeysOf(a, how) \subseteq {a.code} /\ WeakOf(a) \subseteq a.mods
             /\ RealOf(a, how) \subseteq {a.code} \cup a.mods
                  /\ LayersOf(a, how) \subseteq {a.layer}
  BY DEF KeysOf, WeakOf, RealOf, LayersOf, CodesOf
<1>3. ASSUME NEW c \in kb.keys PROVE c \in {x.code : x \in Holding}
  BY <1>1, <1>2, <1>3 DEF Backed
<1>4. ASSUME NEW c \in kb.real PROVE c \in {x.code : x \in Holding} \cup UNION {x.mods : x \in Holding}
  BY <1>1, <1>2, <1>4 DEF Backed
<1>5. ASSUME NEW c \in kb.weak PROVE c \in UNION {x.mods : x \in Holding}
  BY <1>1, <1>2, <1>5 DEF Backed
<1>6. ASSUME NEW l \in kb.layers PROVE l \in {x.layer : x \in Holding} \cup LeftOn
  <2>1. CASE l \in Own(kb)
    BY <1>1, <1>2, <2>1 DEF Backed
  <2>2. CASE l \notin Own(kb)
    BY <2>2 DEF Own, Switched, LeftOn
  <2> QED BY <2>1, <2>2
<1> QED BY <1>3, <1>4, <1>5, <1>6

LEMMA HeldIsOnlyHeld == ASSUME WaitInv, HeldInv PROVE OnlyHeld
<1> SUFFICES ASSUME excused = {}
             PROVE  /\ kb.keys \cup kb.real \cup kb.weak
                         \subseteq {x.code : x \in Holding} \cup UNION {x.mods : x \in Holding}
                    /\ kb.layers \subseteq {x.layer : x \in Holding} \cup LeftOn
                    /\ \A k \in kb.acting : k \in down \/ ReleaseOnItsWay(k)
  BY DEF OnlyHeld
<1>1. Held(Pending, down, kb, tapping) /\ TappingTypeOK
  BY DEF HeldInv, WaitInv
<1>2. ASSUME NEW k \in kb.acting, k \notin down PROVE ReleaseOnItsWay(k)
  <2>1. PICK i \in 1 .. Len(Pending) : Pending[i].key = k /\ ~Pending[i].pressed
    BY <1>1, <1>2 DEF Held, Queue, Expects, Opened
  <2>2. Pending[i] = event \/ (i \in 1 .. Len(waiting) /\ Pending[i] = waiting[i])
    <3>1. waiting \in Seq(Record)
      BY <1>1, PendingType
    <3> QED BY <3>1 DEF Pending
  <2> QED BY <2>1, <2>2 DEF ReleaseOnItsWay
<1> QED BY <1>1, <1>2, BackedIsHeld

\* For every keymap, every term and every length of the buffer: what is on is there for a
\* key that is going to be released, unless one of the five things in excused has happened.
THEOREM OnlyHeldKeys == Spec => []OnlyHeld
  BY HeldInvariant, HeldIsOnlyHeld, PTL

\* Once every key is up and nothing waits, nothing is on that no key leaves on.
THEOREM NothingStays == Spec => []NothingStuck
<1>1. WaitInv /\ OnlyHeld => NothingStuck
  <2> SUFFICES ASSUME WaitInv, OnlyHeld, AtRest, excused = {}
               PROVE  kb.keys = {} /\ kb.real = {} /\ kb.weak = {} /\ kb.layers \subseteq LeftOn
    BY DEF NothingStuck
  <2>1. down = {} /\ waiting = <<>> /\ ~IsEvent(event) /\ kb \in Keyboard
    BY DEF AtRest, WaitInv, TappingTypeOK
  <2>2. kb.acting \subseteq Key
    BY <2>1 DEF Keyboard
  <2>3. ASSUME NEW k \in kb.acting PROVE FALSE
    <3>1. ReleaseOnItsWay(k) /\ k \in Key
      BY <2>1, <2>2 DEF OnlyHeld
    <3> QED BY <2>1, <3>1, NoneAssumption DEF ReleaseOnItsWay, IsEvent
  <2>4. Holding = {}
    BY <2>3 DEF Holding
  <2> QED BY <2>4 DEF OnlyHeld
<1> QED BY <1>1, WaitInvariant, OnlyHeldKeys, PTL

-----------------------------------------------------------------------------
(* What a release will be looked up as.                                    *)

Remembered == \A x \in kb.acting : CachedAction(kb', x) = CachedAction(kb, x)

LEMMA ProcessedRemembers ==
  ASSUME NEW b \in Keyboard, NEW r \in Record, IsEvent(r), NEW A \in SUBSET Key,
         r.pressed => r.key \notin A /\ SameLayer(b, PressProcessed(b, r))
  PROVE  \A x \in A : CachedAction(Processed(b, r), x) = CachedAction(b, x)
<1> DEFINE how == HowCounted(r)
           p == IF r.pressed THEN PressProcessed(b, r) ELSE ReleaseProcessed(b, r)
           c == Processed(b, r)
<1>0. r.key \in Key /\ r.count \in Nat
  BY RecordParts, CountAssumption DEF Record
<1>1. (how = "tap" /\ r.count > 0) \/ (how = "hold" /\ r.count = 0)
  BY <1>0, HowCountedCases
<1> HIDE DEF how
<1>2. CASE r.pressed
  <2>1. /\ p \in Keyboard /\ p.keymap = b.keymap
        /\ p.cache = [b.cache EXCEPT ![r.key] = SourceLayer(b, r.key)]
    BY <1>1, <1>2, PressMoves
  <2>2. c.keymap = p.keymap /\ c.cache = p.cache
    BY <2>1 DEF Processed, Keyboard
  <2> HIDE DEF p, c
  <2>3. ASSUME NEW x \in A PROVE CachedAction(c, x) = CachedAction(b, x)
    <3>1. x \in Key /\ x # r.key
      BY <1>2
    <3>2. c.cache[x] = b.cache[x]
      BY <2>1, <2>2, <3>1 DEF Keyboard
    <3> QED BY <2>1, <2>2, <3>2 DEF CachedAction
  <2> QED BY <2>3 DEF c
<1>3. CASE ~r.pressed
  <2> DEFINE a == CachedAction(b, r.key)
  <2>1. a \in Action /\ OfMap(b, a) /\ p = Acted(b, a, FALSE, r.count)
    BY <1>0, <1>3, ActionsOfMap DEF ReleaseProcessed
  <2> HIDE DEF p, a
  <2>2. Looks(b, p)
    BY <1>0, <1>1, <2>1, ActedRelease
  <2>3. c.keymap = p.keymap /\ c.cache = p.cache
    BY <1>3, <2>2 DEF Processed, Keyboard, Looks, p
  <2> QED BY <2>2, <2>3 DEF CachedAction, Looks
<1> QED BY <1>2, <1>3

\* A key whose press is taken from the queue is not one that was acted upon.
LEMMA PressesAnew ==
  ASSUME InWork, Rec.pressed, phase = "drain" \/ ~Typed
  PROVE  Rec.key \notin kb.acting
<1>1. IsEvent(Rec) /\ waiting \in Seq(Record) /\ Pending \in Seq(Record)
  BY InWorkTypes DEF IsEvent
<1>2. PICK n \in 1 .. Len(Pending), d \in {0, 1} :
           /\ Pending[n] = Rec /\ Len(Pending) \in Nat
           /\ phase = "drain" => n = 1
           /\ phase # "drain" => n = Len(Pending) /\ Pending = Append(waiting, Rec)
  BY <1>1, RecPlace
<1>3. IsFirst(Pending, n)
  <2>1. CASE phase = "drain"
    BY <1>2, <2>1 DEF IsFirst
  <2>2. CASE phase # "drain"
    <3>1. \A i \in 1 .. Len(waiting) : waiting[i].key # Rec.key
      BY <1>1, <2>2, NotTyped
    <3>2. \A h \in 1 .. n - 1 : h \in 1 .. Len(waiting) /\ Pending[h] = waiting[h]
      BY <1>1, <1>2, <2>2
    <3> QED BY <1>2, <3>1, <3>2 DEF IsFirst
  <2> QED BY <2>1, <2>2
<1>4. ~Opened(Pending, down, Rec.key)
  BY <1>2, <1>3, FirstIsNoPress
<1> QED BY <1>4 DEF InWork, Held, Queue, Expects

LEMMA DoneRemembers ==
  ASSUME InWork, IsEvent(Rec), NEW r \in Record, r.key = Rec.key, r.pressed <=> Rec.pressed,
         NEW tap2, Done(Processed(kb, r), tap2, waiting)
  PROVE  Remembered
<1>1. /\ kb' = Processed(kb, r) /\ Replaced(Processed(kb, r)) = {} /\ kb \in Keyboard
      /\ kb.acting \in SUBSET Key /\ IsEvent(r)
  BY DoneQueue, InWorkTypes DEF Keyboard, IsEvent
<1>2. ASSUME r.pressed PROVE r.key \notin kb.acting /\ SameLayer(kb, PressProcessed(kb, r))
  <2>1. phase = "drain" \/ ~Typed
    <3>1. phase \in {"drain", "event"}
      BY DEF InWork, Frame, WaitInv, TappingTypeOK
    <3> QED BY <3>1 DEF Done, InWork
  <2>2. r.key \notin kb.acting
    BY <1>2, <2>1, PressesAnew
  <2>3. SameLayer(kb, PressProcessed(kb, r))
    BY <1>1, <1>2, ProcessedType, SameLayerOfPress, PressProcessedLayer
  <2> QED BY <2>2, <2>3
<1> QED BY <1>1, <1>2, ProcessedRemembers DEF Remembered

LEMMA KeptRemembers ==
  ASSUME InWork, IsOpen(tapping), NEW r \in Record, r.key = tapping.key, r.pressed,
         NEW tap2, NEW q, Kept(Processed(kb, r), tap2, q)
  PROVE  Remembered
<1>1. kb' = Processed(kb, r) /\ Replaced(Processed(kb, r)) = {}
  BY DEF Kept, InWork
<1>2. kb \in Keyboard /\ kb.acting \in SUBSET Key /\ IsEvent(r)
  BY InWorkTypes DEF Keyboard, IsEvent, IsOpen
<1>3. r.key \notin kb.acting
  BY DEF InWork, Held, Queue, Expects
<1>4. SameLayer(kb, PressProcessed(kb, r))
  BY <1>1, <1>2, ProcessedType, SameLayerOfPress, PressProcessedLayer
<1> QED BY <1>1, <1>2, <1>3, <1>4, ProcessedRemembers DEF Remembered

LEMMA StartRemembers ==
  ASSUME InWork, Rec.pressed, NEW k \in Keyboard,
         \A x \in kb.acting : CachedAction(k, x) = CachedAction(kb, x),
         k.osl # {} => kb.osl # {} /\ k.osl_layer = kb.osl_layer, Start(k, Rec)
  PROVE  Remembered
<1> DEFINE tap1 == [Rec EXCEPT !.count = 1]
<1>1. CASE Done(k, Rec, waiting)
  BY <1>1 DEF Done, Remembered
<1>2. CASE \E i \in TapReleases(Rec) :
             Done(Processed(k, tap1), AsProcessed(k, tap1), [waiting EXCEPT ![i].count = 1])
  <2>1. PICK i \in TapReleases(Rec) :
             Done(Processed(k, tap1), AsProcessed(k, tap1), [waiting EXCEPT ![i].count = 1])
    BY <1>2
  <2>2. /\ tap1 \in Record /\ tap1.key = Rec.key /\ tap1.pressed /\ IsEvent(tap1)
        /\ kb \in Keyboard /\ kb.acting \in SUBSET Key
    <3>1. Rec \in Record /\ tap1 \in Record
      BY InWorkTypes, CountedType
    <3>2. tap1.key = Rec.key /\ tap1.pressed
      BY <3>1 DEF Record
    <3> QED BY <3>1, <3>2, InWorkTypes DEF IsEvent, Keyboard
  <2> HIDE DEF tap1
  <2>3. /\ kb' = Processed(k, tap1) /\ Replaced(Processed(k, tap1)) = {}
        /\ phase = "drain" \/ ~Typed
    <3>1. phase \in {"drain", "event"}
      BY DEF InWork, Frame, WaitInv, TappingTypeOK
    <3> QED BY <2>1, <3>1 DEF Done, InWork
  <2>4. Rec.key \notin kb.acting
    BY <2>3, PressesAnew
  <2>5. SameLayer(k, PressProcessed(k, tap1))
    <3>1. SameLayer(kb, Processed(k, tap1))
      BY <2>2, <2>3, ProcessedType, SameLayerOfPress
    <3>2. SameLayer(kb, PressProcessed(k, tap1))
      BY <2>2, <3>1, PressProcessedLayer
    <3> QED BY <3>2 DEF SameLayer
  <2>6. \A x \in kb.acting : CachedAction(Processed(k, tap1), x) = CachedAction(k, x)
    BY <2>2, <2>4, <2>5, ProcessedRemembers
  <2> QED BY <2>3, <2>6 DEF Remembered
<1> QED BY <1>1, <1>2 DEF Start

LEMMA BranchRemembers == ASSUME InWork, Branch PROVE Remembered
<1>0. /\ kb \in Keyboard /\ tapping \in Record /\ Rec \in Record
      /\ (Rec.pressed => IsEvent(Rec)) /\ (tapping.pressed => IsEvent(tapping))
  BY InWorkTypes
<1>1. ASSUME NEW tap2, Kept(kb, tap2, Rec) \/ Done(kb, tap2, waiting) PROVE Remembered
  BY <1>1 DEF Kept, Done, InWork, Remembered
<1>2. CASE IgnoreTick \/ UpWaits \/ DownWaits \/ TapAgain \/ TapOver
  BY <1>1, <1>2 DEF IgnoreTick, UpWaits, DownWaits, TapAgain, TapOver
<1>3. CASE Regular \/ EarlierUp \/ WhileTapped \/ AfterTapUp \/ OtherDown
  BY <1>0, <1>3, DoneRemembers DEF Regular, EarlierUp, OtherUp, WhileTapped, AfterTapUp, OtherDown
<1>4. /\ WithTap(Rec, tapping) \in Record /\ WithTap(Rec, tapping).key = Rec.key
      /\ (WithTap(Rec, tapping).pressed <=> Rec.pressed)
  <2>1. WithTap(Rec, tapping) \in Record
    BY <1>0, WithTapType
  <2> QED BY <1>0, <2>1 DEF WithTap, Record
<1>5. CASE TapReleased
  <2>1. IsEvent(Rec)
    BY <1>0, <1>5 DEF TapReleased, Tapped, OfTapping, IsEvent
  <2> QED BY <1>4, <1>5, <2>1, DoneRemembers DEF TapReleased
<1>6. CASE RepeatTap
  <2> DEFINE t == WithTap(Rec, tapping)
             r == [t EXCEPT !.count = IF @ < MaxCount THEN @ + 1 ELSE @]
  <2>1. Rec.pressed /\ Done(Processed(kb, r), AsProcessed(kb, r), waiting)
    BY <1>6 DEF RepeatTap
  <2>2. t \in Record /\ t.key = Rec.key /\ (t.pressed <=> Rec.pressed)
    BY <1>4
  <2> HIDE DEF t
  <2>3. r \in Record /\ r.key = Rec.key /\ (r.pressed <=> Rec.pressed)
    <3>1. r \in Record
      BY <2>2, CountedType
    <3> QED BY <2>2, <3>1 DEF Record
  <2> HIDE DEF r
  <2> QED BY <1>0, <2>1, <2>3, DoneRemembers
<1>7. CASE FirstTap
  <2> DEFINE tap1 == [tapping EXCEPT !.count = 1]
             done == AsProcessed(kb, tap1)
  <2>1. IsOpen(tapping) /\ Kept(Processed(kb, tap1), done, WithTap(Rec, done))
    BY <1>7 DEF FirstTap, Undecided, IsOpen
  <2>2. tap1 \in Record /\ tap1.key = tapping.key /\ tap1.pressed
    <3>1. tap1 \in Record
      BY <1>0, CountedType
    <3> QED BY <1>0, <2>1, <3>1 DEF Record, IsOpen
  <2> HIDE DEF tap1, done
  <2> QED BY <2>1, <2>2, KeptRemembers
<1>8. CASE HoldByOther
  <2>1. IsOpen(tapping) /\ Kept(Processed(kb, Interrupted), NoRecord, Rec)
    BY <1>8 DEF HoldByOther, Undecided, IsOpen
  <2>2. Interrupted \in Record /\ Interrupted.key = tapping.key /\ Interrupted.pressed
    <3>1. Interrupted \in Record
      BY <1>0, CountedType DEF Interrupted
    <3> QED BY <1>0, <2>1, <3>1 DEF Interrupted, Record, IsOpen
  <2> QED BY <2>1, <2>2, KeptRemembers
<1>9. CASE HoldByTime
  <2>1. IsOpen(tapping) /\ Kept(Processed(kb, tapping), NoRecord, Rec)
    BY <1>9 DEF HoldByTime, Undecided, IsOpen
  <2> QED BY <1>0, <2>1, KeptRemembers DEF IsOpen
<1>10. CASE StartTap \/ OtherTap
  BY <1>0, <1>10, StartRemembers DEF StartTap, OtherTap, TapPress
<1>11. CASE NextTap
  <2> DEFINE ended == [tapping EXCEPT !.pressed = FALSE]
             k == IF tapping.count > 1 THEN Processed(kb, ended) ELSE kb
  <2>1. IsTapped(tapping) /\ Rec.pressed /\ Start(k, Rec)
    BY <1>11 DEF NextTap, Tapped, TapPress, IsTapped
  <2>2. /\ ended \in Record /\ ended.key = tapping.key /\ ~ended.pressed
        /\ ended.count = tapping.count
    BY <1>0, CountedType DEF Record
  <2>3. (tapping.count > 1 => k = Processed(kb, ended)) /\ (~(tapping.count > 1) => k = kb)
    OBVIOUS
  <2> HIDE DEF k, ended
  <2>4. /\ Held(Pending, down, k, NoRecord) /\ k \in Keyboard
        /\ k.osl # {} => kb.osl # {} /\ k.osl_layer = kb.osl_layer
    <3>1. Pending \in Seq(Record) /\ Held(Pending, down, kb, tapping)
      BY InWorkTypes DEF InWork
    <3> QED BY <1>0, <2>1, <2>2, <2>3, <3>1, TapEnds
  <2>5. IsEvent(ended) /\ kb.acting \in SUBSET Key
    BY <1>0, <2>1, <2>2 DEF IsTapped, IsEvent, Keyboard
  <2>6. \A x \in kb.acting : CachedAction(Processed(kb, ended), x) = CachedAction(kb, x)
    BY <1>0, <2>2, <2>5, ProcessedRemembers
  <2>7. \A x \in kb.acting : CachedAction(k, x) = CachedAction(kb, x)
    BY <2>3, <2>6
  <2> QED BY <2>1, <2>4, <2>7, StartRemembers
<1> QED BY <1>2, <1>3, <1>5, <1>6, <1>7, <1>8, <1>9, <1>10, <1>11 DEF Branch

\* The action that a release will be looked up as stays that of its press, whatever the
\* layers do in between (store_or_get_action): the run tapping_again shows how it changes
\* otherwise, and that step is excused.
THEOREM ReleasedAsPressed == Spec => ActionStays
<1>1. WaitInv /\ HeldInv /\ [Next]_vars =>
        [excused' = {} => \A k \in kb.acting : CachedAction(kb', k) = CachedAction(kb, k)]_vars
  <2> SUFFICES ASSUME WaitInv, HeldInv, [Next]_vars, excused' = {} PROVE Remembered
    BY DEF Remembered
  <2>0. excused = {}
    BY ExcusedStays
  <2>1. Held(Pending, down, kb, tapping) /\ Scanned(waiting, tapping)
    BY <2>0 DEF HeldInv
  <2>2. CASE ProcessTapping
    BY <2>0, <2>1, <2>2, ProcessFrame, BranchRemembers DEF InWork
  <2>3. ASSUME NEW k \in Key, Press(k) PROVE Remembered
    <3> DEFINE up == Cached(ClearWeakMods(kb), k)
    <3>1. kb' = up /\ (k \in kb.acting => CachedAction(up, k) = CachedAction(kb, k))
      BY <2>3 DEF Press
    <3>2. /\ kb \in Keyboard /\ up.keymap = kb.keymap
          /\ up.cache = [kb.cache EXCEPT ![k] = SourceLayer(ClearWeakMods(kb), k)]
      BY DEF WaitInv, TappingTypeOK, Cached, ClearWeakMods, Keyboard
    <3> HIDE DEF up
    <3>3. ASSUME NEW x \in kb.acting, x # k PROVE CachedAction(up, x) = CachedAction(kb, x)
      BY <3>2, <3>3 DEF CachedAction, Keyboard
    <3> QED BY <3>1, <3>3 DEF Remembered
  <2>4. CASE \/ \E k \in Key : Release(k)
             \/ Tick \/ Pass
             \/ \E on \in HoldSettings : SetHoldOkp(on)
             \/ UNCHANGED vars
    BY <2>4 DEF Release, Tick, Pass, SetHoldOkp, vars, Remembered
  <2> QED BY <2>2, <2>3, <2>4 DEF Next
<1>2. ActionStays <=>
        [][excused' = {} => \A k \in kb.acting : CachedAction(kb', k) = CachedAction(kb, k)]_vars
  BY DEF ActionStays
<1> QED BY <1>1, <1>2, HeldInvariant, PTL DEF Spec
=============================================================================
