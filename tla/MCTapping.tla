----------------------------- MODULE MCTapping -----------------------------
(***************************************************************************)
(* Keymaps of three keys and two layers. Between them they have every kind *)
(* of action; MapA is the corner of the boards' keymaps with LT(1, KC_TAB) *)
(* and a modifier, and TwoTaps has two keys with two meanings and a        *)
(* momentary layer.                                                        *)
(***************************************************************************)
EXTENDS Tapping, TLC

CONSTANTS k1, k2, k3, kc_a, kc_b, shift

Of(kind, code, mods, layer) == [kind |-> kind, code |-> code, mods |-> mods, layer |-> layer]
Kc(c) == Of("key", c, {}, 0)
Shifted(c) == Of("key", c, {shift}, 0)
Lt(c) == Of("layer_tap", c, {}, 1)
Mt(c) == Of("mod_tap", c, {shift}, 0)
Layered(kind) == Of(kind, NoCode, {}, 1)
Osm == Of("oneshot_mod", NoCode, {shift}, 0)
Lm == Of("layer_mod", NoCode, {shift}, 1)
Base == Of("to", NoCode, {}, 0)
Trans == Of("transparent", NoCode, {}, 0)

Map(x0, y0, z0, x1, y1, z1) ==
  0 :> (k1 :> x0 @@ k2 :> y0 @@ k3 :> z0) @@ 1 :> (k1 :> x1 @@ k2 :> y1 @@ k3 :> z1)

Plain == Map(Lt(kc_a), Kc(kc_b), Kc(shift), Trans, Kc(kc_a), Trans)
TwoTaps == Map(Lt(kc_a), Mt(kc_b), Layered("momentary"), Trans, Kc(kc_b), Trans)
OneShots == Map(Layered("oneshot_layer"), Osm, Kc(kc_a), Trans, Trans, Lt(kc_b))
Toggles == Map(Layered("tap_toggle"), Shifted(kc_a), Lm, Trans, Kc(kc_b), Lt(kc_a))
Moves == Map(Lt(kc_a), Layered("toggle"), Kc(kc_b), Base, Trans, Shifted(kc_a))

Maps == {Plain, TwoTaps, OneShots, Toggles, Moves}
OnlyTwoTaps == {TwoTaps}

\* Bound: what follows an excuse is not looked at.
Unexcused == excused = {}
=============================================================================
