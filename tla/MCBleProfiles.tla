--------------------------- MODULE MCBleProfiles ---------------------------
(***************************************************************************)
(* Two hosts and two profiles: a host can hold one, both or none. The two  *)
(* threads that call ble.c do the same, but for the start, which nothing   *)
(* else depends on.                                                        *)
(***************************************************************************)
EXTENDS BleProfiles, TLC

Swap == Permutations(Host) \cup Permutations(User)
=============================================================================
