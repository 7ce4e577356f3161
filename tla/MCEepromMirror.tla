--------------------------- MODULE MCEepromMirror ---------------------------
(***************************************************************************)
(* Four cells: the magic of eeconfig, a user setting, the magic of VIA and *)
(* one key of the key map. Three values.                                   *)
(***************************************************************************)
EXTENDS EepromMirror

MCValue == {"blank", "default", "edited"}
=============================================================================
