----------------------------- MODULE MCViaMenus -----------------------------
(***************************************************************************)
(* The four menus with a record, between the magic of eeconfig and that of *)
(* VIA. Each host sends one byte: another timeout than the default, a TX   *)
(* power out of range, a debounce time below the least, and the off of     *)
(* hold_okp, which is also what the record holds before it is restored.    *)
(* The reset has one confirmation in place of three, sent as 0 or 1.       *)
(***************************************************************************)
EXTENDS ViaMenus

MCValue == {0, 1, 5, 9, 10, 30, 40, 60, 90, 165, 255}

MCMenus == {Power({60}), Ble({9}), Debounce({0}), HoldOkp({0})}
=============================================================================
