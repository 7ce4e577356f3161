---------------------------- MODULE MCPowerLoop ----------------------------
(***************************************************************************)
(* One tick stands for one QMK_TASK_PERIOD_MS. Grace, flush delay and the  *)
(* timeouts keep the order they have in the firmware, on a smaller scale.  *)
(***************************************************************************)
EXTENDS PowerLoop

T(i, r, s) == [idle |-> i, rgb |-> r, sleep |-> s]

OneSetting == {T(5, 6, 8)}

\* For the run that waits for the keys to settle: past a longer grace.
PastGrace == {T(8, 9, 10)}

\* With RGB Timeout = Off, RGB is still on when System OFF is due.
RgbStays == {T(5, 6, 8), T(5, 0, 7)}

\* For the run with a host: one of each kind, on a smaller scale still.
TwoSettings == {T(4, 5, 6), T(0, 3, 4)}
=============================================================================
