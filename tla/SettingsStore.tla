--------------------------- MODULE SettingsStore ---------------------------
(***************************************************************************)
(* What the settings layer of the keyboard promises to its callers: a      *)
(* write is visible at once, a cell of the flash only ever catches up with *)
(* what is visible, and while the layer reports that everything is saved   *)
(* the flash holds exactly what is visible, so losing power then loses     *)
(* nothing.                                                                *)
(***************************************************************************)
CONSTANTS
  Cell,     \* the addresses of the settings area
  Value,    \* what a cell can hold
  Started   \* the images the boot code may show, given what the flash holds:
            \* Started[f] is a set of functions from Cell to Value

VARIABLES
  up,       \* is the firmware running
  visible,  \* what a read returns
  flash,    \* what survives the loss of power
  saved     \* the layer has nothing left to write

svars == <<up, visible, flash, saved>>

TypeOK ==
  /\ up \in BOOLEAN
  /\ visible \in [Cell -> Value]
  /\ flash \in [Cell -> Value]
  /\ saved \in BOOLEAN

Init ==
  /\ ~up
  /\ visible \in [Cell -> Value]
  /\ flash \in [Cell -> Value]
  /\ saved \in BOOLEAN

Start ==
  /\ ~up /\ up'
  /\ visible' \in Started[flash]
  /\ saved' => visible' = flash
  /\ UNCHANGED flash

Edit ==
  /\ up /\ up'
  /\ \E c \in Cell, v \in Value : visible' = [visible EXCEPT ![c] = v]
  /\ saved' => visible' = flash
  /\ UNCHANGED flash

\* Some cells of the flash take the visible value.
Persist ==
  /\ up /\ up'
  /\ \A c \in Cell : flash'[c] \in {flash[c], visible[c]}
  /\ flash' \in [Cell -> Value]
  /\ saved' => visible = flash'
  /\ UNCHANGED visible

\* Power loss, System OFF or a reset.
Stop ==
  /\ up /\ ~up'
  /\ UNCHANGED <<visible, flash>>

Next == Start \/ Edit \/ Persist \/ Stop

Spec == Init /\ [][Next]_svars

\* Nothing is lost by losing power while the layer reports that all is saved.
SavedIsDurable == up /\ saved => visible = flash
=============================================================================
