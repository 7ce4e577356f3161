---------------------------- MODULE BleProfiles ----------------------------
(***************************************************************************)
(* port/ble.c: the profiles of the Bluetooth side. Several hosts may be    *)
(* connected at once; reports go to the host of the active profile, and    *)
(* the keyboard advertises while that profile waits for a host.            *)
(*                                                                         *)
(* Three threads run this code without a lock: the main loop (key codes),  *)
(* the VIA thread (menu BLUETOOTH), and the Bluetooth thread (connected,   *)
(* disconnected, auth_pairing_complete). The Bluetooth stack and the flash *)
(* make their caller wait, so each action below is the code between two    *)
(* such calls, and anything may happen in between.                         *)
(*                                                                         *)
(* The stack is external: a connection, a bond and the advertising set are *)
(* what the calls in ble.c say about them. A connection is found by its    *)
(* peer until disconnected() is called for it.                             *)
(***************************************************************************)
EXTENDS Integers, FiniteSets

CONSTANTS
  Host,           \* addresses of the hosts
  Open,           \* BT_ADDR_LE_ANY: the profile has no host
  ProfileCount,   \* BLE_PROFILE_COUNT
  User,           \* the main loop and the VIA thread
  Main

ASSUME OpenAssumption == Open \notin Host
ASSUME UserAssumption == Main \in User /\ "bt" \notin User
ASSUME CountAssumption == ProfileCount \in Nat \ {0}

Profile == 0 .. ProfileCount - 1
Peer == Host \cup {Open}
Thread == User \cup {"bt"}

VARIABLES
  profiles,         \* profiles[i].peer
  active_profile,
  adv_running,
  stored,           \* settings in the flash: ble/profiles/<n> and ble/active
  bonds,            \* the stack: hosts whose keys are stored
  conn,             \* the stack: connections
  pairing,          \* the stack: hosts whose pairing was accepted
  advertising,      \* the controller
  at,               \* where each thread is
  index,            \* the profile it works on
  want_adv,         \* ble_advertising_update has decided
  again,            \* bleProfileClearAll has a second update to do
  clean             \* history: no two threads inside at once, no failure

stackVars == <<bonds, conn, pairing, advertising>>
profileVars == <<profiles, active_profile, stored>>
threadVars == <<at, index, want_adv, again>>
vars == <<profileVars, adv_running, stackVars, threadVars, clean>>

\* In the order of the calls that make the thread wait.
Step == {"idle",
         "unpair", "forget", "save",                         \* bleProfileClear
         "each", "forget each", "save each", "unpair all",   \* bleProfileClearAll
         "save active",                                      \* bleProfileSelect
         "save bond",                                        \* auth_pairing_complete
         "update", "radio", "note"}                          \* ble_advertising_update

TypeOK ==
  /\ profiles \in [Profile -> Peer] /\ active_profile \in Profile
  /\ stored \in [profiles : [Profile -> Peer], active : Profile]
  /\ adv_running \in BOOLEAN /\ advertising \in BOOLEAN
  /\ bonds \subseteq Host /\ pairing \subseteq Host
  /\ conn \in [Host -> {"none", "up", "closing"}]
  /\ at \in [Thread -> Step]
  /\ index \in [Thread -> Profile]
  /\ want_adv \in [Thread -> BOOLEAN]
  /\ again \in [Thread -> BOOLEAN]
  /\ clean \in BOOLEAN

-----------------------------------------------------------------------------
IsOpen(i) == profiles[i] = Open
IsConnected(i) == ~IsOpen(i) /\ conn[profiles[i]] # "none"
Rest == \A t \in Thread : at[t] = "idle"

\* A step of thread t that goes on at `to'.
Goes(t, to) == at' = [at EXCEPT ![t] = to]
Alone(t) == clean' = (clean /\ \A u \in Thread \ {t} : at[u] = "idle")

\* The stack hangs up on these hosts; disconnected() follows.
HangUp(hosts) ==
  /\ conn' = [h \in Host |-> IF h \in hosts /\ conn[h] = "up" THEN "closing" ELSE conn[h]]
  /\ pairing' = pairing \ hosts

\* bt_unpair; the address that stands for no host stands for all that are bonded.
Unpair(peer) ==
  LET hosts == IF peer = Open THEN bonds ELSE {peer}
  IN bonds' = bonds \ hosts /\ HangUp(hosts)

-----------------------------------------------------------------------------
(* ble_advertising_update                                                  *)

\* Mutant: a profile that waits for its host to come back does not advertise.
WantAdvOpenOnly == IsOpen(active_profile)

WantAdv == IsOpen(active_profile) \/ ~IsConnected(active_profile)

\* Back to the caller, which may call it once more.
Return(t) ==
  /\ Goes(t, IF again[t] THEN "update" ELSE "idle")
  /\ again' = [again EXCEPT ![t] = FALSE]
  /\ want_adv' = [want_adv EXCEPT ![t] = FALSE]

Decides(t, want) ==
  /\ Goes(t, "radio")
  /\ want_adv' = [want_adv EXCEPT ![t] = want]
  /\ UNCHANGED again

Update(t) ==
  /\ at[t] = "update"
  /\ IF WantAdv = adv_running THEN Return(t) ELSE Decides(t, WantAdv)
  /\ Alone(t)
  /\ UNCHANGED <<profileVars, adv_running, stackVars, index>>

\* bt_le_adv_start or bt_le_adv_stop
Radio(t) ==
  /\ at[t] = "radio"
  /\ advertising' = want_adv[t]
  /\ Goes(t, "note")
  /\ Alone(t)
  /\ UNCHANGED <<profileVars, adv_running, bonds, conn, pairing, index, want_adv, again>>

RadioFails(t) ==
  /\ at[t] = "radio"
  /\ Return(t)
  /\ clean' = FALSE
  /\ UNCHANGED <<profileVars, adv_running, stackVars, index>>

\* adv_running = want_adv, once the call has returned.
Note(t) ==
  /\ at[t] = "note"
  /\ adv_running' = want_adv[t]
  /\ Return(t)
  /\ Alone(t)
  /\ UNCHANGED <<profileVars, stackVars, index>>

-----------------------------------------------------------------------------
(* bleProfileSelect, also under bleProfileNext and bleProfilePrev.         *)

\* Mutant: the next profile after the last one.
SelectPastEnd(t) ==
  /\ at[t] = "idle"
  /\ active_profile' \in {active_profile + 1, 0} \ {active_profile}
  /\ Goes(t, "save active")
  /\ Alone(t)
  /\ UNCHANGED <<profiles, stored, adv_running, stackVars, index, want_adv, again>>

Select(t) ==
  /\ at[t] = "idle"
  /\ active_profile' \in Profile \ {active_profile}
  /\ Goes(t, "save active")
  /\ Alone(t)
  /\ UNCHANGED <<profiles, stored, adv_running, stackVars, index, want_adv, again>>

\* Mutant: the selection is forgotten by the next start.
SaveActiveNothing(t) ==
  /\ at[t] = "save active"
  /\ Goes(t, "update")
  /\ Alone(t)
  /\ UNCHANGED <<profileVars, adv_running, stackVars, index, want_adv, again>>

\* ble_active_save writes what is active by now.
SaveActive(t) ==
  /\ at[t] = "save active"
  /\ stored' = [stored EXCEPT !.active = active_profile]
  /\ Goes(t, "update")
  /\ Alone(t)
  /\ UNCHANGED <<profiles, active_profile, adv_running, stackVars, index, want_adv, again>>

-----------------------------------------------------------------------------
(* bleProfileClear: hang up, unpair, forget, save.                         *)

Clear(t) ==
  /\ at[t] = "idle"
  /\ \E i \in Profile :
        /\ ~IsOpen(i)
        /\ index' = [index EXCEPT ![t] = i]
        /\ HangUp({profiles[i]})
  /\ Goes(t, "unpair")
  /\ Alone(t)
  /\ UNCHANGED <<profileVars, adv_running, bonds, advertising, want_adv, again>>

\* The address is read here, not when the profile was looked at.
ClearUnpair(t) ==
  /\ at[t] = "unpair"
  /\ Unpair(profiles[index[t]])
  /\ Goes(t, "forget")
  /\ Alone(t)
  /\ UNCHANGED <<profileVars, adv_running, advertising, index, want_adv, again>>

Forget(t, from, to) ==
  /\ at[t] = from
  /\ profiles' = [profiles EXCEPT ![index[t]] = Open]
  /\ Goes(t, to)
  /\ Alone(t)
  /\ UNCHANGED <<active_profile, stored, adv_running, index, want_adv, again>>

ClearForget(t) == Forget(t, "forget", "save") /\ UNCHANGED stackVars

\* The thread has no profile in hand any more.
Done(t) == index' = [index EXCEPT ![t] = 0]

\* ble_profile_save writes what the profile holds by now.
Save(t, from) ==
  /\ at[t] = from
  /\ stored' = [stored EXCEPT !.profiles[index[t]] = profiles[index[t]]]
  /\ Alone(t)
  /\ UNCHANGED <<profiles, active_profile, adv_running, stackVars, want_adv>>

SaveProfile(t) ==
  \E from \in {"save", "save bond"} :
    Save(t, from) /\ Goes(t, "update") /\ Done(t) /\ UNCHANGED again

-----------------------------------------------------------------------------
(* bleProfileClearAll: hang up and forget one after the other, unpair all, *)
(* back to profile 0.                                                      *)

ClearAll(t) ==
  /\ at[t] = "idle"
  /\ index' = [index EXCEPT ![t] = 0]
  /\ Goes(t, "each")
  /\ Alone(t)
  /\ UNCHANGED <<profileVars, adv_running, stackVars, want_adv, again>>

HangUpEach(t) ==
  /\ at[t] = "each"
  /\ HangUp({profiles[index[t]]})
  /\ Goes(t, "forget each")
  /\ Alone(t)
  /\ UNCHANGED <<profileVars, adv_running, bonds, advertising, index, want_adv, again>>

ForgetEach(t) == Forget(t, "forget each", "save each") /\ UNCHANGED stackVars

SaveEach(t) ==
  /\ Save(t, "save each")
  /\ IF index[t] + 1 \in Profile
       THEN index' = [index EXCEPT ![t] = @ + 1] /\ Goes(t, "each")
       ELSE Done(t) /\ Goes(t, "unpair all")
  /\ UNCHANGED again

\* Mutant: the profiles are forgotten, the bonds stay.
UnpairAllNone(t) ==
  /\ at[t] = "unpair all"
  /\ active_profile' = 0
  /\ Goes(t, IF active_profile = 0 THEN "update" ELSE "save active")
  /\ again' = [again EXCEPT ![t] = active_profile # 0]
  /\ Alone(t)
  /\ UNCHANGED <<profiles, stored, adv_running, stackVars, index, want_adv>>

\* bt_unpair of all, then bleProfileSelect(0), which is nothing when 0 is active.
UnpairAll(t) ==
  /\ at[t] = "unpair all"
  /\ Unpair(Open)
  /\ active_profile' = 0
  /\ Goes(t, IF active_profile = 0 THEN "update" ELSE "save active")
  /\ again' = [again EXCEPT ![t] = active_profile # 0]
  /\ Alone(t)
  /\ UNCHANGED <<profiles, stored, adv_running, advertising, index, want_adv>>

-----------------------------------------------------------------------------
(* The Bluetooth thread.                                                   *)

Callback == at["bt"] = "idle"

\* connected: the controller has stopped advertising.
Connected ==
  /\ Callback /\ advertising
  /\ \E h \in Host : conn[h] = "none" /\ conn' = [conn EXCEPT ![h] = "up"]
  /\ advertising' = FALSE
  /\ adv_running' = FALSE
  /\ Goes("bt", "update")
  /\ Alone("bt")
  /\ UNCHANGED <<profileVars, bonds, pairing, index, want_adv, again>>

\* disconnected
Disconnected ==
  /\ Callback
  /\ \E h \in Host :
        /\ conn[h] # "none"
        /\ conn' = [conn EXCEPT ![h] = "none"]
        /\ pairing' = pairing \ {h}
  /\ Goes("bt", "update")
  /\ Alone("bt")
  /\ UNCHANGED <<profileVars, adv_running, bonds, advertising, index, want_adv, again>>

PairingAllowed(h) == profiles[active_profile] \in {Open, h}

\* auth_pairing_accept
PairingAccept ==
  /\ Callback
  /\ \E h \in Host :
        conn[h] = "up" /\ PairingAllowed(h) /\ pairing' = pairing \cup {h}
  /\ Alone("bt")
  /\ UNCHANGED <<profileVars, adv_running, bonds, conn, advertising, threadVars>>

\* Mutant: what was accepted is not looked at again.
PairingCompleteTrusted ==
  /\ Callback
  /\ \E h \in pairing :
        /\ conn[h] = "up"
        /\ bonds' = bonds \cup {h}
        /\ pairing' = pairing \ {h}
        /\ profiles' = [profiles EXCEPT ![active_profile] = h]
        /\ UNCHANGED conn
  /\ index' = [index EXCEPT !["bt"] = active_profile]
  /\ Goes("bt", "save bond")
  /\ Alone("bt")
  /\ UNCHANGED <<active_profile, stored, adv_running, advertising, want_adv, again>>

\* auth_pairing_complete: the stack has stored the bond. The active profile may
\* have changed since it was accepted.
PairingComplete ==
  /\ Callback
  /\ \E h \in pairing :
        /\ conn[h] = "up"
        /\ \/ /\ PairingAllowed(h)
              /\ pairing' = pairing \ {h}
              /\ bonds' = bonds \cup {h}
              /\ profiles' = [profiles EXCEPT ![active_profile] = h]
              /\ index' = [index EXCEPT !["bt"] = active_profile]
              /\ Goes("bt", "save bond")
              /\ UNCHANGED conn
           \/ /\ ~PairingAllowed(h)
              /\ bonds' = bonds \ {h}
              /\ HangUp({h})
              /\ UNCHANGED <<profiles, index, at>>
  /\ Alone("bt")
  /\ UNCHANGED <<active_profile, stored, adv_running, advertising, want_adv, again>>

-----------------------------------------------------------------------------
\* bleInit: settings_load has read the flash, then the first update.
Init ==
  /\ profiles = [i \in Profile |-> Open] /\ active_profile = 0
  /\ stored = [profiles |-> profiles, active |-> 0]
  /\ adv_running = FALSE /\ advertising = FALSE
  /\ bonds = {} /\ conn = [h \in Host |-> "none"] /\ pairing = {}
  /\ at = [t \in Thread |-> IF t = Main THEN "update" ELSE "idle"]
  /\ index = [t \in Thread |-> 0]
  /\ want_adv = [t \in Thread |-> FALSE] /\ again = [t \in Thread |-> FALSE]
  /\ clean = TRUE

\* A loss of power or a System OFF, and bleInit.
Restart ==
  /\ profiles' = stored.profiles /\ active_profile' = stored.active
  /\ adv_running' = FALSE /\ advertising' = FALSE
  /\ conn' = [h \in Host |-> "none"] /\ pairing' = {}
  /\ at' = [t \in Thread |-> IF t = Main THEN "update" ELSE "idle"]
  /\ index' = [t \in Thread |-> 0]
  /\ want_adv' = [t \in Thread |-> FALSE] /\ again' = [t \in Thread |-> FALSE]
  /\ clean' = (clean /\ Rest)
  /\ UNCHANGED <<stored, bonds>>

Operation(t) ==
  \/ Select(t)
  \/ Clear(t) \/ ClearUnpair(t) \/ ClearForget(t)
  \/ ClearAll(t) \/ HangUpEach(t) \/ ForgetEach(t) \/ SaveEach(t) \/ UnpairAll(t)

Shared(t) ==
  \/ SaveActive(t) \/ SaveProfile(t)
  \/ Update(t) \/ Radio(t) \/ RadioFails(t) \/ Note(t)

Bluetooth == Connected \/ Disconnected \/ PairingAccept \/ PairingComplete

Next ==
  \/ \E t \in User : Operation(t)
  \/ \E t \in Thread : Shared(t)
  \/ Bluetooth
  \/ Restart

Spec == Init /\ [][Next]_vars

-----------------------------------------------------------------------------
\* A profile that has a host loses it only to a clear: no other host takes it
\* over, although the active profile may change while a pairing is under way
\* (ble_pairing_allowed, asked again in auth_pairing_complete).
SlotKept ==
  [][~Restart =>
       \A i \in Profile : profiles[i] # Open => profiles'[i] \in {profiles[i], Open}]_vars

\* Whenever no operation is under way the flash holds the profiles and the
\* selection of this moment, whatever the threads did to each other before: a
\* restart brings them back (ble_profile_save, ble_active_save).
SavedAtRest == Rest => stored = [profiles |-> profiles, active |-> active_profile]

\* Why: what is not saved yet is about to be saved by somebody.
PendingSaves ==
  /\ stored.active # active_profile => \E t \in Thread : at[t] = "save active"
  /\ \A i \in Profile :
        stored.profiles[i] # profiles[i] =>
          \E t \in Thread : index[t] = i /\ at[t] \in {"save", "save each", "save bond"}

\* The keyboard advertises exactly while the active profile has no host
\* connected: it can always be reached, and the radio is off when nobody needs it
\* (ble_advertising_update; the flag adv_running never gets out of step).
AdvertisesAtRest ==
  clean /\ Rest =>
    /\ adv_running = advertising
    /\ advertising <=> \A h \in Host : profiles[active_profile] = h => conn[h] = "none"

\* No bond is left that no profile knows: such a host could never be cleared and
\* would fail to pair again (the comment in bleProfileClearAll).
NoOrphanBond == clean /\ Rest => bonds \subseteq {profiles[i] : i \in Profile}
=============================================================================
