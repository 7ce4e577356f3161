------------------------- MODULE BleProfiles_proofs -------------------------
(***************************************************************************)
(* What ble.c guarantees for every number of hosts and profiles although   *)
(* three threads run it without a lock: a profile is never taken over, and *)
(* nothing that has to be saved stays unsaved. PendingSaves, next to       *)
(* TypeOK, is the inductive invariant: whatever a thread changes before it *)
(* waits for the flash, it saves afterwards as it is by then. CleanInv is   *)
(* the invariant of the histories in which the threads never overlap.      *)
(***************************************************************************)
EXTENDS BleProfiles, TLAPS

LEMMA ProfileZero == 0 \in Profile
BY CountAssumption DEF Profile

-----------------------------------------------------------------------------
(* The types. A local variable of a thread changes in its place only.      *)

LEMMA GoesType ==
  ASSUME TypeOK, NEW t \in Thread, NEW to \in Step, Goes(t, to)
  PROVE  at' \in [Thread -> Step]
BY DEF TypeOK, Goes

LEMMA ReturnType ==
  ASSUME TypeOK, NEW t \in Thread, Return(t)
  PROVE  /\ at' \in [Thread -> Step]
         /\ want_adv' \in [Thread -> BOOLEAN]
         /\ again' \in [Thread -> BOOLEAN]
<1>1. at' \in [Thread -> Step]
  <2>1. "update" \in Step /\ "idle" \in Step
    BY DEF Step
  <2>2. CASE again[t]
    BY <2>1, <2>2, GoesType DEF Return
  <2>3. CASE ~again[t]
    BY <2>1, <2>3, GoesType DEF Return
  <2> QED
    BY <2>2, <2>3
<1>2. want_adv' \in [Thread -> BOOLEAN] /\ again' \in [Thread -> BOOLEAN]
  BY DEF Return, TypeOK
<1> QED
  BY <1>1, <1>2

LEMMA HangUpType ==
  ASSUME TypeOK, NEW hosts, HangUp(hosts)
  PROVE  conn' \in [Host -> {"none", "up", "closing"}] /\ pairing' \subseteq Host
BY DEF TypeOK, HangUp

LEMMA AloneType ==
  ASSUME TypeOK, NEW t, Alone(t)
  PROVE  clean' \in BOOLEAN
BY DEF TypeOK, Alone

\* The stored settings change in one place.
LEMMA SaveType ==
  ASSUME TypeOK, NEW t \in Thread, NEW from, Save(t, from)
  PROVE  stored' \in [profiles : [Profile -> Peer], active : Profile]
BY DEF TypeOK, Save

LEMMA InitType == Init => TypeOK
<1> SUFFICES ASSUME Init PROVE TypeOK
  OBVIOUS
<1>1. "update" \in Step /\ "idle" \in Step
  BY DEF Step
<1>2. profiles \in [Profile -> Peer] /\ active_profile \in Profile
  BY ProfileZero DEF Init, Peer
<1>3. stored \in [profiles : [Profile -> Peer], active : Profile]
  BY <1>2, ProfileZero DEF Init
<1>4. at \in [Thread -> Step] /\ index \in [Thread -> Profile]
  BY <1>1, ProfileZero DEF Init
<1> QED
  BY <1>2, <1>3, <1>4 DEF Init, TypeOK

LEMMA OperationType ==
  ASSUME TypeOK, NEW t \in User, Operation(t)
  PROVE  TypeOK'
<1> t \in Thread
  BY DEF Thread
<1> USE DEF profileVars, stackVars
<1>1. CASE Select(t)
  <2>1. at' \in [Thread -> Step]
    BY <1>1, GoesType DEF Select, Step
  <2>2. clean' \in BOOLEAN
    BY <1>1, AloneType DEF Select
  <2> QED
    BY <1>1, <2>1, <2>2 DEF Select, TypeOK
<1>2. CASE Clear(t)
  <2>1. at' \in [Thread -> Step]
    BY <1>2, GoesType DEF Clear, Step
  <2>2. clean' \in BOOLEAN
    BY <1>2, AloneType DEF Clear
  <2>3. conn' \in [Host -> {"none", "up", "closing"}] /\ pairing' \subseteq Host
    BY <1>2, HangUpType DEF Clear
  <2> QED
    BY <1>2, <2>1, <2>2, <2>3 DEF Clear, TypeOK
<1>3. CASE ClearUnpair(t)
  <2>1. at' \in [Thread -> Step]
    BY <1>3, GoesType DEF ClearUnpair, Step
  <2>2. clean' \in BOOLEAN
    BY <1>3, AloneType DEF ClearUnpair
  <2>3. conn' \in [Host -> {"none", "up", "closing"}] /\ pairing' \subseteq Host
    BY <1>3, HangUpType DEF ClearUnpair, Unpair
  <2>4. bonds' \subseteq Host
    BY <1>3 DEF ClearUnpair, Unpair, TypeOK
  <2> QED
    BY <1>3, <2>1, <2>2, <2>3, <2>4 DEF ClearUnpair, TypeOK
<1>4. CASE ClearForget(t)
  <2>1. at' \in [Thread -> Step]
    BY <1>4, GoesType DEF ClearForget, Forget, Step
  <2>2. clean' \in BOOLEAN
    BY <1>4, AloneType DEF ClearForget, Forget
  <2>3. profiles' \in [Profile -> Peer]
    BY <1>4 DEF ClearForget, Forget, TypeOK, Peer
  <2> QED
    BY <1>4, <2>1, <2>2, <2>3 DEF ClearForget, Forget, TypeOK
<1>5. CASE ClearAll(t)
  <2>1. at' \in [Thread -> Step]
    BY <1>5, GoesType DEF ClearAll, Step
  <2>2. clean' \in BOOLEAN
    BY <1>5, AloneType DEF ClearAll
  <2>3. index' \in [Thread -> Profile]
    BY <1>5, ProfileZero DEF ClearAll, TypeOK
  <2> QED
    BY <1>5, <2>1, <2>2, <2>3 DEF ClearAll, TypeOK
<1>6. CASE HangUpEach(t)
  <2>1. at' \in [Thread -> Step]
    BY <1>6, GoesType DEF HangUpEach, Step
  <2>2. clean' \in BOOLEAN
    BY <1>6, AloneType DEF HangUpEach
  <2>3. conn' \in [Host -> {"none", "up", "closing"}] /\ pairing' \subseteq Host
    BY <1>6, HangUpType DEF HangUpEach
  <2> QED
    BY <1>6, <2>1, <2>2, <2>3 DEF HangUpEach, TypeOK
<1>7. CASE ForgetEach(t)
  <2>1. at' \in [Thread -> Step]
    BY <1>7, GoesType DEF ForgetEach, Forget, Step
  <2>2. clean' \in BOOLEAN
    BY <1>7, AloneType DEF ForgetEach, Forget
  <2>3. profiles' \in [Profile -> Peer]
    BY <1>7 DEF ForgetEach, Forget, TypeOK, Peer
  <2> QED
    BY <1>7, <2>1, <2>2, <2>3 DEF ForgetEach, Forget, TypeOK
<1>8. CASE SaveEach(t)
  <2>1. stored' \in [profiles : [Profile -> Peer], active : Profile]
    BY <1>8, SaveType DEF SaveEach
  <2>2. at' \in [Thread -> Step] /\ index' \in [Thread -> Profile]
    <3>1. CASE index[t] + 1 \in Profile
      <4>1. Goes(t, "each") /\ index' = [index EXCEPT ![t] = @ + 1]
        BY <1>8, <3>1 DEF SaveEach
      <4> QED
        BY <4>1, <3>1, GoesType DEF Step, TypeOK
    <3>2. CASE index[t] + 1 \notin Profile
      <4>1. Goes(t, "unpair all") /\ index' = [index EXCEPT ![t] = 0]
        BY <1>8, <3>2 DEF SaveEach, Done
      <4> QED
        BY <4>1, ProfileZero, GoesType DEF Step, TypeOK
    <3> QED
      BY <3>1, <3>2
  <2>3. clean' \in BOOLEAN
    BY <1>8, AloneType DEF SaveEach, Save
  <2> QED
    BY <1>8, <2>1, <2>2, <2>3 DEF SaveEach, Save, TypeOK
<1>9. CASE UnpairAll(t)
  <2>1. at' \in [Thread -> Step]
    <3>1. CASE active_profile = 0
      BY <1>9, <3>1, GoesType DEF UnpairAll, Step
    <3>2. CASE active_profile # 0
      BY <1>9, <3>2, GoesType DEF UnpairAll, Step
    <3> QED
      BY <3>1, <3>2
  <2>2. clean' \in BOOLEAN
    BY <1>9, AloneType DEF UnpairAll
  <2>3. conn' \in [Host -> {"none", "up", "closing"}] /\ pairing' \subseteq Host
    BY <1>9, HangUpType DEF UnpairAll, Unpair
  <2>4. bonds' \subseteq Host
    BY <1>9 DEF UnpairAll, Unpair, TypeOK
  <2>5. again' \in [Thread -> BOOLEAN]
    BY <1>9 DEF UnpairAll, TypeOK
  <2>6. active_profile' \in Profile
    BY <1>9, ProfileZero DEF UnpairAll
  <2>7. UNCHANGED <<profiles, stored, adv_running, advertising, index, want_adv>>
    BY <1>9 DEF UnpairAll
  <2> QED
    BY <2>1, <2>2, <2>3, <2>4, <2>5, <2>6, <2>7 DEF TypeOK
<1> QED
  BY <1>1, <1>2, <1>3, <1>4, <1>5, <1>6, <1>7, <1>8, <1>9 DEF Operation

LEMMA SharedType ==
  ASSUME TypeOK, NEW t \in Thread, Shared(t)
  PROVE  TypeOK'
<1> USE DEF profileVars, stackVars
<1>1. CASE SaveActive(t)
  <2>1. at' \in [Thread -> Step]
    BY <1>1, GoesType DEF SaveActive, Step
  <2>2. clean' \in BOOLEAN
    BY <1>1, AloneType DEF SaveActive
  <2>3. stored' \in [profiles : [Profile -> Peer], active : Profile]
    BY <1>1 DEF SaveActive, TypeOK
  <2> QED
    BY <1>1, <2>1, <2>2, <2>3 DEF SaveActive, TypeOK
<1>2. CASE SaveProfile(t)
  <2> PICK from \in {"save", "save bond"} :
        Save(t, from) /\ Goes(t, "update") /\ Done(t) /\ UNCHANGED again
    BY <1>2 DEF SaveProfile
  <2>1. stored' \in [profiles : [Profile -> Peer], active : Profile]
    BY SaveType
  <2>2. at' \in [Thread -> Step]
    BY GoesType DEF Step
  <2>3. index' \in [Thread -> Profile]
    BY ProfileZero DEF Done, TypeOK
  <2>4. clean' \in BOOLEAN
    BY AloneType DEF Save
  <2> QED
    BY <2>1, <2>2, <2>3, <2>4 DEF Save, TypeOK
<1>3. CASE Update(t)
  <2>1. clean' \in BOOLEAN
    BY <1>3, AloneType DEF Update
  <2>2. /\ at' \in [Thread -> Step]
        /\ want_adv' \in [Thread -> BOOLEAN]
        /\ again' \in [Thread -> BOOLEAN]
    <3>1. CASE WantAdv = adv_running
      BY <1>3, <3>1, ReturnType DEF Update
    <3>2. CASE WantAdv # adv_running
      <4>1. Decides(t, WantAdv)
        BY <1>3, <3>2 DEF Update
      <4>2. WantAdv \in BOOLEAN
        BY DEF WantAdv, IsOpen
      <4>3. at' \in [Thread -> Step]
        BY <4>1, GoesType DEF Decides, Step
      <4> QED
        BY <4>1, <4>2, <4>3 DEF Decides, TypeOK
    <3> QED
      BY <3>1, <3>2
  <2>3. UNCHANGED <<profiles, active_profile, stored, adv_running, bonds, conn, pairing,
                    advertising, index>>
    BY <1>3 DEF Update
  <2> QED
    BY <2>1, <2>2, <2>3 DEF TypeOK
<1>4. CASE Radio(t)
  <2>1. at' \in [Thread -> Step]
    BY <1>4, GoesType DEF Radio, Step
  <2>2. clean' \in BOOLEAN
    BY <1>4, AloneType DEF Radio
  <2>3. advertising' \in BOOLEAN
    BY <1>4 DEF Radio, TypeOK
  <2> QED
    BY <1>4, <2>1, <2>2, <2>3 DEF Radio, TypeOK
<1>5. CASE RadioFails(t)
  <2>1. /\ at' \in [Thread -> Step]
        /\ want_adv' \in [Thread -> BOOLEAN]
        /\ again' \in [Thread -> BOOLEAN]
    BY <1>5, ReturnType DEF RadioFails
  <2> QED
    BY <1>5, <2>1 DEF RadioFails, TypeOK
<1>6. CASE Note(t)
  <2>1. /\ at' \in [Thread -> Step]
        /\ want_adv' \in [Thread -> BOOLEAN]
        /\ again' \in [Thread -> BOOLEAN]
    BY <1>6, ReturnType DEF Note
  <2>2. clean' \in BOOLEAN
    BY <1>6, AloneType DEF Note
  <2>3. adv_running' \in BOOLEAN
    BY <1>6 DEF Note, TypeOK
  <2>4. UNCHANGED <<profiles, active_profile, stored, bonds, conn, pairing, advertising,
                    index>>
    BY <1>6 DEF Note
  <2> QED
    BY <2>1, <2>2, <2>3, <2>4 DEF TypeOK
<1> QED
  BY <1>1, <1>2, <1>3, <1>4, <1>5, <1>6 DEF Shared

LEMMA BluetoothType ==
  ASSUME TypeOK, Bluetooth
  PROVE  TypeOK'
<1> "bt" \in Thread
  BY DEF Thread
<1> USE DEF profileVars, stackVars, threadVars
<1>1. CASE Connected
  <2>1. at' \in [Thread -> Step]
    BY <1>1, GoesType DEF Connected, Step
  <2>2. clean' \in BOOLEAN
    BY <1>1, AloneType DEF Connected
  <2>3. conn' \in [Host -> {"none", "up", "closing"}]
    BY <1>1 DEF Connected, TypeOK
  <2> QED
    BY <1>1, <2>1, <2>2, <2>3 DEF Connected, TypeOK
<1>2. CASE Disconnected
  <2>1. at' \in [Thread -> Step]
    BY <1>2, GoesType DEF Disconnected, Step
  <2>2. clean' \in BOOLEAN
    BY <1>2, AloneType DEF Disconnected
  <2>3. conn' \in [Host -> {"none", "up", "closing"}] /\ pairing' \subseteq Host
    BY <1>2 DEF Disconnected, TypeOK
  <2> QED
    BY <1>2, <2>1, <2>2, <2>3 DEF Disconnected, TypeOK
<1>3. CASE PairingAccept
  <2>1. clean' \in BOOLEAN
    BY <1>3, AloneType DEF PairingAccept
  <2>2. pairing' \subseteq Host
    BY <1>3 DEF PairingAccept, TypeOK
  <2> QED
    BY <1>3, <2>1, <2>2 DEF PairingAccept, TypeOK
<1>4. CASE PairingComplete
  <2>1. clean' \in BOOLEAN
    BY <1>4, AloneType DEF PairingComplete
  <2>2. PICK h \in pairing :
          \/ /\ pairing' = pairing \ {h}
             /\ bonds' = bonds \cup {h}
             /\ profiles' = [profiles EXCEPT ![active_profile] = h]
             /\ index' = [index EXCEPT !["bt"] = active_profile]
             /\ Goes("bt", "save bond")
             /\ UNCHANGED conn
          \/ /\ bonds' = bonds \ {h}
             /\ HangUp({h})
             /\ UNCHANGED <<profiles, index, at>>
    BY <1>4 DEF PairingComplete
  <2>3. h \in Host
    BY <2>2 DEF TypeOK
  <2>4. UNCHANGED <<active_profile, stored, adv_running, advertising, want_adv, again>>
    BY <1>4 DEF PairingComplete
  <2>5. CASE Goes("bt", "save bond") /\ UNCHANGED conn /\ pairing' = pairing \ {h}
             /\ bonds' = bonds \cup {h}
             /\ profiles' = [profiles EXCEPT ![active_profile] = h]
             /\ index' = [index EXCEPT !["bt"] = active_profile]
    <3>1. at' \in [Thread -> Step]
      BY <2>5, GoesType DEF Step
    <3>2. /\ profiles' \in [Profile -> Peer]
          /\ index' \in [Thread -> Profile]
          /\ bonds' \subseteq Host
          /\ pairing' \subseteq Host
      BY <2>3, <2>5 DEF TypeOK, Peer
    <3> QED
      BY <2>1, <2>4, <2>5, <3>1, <3>2 DEF TypeOK
  <2>6. CASE bonds' = bonds \ {h} /\ HangUp({h}) /\ UNCHANGED <<profiles, index, at>>
    <3>1. conn' \in [Host -> {"none", "up", "closing"}] /\ pairing' \subseteq Host
      BY <2>6, HangUpType
    <3> QED
      BY <2>1, <2>4, <2>6, <3>1 DEF TypeOK
  <2> QED
    BY <2>2, <2>5, <2>6
<1> QED
  BY <1>1, <1>2, <1>3, <1>4 DEF Bluetooth

LEMMA RestartType == TypeOK /\ Restart => TypeOK'
<1> SUFFICES ASSUME TypeOK, Restart PROVE TypeOK'
  OBVIOUS
<1>1. "update" \in Step /\ "idle" \in Step
  BY DEF Step
<1>2. profiles' \in [Profile -> Peer] /\ active_profile' \in Profile
  BY DEF Restart, TypeOK
<1>3. at' \in [Thread -> Step] /\ index' \in [Thread -> Profile]
  BY <1>1, ProfileZero DEF Restart
<1>4. clean' \in BOOLEAN
  BY DEF Restart, TypeOK, Rest
<1> QED
  BY <1>2, <1>3, <1>4 DEF Restart, TypeOK

LEMMA NextType == TypeOK /\ [Next]_vars => TypeOK'
<1> SUFFICES ASSUME TypeOK, [Next]_vars PROVE TypeOK'
  OBVIOUS
<1>1. CASE UNCHANGED vars
  BY <1>1 DEF TypeOK, vars, profileVars, stackVars, threadVars
<1> QED
  BY <1>1, OperationType, SharedType, BluetoothType, RestartType DEF Next

\* The variables of the profiles, the threads and the stack keep their types.
THEOREM TypeCorrect == Spec => []TypeOK
BY InitType, NextType, PTL DEF Spec

-----------------------------------------------------------------------------
(* No profile is taken over. The peers change at three places: two forget, *)
(* and a pairing that is complete takes an open profile or its own.        *)

LEMMA ForgetKeeps ==
  ASSUME TypeOK, NEW t \in Thread, NEW from, NEW to, Forget(t, from, to),
         NEW i \in Profile
  PROVE  profiles'[i] \in {profiles[i], Open}
BY DEF Forget, TypeOK

LEMMA PairingKeeps ==
  ASSUME TypeOK, PairingComplete, NEW i \in Profile, profiles[i] # Open
  PROVE  profiles'[i] \in {profiles[i], Open}
BY DEF PairingComplete, PairingAllowed, TypeOK

LEMMA NextKeepsSlots ==
  ASSUME TypeOK, Next, ~Restart, NEW i \in Profile, profiles[i] # Open
  PROVE  profiles'[i] \in {profiles[i], Open}
<1> USE DEF profileVars
<1>1. CASE \E t \in User : Operation(t)
  <2> PICK t \in User : Operation(t)
    BY <1>1
  <2> t \in Thread
    BY DEF Thread
  <2>1. CASE ClearForget(t) \/ ForgetEach(t)
    BY <2>1, ForgetKeeps DEF ClearForget, ForgetEach
  <2>2. CASE profiles' = profiles
    BY <2>2
  <2> QED
    BY <2>1, <2>2
    DEF Operation, Select, Clear, ClearUnpair, ClearAll, HangUpEach, SaveEach, Save,
        UnpairAll
<1>2. CASE \E t \in Thread : Shared(t)
  BY <1>2 DEF Shared, SaveActive, SaveProfile, Save, Update, Radio, RadioFails, Note
<1>3. CASE Bluetooth
  <2>1. CASE PairingComplete
    BY <2>1, PairingKeeps
  <2> QED
    BY <1>3, <2>1 DEF Bluetooth, Connected, Disconnected, PairingAccept
<1> QED
  BY <1>1, <1>2, <1>3 DEF Next

\* A host keeps its profile until it is cleared, whatever pairs meanwhile and
\* whichever profile is selected between the two questions of a pairing.
THEOREM ProfilesAreKept == Spec => SlotKept
<1>1. TypeOK /\ [Next]_vars
        => [~Restart => \A i \in Profile :
              profiles[i] # Open => profiles'[i] \in {profiles[i], Open}]_vars
  BY NextKeepsSlots DEF vars, profileVars
<1> QED
  BY <1>1, TypeCorrect, PTL DEF Spec, SlotKept

-----------------------------------------------------------------------------
(* What has to be saved is saved. Whoever changes a profile or the selection *)
(* comes to a save of it, and the save takes what is there by then, so it    *)
(* also answers for what the others have changed in between.                 *)

Saving == {"save", "save each", "save bond"}
Others(t) == \A u \in Thread \ {t} : at'[u] = at[u] /\ index'[u] = index[u]

\* A step that is no save and changes nothing that is saved.
LEMMA QuietStep ==
  ASSUME TypeOK, PendingSaves, NEW t \in Thread, Others(t),
         profiles' = profiles, active_profile' = active_profile, stored' = stored,
         at[t] \notin Saving \cup {"save active"}
  PROVE  PendingSaves'
<1>1. stored'.active # active_profile' => \E u \in Thread : at'[u] = "save active"
  BY DEF PendingSaves, Others
<1>2. ASSUME NEW i \in Profile, stored'.profiles[i] # profiles'[i]
      PROVE  \E u \in Thread : index'[u] = i /\ at'[u] \in {"save", "save each", "save bond"}
  <2> PICK u \in Thread : index[u] = i /\ at[u] \in {"save", "save each", "save bond"}
    BY <1>2 DEF PendingSaves
  <2> u # t
    BY DEF Saving
  <2> QED
    BY DEF Others
<1> QED
  BY <1>1, <1>2 DEF PendingSaves

\* A step that selects a profile and comes to the save of the selection.
LEMMA SelectStep ==
  ASSUME TypeOK, PendingSaves, NEW t \in Thread, Others(t),
         profiles' = profiles, stored' = stored,
         at[t] \notin Saving \cup {"save active"}, at'[t] = "save active"
  PROVE  PendingSaves'
<1>1. ASSUME NEW i \in Profile, stored'.profiles[i] # profiles'[i]
      PROVE  \E u \in Thread : index'[u] = i /\ at'[u] \in {"save", "save each", "save bond"}
  <2> PICK u \in Thread : index[u] = i /\ at[u] \in {"save", "save each", "save bond"}
    BY <1>1 DEF PendingSaves
  <2> u # t
    BY DEF Saving
  <2> QED
    BY DEF Others
<1> QED
  BY <1>1 DEF PendingSaves

\* A step that changes profile j and comes to the save of it.
LEMMA ChangeStep ==
  ASSUME TypeOK, PendingSaves, NEW t \in Thread, Others(t), NEW j \in Profile,
         \A i \in Profile \ {j} : profiles'[i] = profiles[i],
         active_profile' = active_profile, stored' = stored,
         at[t] \notin Saving \cup {"save active"}, at'[t] \in Saving, index'[t] = j
  PROVE  PendingSaves'
<1>1. stored'.active # active_profile' => \E u \in Thread : at'[u] = "save active"
  BY DEF PendingSaves, Others
<1>2. ASSUME NEW i \in Profile, stored'.profiles[i] # profiles'[i]
      PROVE  \E u \in Thread : index'[u] = i /\ at'[u] \in {"save", "save each", "save bond"}
  <2>1. CASE i = j
    BY <2>1 DEF Saving
  <2>2. CASE i # j
    <3> PICK u \in Thread : index[u] = i /\ at[u] \in {"save", "save each", "save bond"}
      BY <1>2, <2>2 DEF PendingSaves
    <3> u # t
      BY DEF Saving
    <3> QED
      BY DEF Others
  <2> QED
    BY <2>1, <2>2
<1> QED
  BY <1>1, <1>2 DEF PendingSaves

\* The save of profile index[t].
LEMMA SaveStep ==
  ASSUME TypeOK, PendingSaves, NEW t \in Thread, NEW from \in Saving, Save(t, from), Others(t)
  PROVE  PendingSaves'
<1>1. /\ profiles' = profiles /\ active_profile' = active_profile
      /\ stored'.active = stored.active
      /\ stored'.profiles = [stored.profiles EXCEPT ![index[t]] = profiles[index[t]]]
  BY DEF Save, TypeOK
<1>2. stored'.active # active_profile' => \E u \in Thread : at'[u] = "save active"
  BY <1>1 DEF PendingSaves, Others, Save, Saving
<1>3. ASSUME NEW i \in Profile, stored'.profiles[i] # profiles'[i]
      PROVE  \E u \in Thread : index'[u] = i /\ at'[u] \in {"save", "save each", "save bond"}
  <2>1. stored.profiles[i] # profiles[i] /\ i # index[t]
    BY <1>1, <1>3 DEF TypeOK
  <2> PICK u \in Thread : index[u] = i /\ at[u] \in {"save", "save each", "save bond"}
    BY <2>1 DEF PendingSaves
  <2> QED
    BY <2>1 DEF Others
<1> QED
  BY <1>2, <1>3 DEF PendingSaves

\* The save of the selection.
LEMMA SaveActiveStep ==
  ASSUME TypeOK, PendingSaves, NEW t \in Thread, SaveActive(t), Others(t)
  PROVE  PendingSaves'
<1>1. /\ profiles' = profiles /\ active_profile' = active_profile
      /\ stored'.active = active_profile
      /\ stored'.profiles = stored.profiles
  <2>1. stored' = [stored EXCEPT !.active = active_profile]
    BY DEF SaveActive
  <2>2. stored' = [profiles |-> stored.profiles, active |-> active_profile]
    BY <2>1, Zenon DEF TypeOK
  <2>3. profiles' = profiles /\ active_profile' = active_profile
    BY DEF SaveActive
  <2> QED
    BY <2>2, <2>3
<1>2. ASSUME NEW i \in Profile, stored'.profiles[i] # profiles'[i]
      PROVE  \E u \in Thread : index'[u] = i /\ at'[u] \in {"save", "save each", "save bond"}
  <2>1. stored.profiles[i] # profiles[i]
    BY <1>1, <1>2, Zenon
  <2> PICK u \in Thread : index[u] = i /\ at[u] \in {"save", "save each", "save bond"}
    BY <2>1 DEF PendingSaves
  <2> u # t
    BY DEF SaveActive
  <2> QED
    BY DEF Others
<1> QED
  BY <1>1, <1>2 DEF PendingSaves

LEMMA GoesAlone ==
  ASSUME TypeOK, NEW t \in Thread, NEW to, Goes(t, to), index' = index
  PROVE  Others(t) /\ at'[t] = to
BY DEF TypeOK, Goes, Others

\* A thread that takes another profile in hand.
LEMMA GoesOn ==
  ASSUME TypeOK, NEW t \in Thread, NEW to, Goes(t, to), NEW j,
         index' = [index EXCEPT ![t] = j]
  PROVE  Others(t) /\ at'[t] = to /\ index'[t] = j
BY DEF TypeOK, Goes, Others

LEMMA ForgetPending ==
  ASSUME TypeOK, PendingSaves, NEW t \in Thread, NEW from, NEW to \in Saving,
         from \notin Saving \cup {"save active"}, Forget(t, from, to)
  PROVE  PendingSaves'
<1>1. index' = index /\ Goes(t, to) /\ at[t] = from
  BY DEF Forget
<1>2. Others(t) /\ at'[t] = to
  BY <1>1, GoesAlone
<1>3. index[t] \in Profile /\ index'[t] = index[t]
  BY <1>1 DEF TypeOK
<1>4. \A i \in Profile \ {index[t]} : profiles'[i] = profiles[i]
  BY DEF Forget, TypeOK
<1>5. active_profile' = active_profile /\ stored' = stored
  BY DEF Forget
<1> QED
  BY <1>1, <1>2, <1>3, <1>4, <1>5, ChangeStep

LEMMA OperationPending ==
  ASSUME TypeOK, PendingSaves, NEW t \in User, Operation(t)
  PROVE  PendingSaves'
<1> t \in Thread
  BY DEF Thread
<1>1. CASE Select(t)
  <2>1. Others(t) /\ at'[t] = "save active"
    BY <1>1, GoesAlone DEF Select
  <2> QED
    BY <1>1, <2>1, SelectStep DEF Select, Saving
<1>2. CASE Clear(t)
  <2>1. Others(t)
    BY <1>2 DEF Clear, Goes, Others, TypeOK
  <2>2. at[t] = "idle" /\ UNCHANGED <<profiles, active_profile, stored>>
    BY <1>2 DEF Clear, profileVars
  <2> QED
    BY <2>1, <2>2, QuietStep DEF Saving
<1>3. CASE ClearUnpair(t)
  <2>1. Others(t)
    BY <1>3, GoesAlone DEF ClearUnpair
  <2>2. at[t] = "unpair" /\ UNCHANGED <<profiles, active_profile, stored>>
    BY <1>3 DEF ClearUnpair, profileVars
  <2> QED
    BY <2>1, <2>2, QuietStep DEF Saving
<1>4. CASE ClearForget(t)
  BY <1>4, ForgetPending DEF ClearForget, Saving
<1>5. CASE ClearAll(t)
  <2>1. Others(t)
    BY <1>5, GoesOn DEF ClearAll
  <2>2. at[t] = "idle" /\ UNCHANGED <<profiles, active_profile, stored>>
    BY <1>5 DEF ClearAll, profileVars
  <2> QED
    BY <2>1, <2>2, QuietStep DEF Saving
<1>6. CASE HangUpEach(t)
  <2>1. Others(t)
    BY <1>6, GoesAlone DEF HangUpEach
  <2>2. at[t] = "each" /\ UNCHANGED <<profiles, active_profile, stored>>
    BY <1>6 DEF HangUpEach, profileVars
  <2> QED
    BY <2>1, <2>2, QuietStep DEF Saving
<1>7. CASE ForgetEach(t)
  BY <1>7, ForgetPending DEF ForgetEach, Saving
<1>8. CASE SaveEach(t)
  <2>1. Others(t)
    BY <1>8 DEF SaveEach, Goes, Done, Others, TypeOK
  <2> QED
    BY <1>8, <2>1, SaveStep DEF SaveEach, Saving
<1>9. CASE UnpairAll(t)
  <2>1. at[t] = "unpair all" /\ UNCHANGED <<profiles, stored, index>> /\ active_profile' = 0
    BY <1>9 DEF UnpairAll
  <2>2. CASE active_profile = 0
    <3>1. Others(t)
      BY <1>9, <2>1, <2>2, GoesAlone DEF UnpairAll
    <3> QED
      BY <2>1, <2>2, <3>1, QuietStep DEF Saving
  <2>3. CASE active_profile # 0
    <3>1. Others(t) /\ at'[t] = "save active"
      BY <1>9, <2>1, <2>3, GoesAlone DEF UnpairAll
    <3> QED
      BY <2>1, <3>1, SelectStep DEF Saving
  <2> QED
    BY <2>2, <2>3
<1> QED
  BY <1>1, <1>2, <1>3, <1>4, <1>5, <1>6, <1>7, <1>8, <1>9 DEF Operation

LEMMA SharedPending ==
  ASSUME TypeOK, PendingSaves, NEW t \in Thread, Shared(t)
  PROVE  PendingSaves'
<1>1. CASE SaveActive(t)
  <2>1. Others(t)
    BY <1>1, GoesAlone DEF SaveActive
  <2> QED
    BY <1>1, <2>1, SaveActiveStep
<1>2. CASE SaveProfile(t)
  <2>1. PICK from \in {"save", "save bond"} :
          Save(t, from) /\ Goes(t, "update") /\ Done(t) /\ UNCHANGED again
    BY <1>2 DEF SaveProfile
  <2>2. Others(t)
    BY <2>1, GoesOn DEF Done
  <2> QED
    BY <2>1, <2>2, SaveStep DEF Saving
<1>3. CASE Update(t) \/ Radio(t) \/ RadioFails(t) \/ Note(t)
  <2>1. at[t] \in {"update", "radio", "note"}
    BY <1>3 DEF Update, Radio, RadioFails, Note
  <2>2. UNCHANGED <<profiles, active_profile, stored, index>>
    BY <1>3 DEF Update, Radio, RadioFails, Note, profileVars
  <2>3. \E to : Goes(t, to)
    BY <1>3 DEF Update, Radio, RadioFails, Note, Return, Decides
  <2>4. Others(t)
    BY <2>2, <2>3, GoesAlone
  <2> QED
    BY <2>1, <2>2, <2>4, QuietStep DEF Saving
<1> QED
  BY <1>1, <1>2, <1>3 DEF Shared

LEMMA BluetoothPending ==
  ASSUME TypeOK, PendingSaves, Bluetooth
  PROVE  PendingSaves'
<1>1. "bt" \in Thread
  BY DEF Thread
<1>2. at["bt"] = "idle"
  BY DEF Bluetooth, Connected, Disconnected, PairingAccept, PairingComplete, Callback
<1>3. CASE Connected \/ Disconnected
  <2>1. UNCHANGED <<profiles, active_profile, stored, index>> /\ Goes("bt", "update")
    BY <1>3 DEF Connected, Disconnected, profileVars
  <2>2. Others("bt")
    BY <1>1, <2>1, GoesAlone
  <2> QED
    BY <1>1, <1>2, <2>1, <2>2, QuietStep DEF Saving
<1>4. CASE PairingAccept
  BY <1>4 DEF PairingAccept, PendingSaves, profileVars, threadVars
<1>5. CASE PairingComplete
  <2>1. UNCHANGED <<active_profile, stored>>
    BY <1>5 DEF PairingComplete
  <2>2. PICK h :
          \/ /\ profiles' = [profiles EXCEPT ![active_profile] = h]
             /\ index' = [index EXCEPT !["bt"] = active_profile]
             /\ Goes("bt", "save bond")
          \/ UNCHANGED <<profiles, index, at>>
    BY <1>5 DEF PairingComplete
  <2>3. CASE UNCHANGED <<profiles, index, at>>
    BY <2>1, <2>3 DEF PendingSaves
  <2>4. CASE /\ profiles' = [profiles EXCEPT ![active_profile] = h]
             /\ index' = [index EXCEPT !["bt"] = active_profile]
             /\ Goes("bt", "save bond")
    <3>1. Others("bt") /\ at'["bt"] = "save bond" /\ index'["bt"] = active_profile
      BY <1>1, <2>4, GoesOn
    <3>2. active_profile \in Profile
      BY DEF TypeOK
    <3>3. \A i \in Profile \ {active_profile} : profiles'[i] = profiles[i]
      BY <2>4 DEF TypeOK
    <3> QED
      BY <1>1, <1>2, <2>1, <3>1, <3>2, <3>3, ChangeStep DEF Saving
  <2> QED
    BY <2>2, <2>3, <2>4
<1> QED
  BY <1>3, <1>4, <1>5 DEF Bluetooth

LEMMA InitPending == Init => PendingSaves
BY DEF Init, PendingSaves

LEMMA RestartPending == Restart => PendingSaves'
BY DEF Restart, PendingSaves

LEMMA NextPending == TypeOK /\ PendingSaves /\ [Next]_vars => PendingSaves'
<1> SUFFICES ASSUME TypeOK, PendingSaves, [Next]_vars PROVE PendingSaves'
  OBVIOUS
<1>1. CASE UNCHANGED vars
  BY <1>1 DEF PendingSaves, vars, profileVars, threadVars
<1> QED
  BY <1>1, OperationPending, SharedPending, BluetoothPending, RestartPending DEF Next

LEMMA PendingSavesAtRest == TypeOK /\ PendingSaves => SavedAtRest
<1> SUFFICES ASSUME TypeOK, PendingSaves, Rest
             PROVE  stored = [profiles |-> profiles, active |-> active_profile]
  BY DEF SavedAtRest
<1>1. stored.active = active_profile
  BY DEF PendingSaves, Rest
<1>2. \A i \in Profile : stored.profiles[i] = profiles[i]
  BY DEF PendingSaves, Rest
<1>3. stored.profiles \in [Profile -> Peer] /\ profiles \in [Profile -> Peer]
  BY DEF TypeOK
<1>4. stored.profiles = profiles
  BY <1>2, <1>3
<1>5. stored = [profiles |-> stored.profiles, active |-> stored.active]
  BY DEF TypeOK
<1> QED
  BY <1>1, <1>4, <1>5

\* When no thread is at work the flash holds the profiles and the selection,
\* in whatever order the threads changed and saved them.
THEOREM SettingsAreSaved == Spec => []SavedAtRest
<1>1. Spec => []PendingSaves
  BY InitPending, NextPending, TypeCorrect, PTL DEF Spec
<1> QED
  BY <1>1, PendingSavesAtRest, TypeCorrect, PTL
-----------------------------------------------------------------------------
(* Clean histories: whoever takes a step is the only thread inside. Sound  *)
(* says what holds for it at every place, and so at rest: the copy         *)
(* adv_running agrees with the controller, what it decided about           *)
(* advertising is still right, and every bond is known to a profile unless *)
(* bleProfileClearAll is about to delete them all.                         *)

Clearing == {"each", "forget each", "save each", "unpair all"}
Known == \A h \in bonds : \E i \in Profile : profiles[i] = h
Only(t) == \A u \in Thread \ {t} : at[u] = "idle"

Sound(t) ==
  /\ IF at[t] = "note" THEN advertising = want_adv[t] ELSE advertising = adv_running
  /\ at[t] \in {"radio", "note"} => want_adv[t] = WantAdv
  /\ at[t] = "idle" => advertising = WantAdv
  /\ at[t] = "forget" => profiles[index[t]] \notin bonds
  /\ at[t] \notin Clearing => Known

CleanInv == clean => \E t \in Thread : Only(t) /\ Sound(t)

LEMMA TakesOver ==
  ASSUME CleanInv, clean, NEW t \in Thread, Only(t)
  PROVE  Sound(t)
<1>1. PICK u \in Thread : Only(u) /\ Sound(u)
  BY DEF CleanInv
<1>2. CASE u = t
  BY <1>1, <1>2
<1>3. CASE u # t
  <2>1. at[u] = "idle" /\ at[t] = "idle"
    BY <1>1, <1>3 DEF Only
  <2> QED
    BY <1>1, <2>1 DEF Sound
<1> QED
  BY <1>2, <1>3

\* Hanging up on a host does not yet disconnect it.
LEMMA HangUpWants ==
  ASSUME TypeOK, NEW hosts, HangUp(hosts), UNCHANGED <<profiles, active_profile>>
  PROVE  WantAdv' = WantAdv
<1>1. \A h \in Host : (conn'[h] # "none") <=> (conn[h] # "none")
  BY DEF HangUp, TypeOK
<1>2. profiles[active_profile] = Open \/ profiles[active_profile] \in Host
  BY DEF TypeOK, Peer
<1>3. WantAdv' <=> WantAdv
  BY <1>1, <1>2 DEF WantAdv, IsOpen, IsConnected
<1> QED
  BY <1>3 DEF WantAdv

LEMMA ReturnSound ==
  ASSUME TypeOK, NEW t \in Thread, Return(t), UNCHANGED <<profiles, active_profile, bonds, conn>>,
         advertising' = adv_running', ~again[t] => advertising' = WantAdv, Known
  PROVE  Sound(t)'
<1>1. at'[t] = IF again[t] THEN "update" ELSE "idle"
  BY DEF Return, Goes, TypeOK
<1>2. WantAdv' = WantAdv /\ Known'
  BY DEF WantAdv, IsOpen, IsConnected, Known
<1> QED
  BY <1>1, <1>2 DEF Sound

LEMMA OperationSound ==
  ASSUME TypeOK, NEW t \in User, Sound(t), Operation(t)
  PROVE  Sound(t)'
<1>1. t \in Thread
  BY DEF Thread
<1>2. \A to : Goes(t, to) => at'[t] = to
  BY <1>1 DEF Goes, TypeOK
<1>3. CASE Select(t)
  <2>1. at[t] = "idle" /\ at'[t] = "save active" /\ Known'
    BY <1>2, <1>3 DEF Select, Sound, Clearing, Known, stackVars
  <2> QED
    BY <1>3, <2>1 DEF Select, Sound, stackVars
<1>4. CASE Clear(t)
  <2>1. at[t] = "idle" /\ at'[t] = "unpair" /\ Known'
    BY <1>2, <1>4 DEF Clear, Sound, Clearing, Known, profileVars
  <2> QED
    BY <1>4, <2>1 DEF Clear, Sound, profileVars
<1>5. CASE ClearUnpair(t)
  <2>1. at[t] = "unpair" /\ at'[t] = "forget"
    BY <1>2, <1>5 DEF ClearUnpair
  <2>2. Known'
    BY <1>5, <2>1 DEF ClearUnpair, Unpair, Sound, Clearing, Known, profileVars
  <2>3. profiles[index[t]] \notin bonds'
    BY <1>5, OpenAssumption DEF ClearUnpair, Unpair, TypeOK
  <2> QED
    BY <1>5, <2>1, <2>2, <2>3 DEF ClearUnpair, Sound, profileVars
<1>6. CASE ClearForget(t)
  <2>1. at[t] = "forget" /\ at'[t] = "save" /\ UNCHANGED stackVars
        /\ profiles' = [profiles EXCEPT ![index[t]] = Open] /\ adv_running' = adv_running
    BY <1>2, <1>6 DEF ClearForget, Forget
  <2>2. Known /\ profiles[index[t]] \notin bonds
    BY <2>1 DEF Sound, Clearing
  <2>3. ASSUME NEW h \in bonds PROVE \E i \in Profile : profiles'[i] = h
    <3>1. PICK i \in Profile : profiles[i] = h
      BY <2>2 DEF Known
    <3>2. i # index[t]
      BY <2>2, <3>1
    <3> QED
      BY <2>1, <3>1, <3>2 DEF TypeOK
  <2> QED
    BY <2>1, <2>3 DEF Sound, Known, stackVars
<1>7. CASE ClearAll(t)
  <2>1. at[t] = "idle" /\ at'[t] = "each"
    BY <1>2, <1>7 DEF ClearAll
  <2> QED
    BY <1>7, <2>1 DEF ClearAll, Sound, Clearing, stackVars
<1>8. CASE HangUpEach(t)
  <2>1. at[t] = "each" /\ at'[t] = "forget each"
    BY <1>2, <1>8 DEF HangUpEach
  <2> QED
    BY <1>8, <2>1 DEF HangUpEach, Sound, Clearing
<1>9. CASE ForgetEach(t)
  <2>1. at[t] = "forget each" /\ at'[t] = "save each"
    BY <1>2, <1>9 DEF ForgetEach, Forget
  <2> QED
    BY <1>9, <2>1 DEF ForgetEach, Forget, Sound, Clearing, stackVars
<1>10. CASE SaveEach(t)
  <2>1. at[t] = "save each" /\ at'[t] \in {"each", "unpair all"}
    BY <1>2, <1>10 DEF SaveEach, Save
  <2> QED
    BY <1>10, <2>1 DEF SaveEach, Save, Sound, Clearing, stackVars
<1>11. CASE UnpairAll(t)
  <2>1. at[t] = "unpair all" /\ at'[t] \in {"update", "save active"}
    BY <1>2, <1>11 DEF UnpairAll
  <2>2. bonds' = {} /\ advertising' = advertising /\ adv_running' = adv_running
    BY <1>11 DEF UnpairAll, Unpair
  <2> QED
    BY <2>1, <2>2 DEF Sound, Clearing, Known
<1> QED
  BY <1>3, <1>4, <1>5, <1>6, <1>7, <1>8, <1>9, <1>10, <1>11 DEF Operation

LEMMA SharedSound ==
  ASSUME TypeOK, NEW t \in Thread, Sound(t), Shared(t), clean'
  PROVE  Sound(t)'
<1>1. \A to : Goes(t, to) => at'[t] = to
  BY DEF Goes, TypeOK
<1>2. CASE SaveActive(t)
  <2>1. at[t] = "save active" /\ at'[t] = "update" /\ Known'
    BY <1>1, <1>2 DEF SaveActive, Sound, Clearing, Known, stackVars
  <2> QED
    BY <1>2, <2>1 DEF SaveActive, Sound, stackVars
<1>3. CASE SaveProfile(t)
  <2>1. at[t] \in {"save", "save bond"} /\ at'[t] = "update" /\ Known'
    BY <1>1, <1>3 DEF SaveProfile, Save, Sound, Clearing, Known, stackVars
  <2> QED
    BY <1>3, <2>1 DEF SaveProfile, Save, Sound, stackVars
<1>4. CASE Update(t)
  <2>1. at[t] = "update" /\ Known /\ advertising = adv_running
        /\ UNCHANGED <<profiles, active_profile, adv_running, bonds, conn, advertising>>
    BY <1>4 DEF Update, Sound, Clearing, profileVars, stackVars
  <2>2. CASE WantAdv = adv_running
    BY <1>4, <2>1, <2>2, ReturnSound DEF Update
  <2>3. CASE WantAdv # adv_running
    <3>1. at'[t] = "radio" /\ want_adv'[t] = WantAdv
      BY <1>1, <1>4, <2>3 DEF Update, Decides, TypeOK
    <3>2. WantAdv' = WantAdv /\ Known'
      BY <2>1 DEF WantAdv, IsOpen, IsConnected, Known
    <3> QED
      BY <2>1, <3>1, <3>2 DEF Sound
  <2> QED
    BY <2>2, <2>3
<1>5. CASE Radio(t)
  <2>1. at[t] = "radio" /\ at'[t] = "note" /\ advertising' = want_adv[t] /\ want_adv' = want_adv
    BY <1>1, <1>5 DEF Radio
  <2>2. WantAdv' = WantAdv /\ Known'
    BY <1>5, <2>1 DEF Radio, WantAdv, IsOpen, IsConnected, Sound, Clearing, Known, profileVars
  <2> QED
    BY <2>1, <2>2 DEF Sound
<1>6. CASE RadioFails(t)
  BY <1>6 DEF RadioFails
<1>7. CASE Note(t)
  <2>1. at[t] = "note" /\ Known /\ advertising = want_adv[t] /\ want_adv[t] = WantAdv
    BY <1>7 DEF Note, Sound, Clearing
  <2> QED
    BY <1>7, <2>1, ReturnSound DEF Note, profileVars, stackVars
<1> QED
  BY <1>2, <1>3, <1>4, <1>5, <1>6, <1>7 DEF Shared

LEMMA BluetoothSound ==
  ASSUME TypeOK, Sound("bt"), Bluetooth
  PROVE  Sound("bt")'
<1>1. at["bt"] = "idle" /\ Known /\ "bt" \in Thread
  BY DEF Bluetooth, Connected, Disconnected, PairingAccept, PairingComplete, Callback, Sound,
         Clearing, Thread
<1>2. \A to : Goes("bt", to) => at'["bt"] = to
  BY <1>1 DEF Goes, TypeOK
<1>3. CASE Connected
  <2>1. at'["bt"] = "update" /\ Known'
    BY <1>1, <1>2, <1>3 DEF Connected, Known, profileVars
  <2> QED
    BY <1>3, <2>1 DEF Connected, Sound
<1>4. CASE Disconnected
  <2>1. at'["bt"] = "update" /\ Known'
    BY <1>1, <1>2, <1>4 DEF Disconnected, Known, profileVars
  <2> QED
    BY <1>1, <1>4, <2>1 DEF Disconnected, Sound
<1>5. CASE PairingAccept
  <2>1. WantAdv' = WantAdv /\ Known'
    BY <1>1, <1>5 DEF PairingAccept, WantAdv, IsOpen, IsConnected, Known, profileVars
  <2> QED
    BY <1>1, <1>5, <2>1 DEF PairingAccept, Sound, threadVars
<1>6. CASE PairingComplete
  <2>1. UNCHANGED <<active_profile, adv_running, advertising>>
    BY <1>6 DEF PairingComplete
  <2>2. PICK h \in pairing :
          \/ /\ PairingAllowed(h)
             /\ bonds' = bonds \cup {h}
             /\ profiles' = [profiles EXCEPT ![active_profile] = h]
             /\ Goes("bt", "save bond")
          \/ /\ bonds' = bonds \ {h}
             /\ HangUp({h})
             /\ UNCHANGED <<profiles, index, at>>
    BY <1>6 DEF PairingComplete
  <2>3. CASE /\ PairingAllowed(h)
             /\ bonds' = bonds \cup {h}
             /\ profiles' = [profiles EXCEPT ![active_profile] = h]
             /\ Goes("bt", "save bond")
    <3>1. at'["bt"] = "save bond"
      BY <1>2, <2>3
    <3>2. ASSUME NEW g \in bonds' PROVE \E i \in Profile : profiles'[i] = g
      <4>1. CASE g = h
        BY <2>3, <4>1 DEF TypeOK
      <4>2. CASE g # h
        <5>1. PICK i \in Profile : profiles[i] = g
          BY <1>1, <2>3, <4>2 DEF Known
        <5>2. i # active_profile
          BY <2>3, <4>2, <5>1, OpenAssumption DEF PairingAllowed, TypeOK
        <5> QED
          BY <2>3, <5>1, <5>2 DEF TypeOK
      <4> QED
        BY <4>1, <4>2
    <3> QED
      BY <1>1, <2>1, <3>1, <3>2 DEF Sound, Known
  <2>4. CASE /\ bonds' = bonds \ {h}
             /\ HangUp({h})
             /\ UNCHANGED <<profiles, index, at>>
    <3>1. WantAdv' = WantAdv
      BY <2>1, <2>4, HangUpWants
    <3> QED
      BY <1>1, <2>1, <2>4, <3>1 DEF Sound, Known
  <2> QED
    BY <2>2, <2>3, <2>4
<1> QED
  BY <1>3, <1>4, <1>5, <1>6 DEF Bluetooth

LEMMA InitClean == Init => CleanInv
<1> SUFFICES ASSUME Init PROVE Only(Main) /\ Sound(Main)
  BY UserAssumption DEF CleanInv, Thread
<1> QED
  BY UserAssumption DEF Init, Only, Sound, Known, Thread

LEMMA RestartClean ==
  ASSUME TypeOK, PendingSaves, CleanInv, Restart
  PROVE  CleanInv'
<1> SUFFICES ASSUME clean' PROVE Only(Main)' /\ Sound(Main)'
  BY UserAssumption DEF CleanInv, Thread
<1>1. clean /\ Rest
  BY DEF Restart
<1>2. profiles' = profiles
  BY <1>1, PendingSavesAtRest DEF SavedAtRest, Restart
<1>3. Known
  BY <1>1, UserAssumption, TakesOver DEF Rest, Only, Sound, Clearing, Thread
<1> QED
  BY <1>2, <1>3, UserAssumption DEF Restart, Only, Sound, Known, Thread

\* What a thread does, it does at its own place.
LEMMA StepAlone ==
  ASSUME TypeOK, NEW t \in Thread, NEW to, Goes(t, to) \/ UNCHANGED at, Only(t)
  PROVE  Only(t)'
BY DEF Goes, Only, TypeOK

LEMMA NextClean ==
  ASSUME TypeOK, PendingSaves, CleanInv, [Next]_vars
  PROVE  CleanInv'
<1>1. CASE UNCHANGED vars
  BY <1>1 DEF vars, profileVars, stackVars, threadVars, CleanInv, Only, Sound, Known, WantAdv,
              IsOpen, IsConnected
<1>2. CASE Restart
  BY <1>2, RestartClean
<1>3. ASSUME NEW t \in User, Operation(t), clean' PROVE CleanInv'
  <2>1. t \in Thread
    BY DEF Thread
  <2>2. Alone(t) /\ \E to : Goes(t, to)
    BY <1>3 DEF Operation, Select, Clear, ClearUnpair, ClearForget, Forget, ClearAll, HangUpEach,
                ForgetEach, SaveEach, Save, UnpairAll
  <2>3. clean /\ Only(t)
    BY <1>3, <2>2 DEF Alone, Only
  <2> QED
    BY <1>3, <2>1, <2>2, <2>3, TakesOver, OperationSound, StepAlone DEF CleanInv
<1>4. ASSUME NEW t \in Thread, Shared(t), clean' PROVE CleanInv'
  <2>1. Alone(t) /\ \E to : Goes(t, to)
    BY <1>4 DEF Shared, SaveActive, SaveProfile, Save, Update, Radio, RadioFails, Note, Return,
                Decides
  <2>2. clean /\ Only(t)
    BY <1>4, <2>1 DEF Alone, Only
  <2> QED
    BY <1>4, <2>1, <2>2, TakesOver, SharedSound, StepAlone DEF CleanInv
<1>5. ASSUME Bluetooth, clean' PROVE CleanInv'
  <2>1. "bt" \in Thread
    BY DEF Thread
  <2>2. Alone("bt") /\ (UNCHANGED at \/ \E to : Goes("bt", to))
    BY <1>5 DEF Bluetooth, Connected, Disconnected, PairingAccept, PairingComplete, threadVars
  <2>3. clean /\ Only("bt")
    BY <1>5, <2>2 DEF Alone, Only
  <2> QED
    BY <1>5, <2>1, <2>2, <2>3, TakesOver, BluetoothSound, StepAlone DEF CleanInv
<1>6. CASE ~clean'
  BY <1>6 DEF CleanInv
<1> QED
  BY <1>1, <1>2, <1>3, <1>4, <1>5, <1>6 DEF Next

LEMMA CleanHistories == Spec => [](TypeOK /\ CleanInv)
<1>1. TypeOK /\ PendingSaves /\ CleanInv /\ [Next]_vars => CleanInv'
  BY NextClean
<1> QED
  BY <1>1, InitClean, InitPending, NextPending, TypeCorrect, PTL DEF Spec

LEMMA SoundAtRest ==
  ASSUME CleanInv, clean, Rest
  PROVE  advertising = adv_running /\ advertising = WantAdv /\ Known
BY TakesOver, UserAssumption DEF Rest, Only, Sound, Clearing, Thread

\* Without overlaps the keyboard advertises exactly while the active profile has
\* no host connected, whatever the number of hosts and profiles.
THEOREM AdvertisesRightly == Spec => []AdvertisesAtRest
<1>1. TypeOK /\ CleanInv => AdvertisesAtRest
  <2> SUFFICES ASSUME TypeOK, CleanInv, clean, Rest
               PROVE  /\ adv_running = advertising
                      /\ advertising <=>
                           \A h \in Host : profiles[active_profile] = h => conn[h] = "none"
    BY DEF AdvertisesAtRest
  <2>1. profiles[active_profile] = Open \/ profiles[active_profile] \in Host
    BY DEF TypeOK, Peer
  <2> QED
    BY <2>1, SoundAtRest, OpenAssumption DEF WantAdv, IsOpen, IsConnected
<1> QED
  BY <1>1, CleanHistories, PTL

\* Without overlaps every bond belongs to a profile.
THEOREM BondsAreKnown == Spec => []NoOrphanBond
<1>1. CleanInv => NoOrphanBond
  BY SoundAtRest DEF NoOrphanBond, Known
<1> QED
  BY <1>1, CleanHistories, PTL
=============================================================================
