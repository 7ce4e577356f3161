----------------------- MODULE ReportDelivery_proofs -----------------------
(***************************************************************************)
(* What a host takes for pressed, for every number of keys, usages and     *)
(* profiles and every length of usb_tx_q. The invariant follows a report   *)
(* along its way: sending, usb_tx_q, submitted, sees. Whichever of them    *)
(* holds the newest report for an interface holds nothing that last does   *)
(* not, so that what arrives at the end leaves no key pressed; and the     *)
(* interfaces that are switched off, the drivers that are not selected and *)
(* the profiles that are not active hold nothing at all.                   *)
(***************************************************************************)
EXTENDS ReportDelivery, TLAPS

-----------------------------------------------------------------------------
(* The types, with what they leave open: the keyboard's report holds keys,  *)
(* and what the main loop sends is for an interface of kbd_ops.             *)

StrictTypes ==
  /\ last["kbd"] \subseteq Key
  /\ sending # None => sending.dev \in Kind

LEMMA KindFacts ==
  /\ Kind \subseteq Iface /\ "kbd" \in Kind /\ "exk" \in Kind
  /\ "via" \in Iface /\ "via" \notin Kind
  /\ {} \in Data /\ Released \in [Kind -> Data]
  /\ "usb" \in Dest /\ Profile \subseteq Dest
BY DEF Kind, Iface, Data, Released, Dest

LEMMA HostSendType ==
  ASSUME TypeOK, NEW kind \in Kind, NEW data \in Data,
         NEW from \in SUBSET (Dest \X Kind), HostSend(kind, data, from)
  PROVE  /\ sending' \in Item \cup {None}
         /\ sees' \in [Dest -> [Kind -> Data]]
         /\ excused' \subseteq Dest \X Kind
         /\ sending' # None => sending' = sending \/ sending'.dev \in Kind
<1>1. active_profile \in Dest /\ kind \in Iface /\ [dev |-> kind, data |-> data] \in Item
  BY KindFacts DEF TypeOK, Item
<1>2. CASE UsbSend(kind, data, from)
  BY <1>1, <1>2 DEF TypeOK, UsbSend
<1>3. CASE BleSend(kind, data, from)
  <2>1. [sees EXCEPT ![active_profile][kind] = data] \in [Dest -> [Kind -> Data]]
    BY <1>1 DEF TypeOK
  <2>2. <<active_profile, kind>> \in Dest \X Kind
    BY <1>1
  <2> QED
    BY <1>3, <2>1, <2>2 DEF TypeOK, BleSend
<1>4. CASE excused' = from /\ UNCHANGED <<sending, sees>>
  BY <1>4 DEF TypeOK
<1> QED
  BY <1>2, <1>3, <1>4 DEF HostSend

LEMMA InitType == Init => TypeOK /\ StrictTypes
<1> SUFFICES ASSUME Init PROVE TypeOK /\ StrictTypes
  OBVIOUS
<1>1. usb_tx_q \in Seq(Item) /\ Len(usb_tx_q) <= QueueDepth
  BY DepthAssumption DEF Init
<1>2. sees \in [Dest -> [Kind -> Data]]
  BY KindFacts DEF Init
<1> QED
  BY <1>1, <1>2, KindFacts DEF Init, TypeOK, StrictTypes, Released

LEMMA ReportType ==
  ASSUME TypeOK, StrictTypes, NEW kind \in Kind, NEW data \in Data, Report(kind, data),
         kind = "kbd" => data \subseteq Key
  PROVE  TypeOK' /\ StrictTypes'
<1>1. last' \in [Kind -> Data] /\ last'["kbd"] \subseteq Key
  BY KindFacts DEF TypeOK, StrictTypes, Report
<1>2. excused \in SUBSET (Dest \X Kind) /\ HostSend(kind, data, excused)
  BY DEF TypeOK, Report
<1> QED
  BY <1>1, <1>2, HostSendType DEF TypeOK, StrictTypes, Report, usbVars

LEMMA NextType == TypeOK /\ StrictTypes /\ [Next]_vars => TypeOK' /\ StrictTypes'
<1> SUFFICES ASSUME TypeOK, StrictTypes, [Next]_vars PROVE TypeOK' /\ StrictTypes'
  OBVIOUS
<1>1. CASE Press
  <2>1. PICK k \in Key : Report("kbd", last["kbd"] \cup {k})
    BY <1>1 DEF Press
  <2>2. last["kbd"] \cup {k} \subseteq Key
    BY DEF StrictTypes
  <2> QED
    BY <2>1, <2>2, ReportType, KindFacts DEF Data
<1>2. CASE Release
  <2>1. PICK k \in Key : Report("kbd", last["kbd"] \ {k})
    BY <1>2 DEF Release
  <2>2. last["kbd"] \ {k} \subseteq Key
    BY DEF StrictTypes
  <2> QED
    BY <2>1, <2>2, ReportType, KindFacts DEF Data
<1>3. CASE Consumer
  <2>1. PICK usages \in {{}} \cup {{u} : u \in Usage} : Report("exk", usages)
    BY <1>3 DEF Consumer
  <2>2. usages \in Data
    BY DEF Data
  <2> QED
    BY <2>1, <2>2, ReportType, KindFacts
<1>4. CASE OutputSelect
  <2>1. excused \cup LeftBehind \in SUBSET (Dest \X Kind)
    BY KindFacts DEF TypeOK, LeftBehind
  <2>2. cur_driver' \in {"usb", "ble"}
    BY <1>4 DEF OutputSelect, Wanted, TypeOK
  <2> QED
    BY <1>4, <2>1, <2>2, KindFacts, HostSendType DEF OutputSelect, TypeOK, StrictTypes, usbVars
<1>5. CASE Put
  <2>1. sending \in Item
    BY <1>5 DEF Put, TypeOK
  <2>2. usb_tx_q' \in Seq(Item) /\ Len(usb_tx_q') <= QueueDepth
    BY <1>5, <2>1, DepthAssumption DEF Put, Queued, Room, TypeOK
  <2>3. excused' \subseteq Dest \X Kind
    <3>1. <<"usb", sending.dev>> \in Dest \X Kind
      BY <1>5, KindFacts DEF Put, StrictTypes
    <3> QED
      BY <1>5, <3>1 DEF Put, TypeOK
  <2> QED
    BY <1>5, <2>2, <2>3 DEF Put, TypeOK, StrictTypes
<1>6. CASE ViaReply
  <2>1. [dev |-> "via", data |-> {}] \in Item
    BY KindFacts DEF Item
  <2>2. usb_tx_q' \in Seq(Item) /\ Len(usb_tx_q') <= QueueDepth
    BY <1>6, <2>1, DepthAssumption DEF ViaReply, Queued, Room, TypeOK
  <2> QED
    BY <1>6, <2>2 DEF ViaReply, TypeOK, StrictTypes
<1>7. CASE Select
  BY <1>7, KindFacts DEF Select, TypeOK, StrictTypes, usbVars
<1>8. CASE Take
  <2>1. Head(usb_tx_q) \in Item /\ usb_tx_q' \in Seq(Item) /\ Len(usb_tx_q') <= QueueDepth
    BY <1>8, DepthAssumption DEF Take, TypeOK
  <2> QED
    BY <1>8, <2>1 DEF Take, TypeOK, StrictTypes
<1>9. CASE Fetch
  <2>1. submitted \in Item /\ submitted.data \in Data
    BY <1>9 DEF Fetch, TypeOK, Item
  <2>2. sees' \in [Dest -> [Kind -> Data]]
    BY <1>9, <2>1, KindFacts DEF Fetch, TypeOK
  <2> QED
    BY <1>9, <2>2 DEF Fetch, TypeOK, StrictTypes
<1>10. CASE Configure
  BY <1>10 DEF Configure, TypeOK, StrictTypes
<1>11. CASE IfaceReady
  BY <1>11 DEF IfaceReady, TypeOK, StrictTypes
<1>12. ASSUME NEW i \in Iface, Aborted(i)
       PROVE  /\ enabled' \subseteq Iface /\ submitted' \in Item \cup {None}
              /\ sees' \in [Dest -> [Kind -> Data]] /\ excused' \subseteq Dest \X Kind
  BY <1>12, KindFacts DEF Aborted, TypeOK
<1>13. CASE KbIfaceDown
  <2>1. PICK i \in Iface : Aborted(i)
    BY <1>13, KindFacts DEF KbIfaceDown
  <2>2. usb_tx_q' \in Seq(Item) /\ Len(usb_tx_q') <= QueueDepth
    BY <1>13, DepthAssumption DEF KbIfaceDown, Purged
  <2>3. raced' \in BOOLEAN
    BY <1>13 DEF KbIfaceDown, TypeOK
  <2> QED
    BY <1>12, <1>13, <2>1, <2>2, <2>3 DEF KbIfaceDown, TypeOK, StrictTypes
<1>14. CASE ViaIfaceDown
  <2>1. Aborted("via")
    BY <1>14 DEF ViaIfaceDown
  <2> QED
    BY <1>12, <1>14, <2>1, KindFacts DEF ViaIfaceDown, TypeOK, StrictTypes
<1>15. CASE Connect
  BY <1>15 DEF Connect, TypeOK, StrictTypes, usbVars
<1>16. CASE Disconnect
  <2>1. PICK p \in conn : /\ conn' = conn \ {p}
                          /\ sees' = [sees EXCEPT ![p] = Released]
                          /\ excused' = excused \ ({p} \X Kind)
    BY <1>16 DEF Disconnect
  <2>2. sees' \in [Dest -> [Kind -> Data]]
    BY <2>1, KindFacts DEF TypeOK
  <2> QED
    BY <1>16, <2>1, <2>2 DEF Disconnect, TypeOK, StrictTypes, usbVars
<1>17. CASE UNCHANGED vars
  BY <1>17 DEF vars, usbVars, TypeOK, StrictTypes
<1> QED
  BY <1>1, <1>2, <1>3, <1>4, <1>5, <1>6, <1>7, <1>8, <1>9, <1>10, <1>11, <1>13, <1>14,
     <1>15, <1>16, <1>17 DEF Next

\* The variables of usb_hid.c, host.c and qmk.c keep their types; a keyboard
\* report never holds a usage, and the main loop never sends for VIA.
THEOREM TypeCorrect == Spec => [](TypeOK /\ StrictTypes)
BY InitType, NextType, PTL DEF Spec

LEMMA ReportsAre ==
  ASSUME StrictTypes, Press \/ Release \/ Consumer
  PROVE  \E kind \in Kind, data \in Data : Report(kind, data)
<1>1. ASSUME NEW k \in Key
      PROVE  last["kbd"] \cup {k} \in Data /\ last["kbd"] \ {k} \in Data
  BY DEF StrictTypes, Data
<1>2. ASSUME NEW usages \in {{}} \cup {{u} : u \in Usage} PROVE usages \in Data
  BY DEF Data
<1> QED
  BY <1>1, <1>2, KindFacts DEF Press, Release, Consumer

-----------------------------------------------------------------------------
(* The way through USB.                                                    *)

Sends(k) == sending # None /\ sending.dev = k
Submits(k) == submitted # None /\ submitted.dev = k
Pending(k) == \E i \in DOMAIN usb_tx_q : usb_tx_q[i].dev = k

LastOf(k, i) ==
  /\ i \in DOMAIN usb_tx_q /\ usb_tx_q[i].dev = k
  /\ \A j \in DOMAIN usb_tx_q : usb_tx_q[j].dev = k => j <= i

\* What kb_ready stands for.
FlagTrue ==
  kb_ready = IF configured THEN enabled \cap Kind # {} ELSE Kind \subseteq enabled

SendsLatest ==
  sending # None => sending.data = last[sending.dev] /\ cur_driver = "usb"

DownForgets == \A k \in Kind \ enabled : sees["usb"][k] = {} /\ ~Submits(k)

DownEmpty == ~kb_ready /\ ~raced => sending = None /\ \A k \in Kind : ~Pending(k)

OffSilent ==
  kb_ready /\ ~raced /\ cur_driver # "usb" =>
    \A k \in Kind : ~Pending(k) /\ ~Submits(k) /\ sees["usb"][k] = {}

\* The newest report on the way holds nothing that has been released.
Delivers(k) ==
  /\ \A i \in DOMAIN usb_tx_q : LastOf(k, i) => usb_tx_q[i].data \subseteq last[k]
  /\ ~Pending(k) /\ Submits(k) => submitted.data \subseteq last[k]
  /\ ~Pending(k) /\ ~Submits(k) => sees["usb"][k] \subseteq last[k]

UsbDelivers ==
  kb_ready /\ ~raced =>
    \A k \in Kind : <<"usb", k>> \notin excused /\ ~Sends(k) => Delivers(k)

UsbWay ==
  FlagTrue /\ SendsLatest /\ DownForgets /\ DownEmpty /\ OffSilent /\ UsbDelivers

LEMMA QueueAppend ==
  ASSUME TypeOK, NEW item \in Item, Queued(item), NEW k, item.dev # k
  PROVE  /\ Pending(k)' <=> Pending(k)
         /\ \A i \in DOMAIN usb_tx_q' :
              LastOf(k, i)' => LastOf(k, i) /\ usb_tx_q'[i] = usb_tx_q[i]
<1> DEFINE n == Len(usb_tx_q)
<1>1. n \in Nat /\ DOMAIN usb_tx_q = 1 .. n /\ DOMAIN usb_tx_q' = 1 .. n + 1
  BY DEF TypeOK, Queued
<1>2. usb_tx_q'[n + 1] = item /\ \A i \in 1 .. n : usb_tx_q'[i] = usb_tx_q[i]
  BY DEF TypeOK, Queued
<1> HIDE DEF n
<1>3. \A i \in 1 .. n + 1 : i \in 1 .. n \/ i = n + 1
  BY <1>1
<1>4. \A i \in 1 .. n : i \in 1 .. n + 1
  BY <1>1
<1> QED
  BY <1>1, <1>2, <1>3, <1>4 DEF Pending, LastOf

LEMMA QueueAppendLast ==
  ASSUME TypeOK, NEW item \in Item, Queued(item)
  PROVE  /\ Pending(item.dev)'
         /\ \A i \in DOMAIN usb_tx_q' : LastOf(item.dev, i)' => usb_tx_q'[i] = item
<1> DEFINE n == Len(usb_tx_q)
<1>1. n \in Nat /\ DOMAIN usb_tx_q' = 1 .. n + 1 /\ usb_tx_q'[n + 1] = item
  BY DEF TypeOK, Queued
<1> HIDE DEF n
<1>2. \A i \in 1 .. n + 1 : n + 1 <= i => i = n + 1
  BY <1>1
<1>3. n + 1 \in 1 .. n + 1
  BY <1>1
<1> QED
  BY <1>1, <1>2, <1>3 DEF Pending, LastOf

LEMMA QueueTail ==
  ASSUME TypeOK, usb_tx_q # <<>>, usb_tx_q' = Tail(usb_tx_q), NEW k
  PROVE  /\ Head(usb_tx_q) = usb_tx_q[1] /\ 1 \in DOMAIN usb_tx_q
         /\ \A i \in DOMAIN usb_tx_q' :
              /\ i + 1 \in DOMAIN usb_tx_q /\ usb_tx_q'[i] = usb_tx_q[i + 1]
              /\ LastOf(k, i)' => LastOf(k, i + 1)
         /\ Pending(k)' => Pending(k)
         /\ Pending(k) /\ ~Pending(k)' => LastOf(k, 1)
<1> DEFINE n == Len(usb_tx_q)
<1>1. n \in Nat \ {0} /\ DOMAIN usb_tx_q = 1 .. n /\ DOMAIN usb_tx_q' = 1 .. n - 1
  BY DEF TypeOK
<1>2. Head(usb_tx_q) = usb_tx_q[1] /\ \A i \in 1 .. n - 1 : usb_tx_q'[i] = usb_tx_q[i + 1]
  BY DEF TypeOK
<1> HIDE DEF n
<1>3. \A i \in 1 .. n - 1 : i + 1 \in 1 .. n
  BY <1>1
<1>4. \A i \in 1 .. n : i = 1 \/ (i - 1 \in 1 .. n - 1 /\ (i - 1) + 1 = i)
  BY <1>1
<1>5. 1 \in 1 .. n
  BY <1>1
<1>6. ASSUME NEW i \in 1 .. n - 1, LastOf(k, i)' PROVE LastOf(k, i + 1)
  <2>1. ASSUME NEW j \in 1 .. n, usb_tx_q[j].dev = k PROVE j <= i + 1
    <3>1. CASE j = 1
      BY <1>1, <3>1
    <3>2. CASE j # 1
      <4>1. j - 1 \in 1 .. n - 1 /\ usb_tx_q'[j - 1].dev = k
        BY <1>2, <1>4, <2>1, <3>2
      <4>2. j - 1 <= i
        BY <1>1, <1>6, <4>1 DEF LastOf
      <4> QED
        BY <1>1, <4>2
    <3> QED
      BY <3>1, <3>2
  <2> QED
    BY <1>1, <1>2, <1>3, <1>6, <2>1 DEF LastOf
<1>7. Pending(k)' => Pending(k)
  BY <1>1, <1>2, <1>3 DEF Pending
<1>8. ASSUME Pending(k), ~Pending(k)' PROVE LastOf(k, 1)
  <2>1. ASSUME NEW j \in 1 .. n, usb_tx_q[j].dev = k, j # 1 PROVE FALSE
    <3>1. j - 1 \in 1 .. n - 1 /\ usb_tx_q'[j - 1].dev = k
      BY <1>2, <1>4, <2>1
    <3> QED
      BY <1>1, <1>8, <3>1 DEF Pending
  <2> QED
    BY <1>1, <1>5, <1>8, <2>1 DEF Pending, LastOf
<1> QED
  BY <1>1, <1>2, <1>3, <1>5, <1>6, <1>7, <1>8

\* Steps that are not about USB.
LEMMA UsbStill ==
  ASSUME UsbWay, UNCHANGED <<last, cur_driver, sending, usbVars>>,
         sees'["usb"] = sees["usb"],
         \A k \in Kind : <<"usb", k>> \in excused => <<"usb", k>> \in excused'
  PROVE  UsbWay'
BY DEF UsbWay, FlagTrue, SendsLatest, DownForgets, DownEmpty, OffSilent, UsbDelivers,
       Delivers, Pending, Submits, Sends, LastOf, usbVars

\* What a report means for the USB host.
LEMMA HostSendUsb ==
  ASSUME TypeOK, NEW kind \in Kind, NEW data, NEW from, HostSend(kind, data, from)
  PROVE  /\ sees'["usb"] = sees["usb"]
         /\ \A k \in Kind : <<"usb", k>> \in excused' <=> <<"usb", k>> \in from
         /\ cur_driver # "usb" => sending' = sending
         /\ cur_driver = "usb" =>
              sending' = IF kb_ready THEN [dev |-> kind, data |-> data] ELSE None
<1>1. active_profile # "usb"
  BY ProfileAssumption DEF TypeOK
<1>2. CASE cur_driver = "usb"
  BY <1>2 DEF HostSend, UsbSend
<1>3. CASE cur_driver = "ble"
  <2>1. BleSend(kind, data, from)
    BY <1>3 DEF HostSend
  <2>2. \A k \in Kind : <<"usb", k>> # <<active_profile, kind>>
    BY <1>1
  <2>3. sees'["usb"] = sees["usb"]
    BY <1>1, <2>1, KindFacts DEF BleSend, TypeOK
  <2>4. excused' = from \/ excused' = from \ {<<active_profile, kind>>}
        \/ excused' = from \cup {<<active_profile, kind>>}
    BY <2>1 DEF BleSend
  <2>5. \A k \in Kind : <<"usb", k>> \in excused' <=> <<"usb", k>> \in from
    BY <2>2, <2>4
  <2>6. UNCHANGED sending
    BY <2>1 DEF BleSend
  <2> QED
    BY <1>3, <2>3, <2>5, <2>6
<1> QED
  BY <1>2, <1>3 DEF TypeOK

LEMMA ReportUsb ==
  ASSUME TypeOK, UsbWay, NEW kind \in Kind, NEW data \in Data, Report(kind, data)
  PROVE  UsbWay'
<1>1. HostSend(kind, data, excused) /\ sending = None
      /\ last' = [last EXCEPT ![kind] = data]
      /\ UNCHANGED <<cur_driver, usb_tx_q, submitted, kb_ready, configured, enabled, raced>>
  BY DEF Report, MainLoop, usbVars
<1>2. /\ sees'["usb"] = sees["usb"]
      /\ \A k \in Kind : <<"usb", k>> \in excused' <=> <<"usb", k>> \in excused
      /\ cur_driver # "usb" => sending' = sending
      /\ cur_driver = "usb" =>
           sending' = IF kb_ready THEN [dev |-> kind, data |-> data] ELSE None
  BY <1>1, HostSendUsb
<1>3. last'[kind] = data /\ \A k \in Kind \ {kind} : last'[k] = last[k]
  BY <1>1 DEF TypeOK
<1>4. FlagTrue' /\ DownForgets' /\ DownEmpty' /\ OffSilent'
  BY <1>1, <1>2 DEF UsbWay, FlagTrue, DownForgets, DownEmpty, OffSilent, Submits, Pending
<1>5. SendsLatest'
  BY <1>1, <1>2, <1>3 DEF SendsLatest
<1>6. UsbDelivers'
  <2> SUFFICES ASSUME kb_ready, ~raced, NEW k \in Kind, <<"usb", k>> \notin excused, ~Sends(k)'
               PROVE  Delivers(k)'
    BY <1>1, <1>2 DEF UsbDelivers
  <2>1. CASE cur_driver # "usb"
    BY <1>1, <1>2, <2>1 DEF UsbWay, OffSilent, Delivers, Pending, Submits, LastOf
  <2>2. CASE cur_driver = "usb"
    <3>1. k # kind
      BY <1>2, <2>2, NoneAssumption DEF Sends, Item, Kind, Iface
    <3> QED
      BY <1>1, <1>2, <1>3, <3>1
         DEF UsbWay, UsbDelivers, Delivers, Sends, Pending, Submits, LastOf
  <2> QED
    BY <2>1, <2>2
<1> QED
  BY <1>4, <1>5, <1>6 DEF UsbWay

LEMMA OutputSelectUsb ==
  ASSUME TypeOK, UsbWay, OutputSelect
  PROVE  UsbWay'
<1>1. HostSend("kbd", {}, excused \cup LeftBehind) /\ sending = None
      /\ Wanted # cur_driver /\ cur_driver' = Wanted
      /\ UNCHANGED <<last, usb_tx_q, submitted, kb_ready, configured, enabled, raced>>
  BY DEF OutputSelect, MainLoop, usbVars
<1>2. /\ sees'["usb"] = sees["usb"] /\ sending' = None
      /\ \A k \in Kind : <<"usb", k>> \in excused => <<"usb", k>> \in excused'
  <2>1. cur_driver = "usb" => ~kb_ready
    BY <1>1 DEF Wanted
  <2> QED
    BY <1>1, <2>1, KindFacts, HostSendUsb
<1>3. kb_ready => cur_driver # "usb" /\ cur_driver' = "usb"
  BY <1>1 DEF Wanted
<1>4. FlagTrue' /\ SendsLatest' /\ DownForgets' /\ DownEmpty' /\ OffSilent'
  BY <1>1, <1>2, <1>3
     DEF UsbWay, FlagTrue, SendsLatest, DownForgets, DownEmpty, OffSilent, Submits, Pending
<1>5. UsbDelivers'
  BY <1>1, <1>2, <1>3
     DEF UsbWay, OffSilent, UsbDelivers, Delivers, Pending, Submits, LastOf
<1> QED
  BY <1>4, <1>5 DEF UsbWay

LEMMA PutUsb ==
  ASSUME TypeOK, StrictTypes, UsbWay, Put
  PROVE  UsbWay'
<1>1. /\ sending # None /\ sending' = None /\ sending \in Item /\ sending.dev \in Kind
      /\ UNCHANGED <<last, cur_driver, kb_ready, submitted, configured, enabled, raced, sees>>
  BY DEF Put, TypeOK, StrictTypes
<1>2. sending.data = last[sending.dev] /\ cur_driver = "usb" /\ (kb_ready \/ raced)
  BY <1>1 DEF UsbWay, SendsLatest, DownEmpty, TypeOK
<1>3. FlagTrue' /\ SendsLatest' /\ DownForgets' /\ DownEmpty' /\ OffSilent'
  BY <1>1, <1>2
     DEF UsbWay, FlagTrue, SendsLatest, DownForgets, DownEmpty, OffSilent, Submits
<1>4. UsbDelivers'
  <2> SUFFICES ASSUME kb_ready, ~raced, NEW k \in Kind, <<"usb", k>> \notin excused'
               PROVE  Delivers(k)'
    BY <1>1 DEF UsbDelivers
  <2>1. CASE k = sending.dev
    <3>1. Queued(sending)
      BY <2>1 DEF Put
    <3> QED
      BY <1>1, <1>2, <2>1, <3>1, QueueAppendLast DEF Delivers
  <2>2. CASE k # sending.dev
    <3>1. <<"usb", k>> \notin excused
      BY <2>2 DEF Put
    <3>2. Delivers(k)
      BY <2>2, <3>1 DEF UsbWay, UsbDelivers, Sends
    <3>3. CASE Queued(sending)
      <4>1. /\ Pending(k)' <=> Pending(k)
            /\ \A i \in DOMAIN usb_tx_q' :
                 LastOf(k, i)' => LastOf(k, i) /\ usb_tx_q'[i] = usb_tx_q[i]
        BY <1>1, <2>2, <3>3, QueueAppend
      <4>2. \A i \in DOMAIN usb_tx_q' : LastOf(k, i)' => usb_tx_q'[i].data \subseteq last[k]
        BY <3>2, <4>1 DEF Delivers, LastOf
      <4> QED
        BY <1>1, <3>2, <4>1, <4>2 DEF Delivers, Submits
    <3>4. CASE UNCHANGED usb_tx_q
      BY <1>1, <3>2, <3>4 DEF Delivers, Pending, Submits, LastOf
    <3> QED
      BY <3>3, <3>4 DEF Put
  <2> QED
    BY <2>1, <2>2
<1> QED
  BY <1>3, <1>4 DEF UsbWay

LEMMA ViaReplyUsb ==
  ASSUME TypeOK, UsbWay, ViaReply
  PROVE  UsbWay'
<1>1. UNCHANGED <<last, cur_driver, sending, kb_ready, submitted, configured, enabled,
                  raced, sees, excused>>
  BY DEF ViaReply
<1>2. \A k \in Kind :
        /\ Pending(k)' <=> Pending(k)
        /\ \A i \in DOMAIN usb_tx_q' :
             LastOf(k, i)' => LastOf(k, i) /\ usb_tx_q'[i] = usb_tx_q[i]
  <2> DEFINE reply == [dev |-> "via", data |-> {}]
  <2>1. reply \in Item /\ Queued(reply) /\ reply.dev = "via"
    BY KindFacts DEF Item, ViaReply
  <2> HIDE DEF reply
  <2> QED
    BY <2>1, KindFacts, QueueAppend
<1>3. FlagTrue' /\ SendsLatest' /\ DownForgets' /\ DownEmpty' /\ OffSilent'
  BY <1>1, <1>2
     DEF UsbWay, FlagTrue, SendsLatest, DownForgets, DownEmpty, OffSilent, Submits
<1>4. UsbDelivers'
  <2> SUFFICES ASSUME kb_ready, ~raced, NEW k \in Kind, <<"usb", k>> \notin excused, ~Sends(k)
               PROVE  Delivers(k)'
    BY <1>1 DEF UsbDelivers, Sends
  <2>1. Delivers(k)
    BY DEF UsbWay, UsbDelivers
  <2>2. \A i \in DOMAIN usb_tx_q' : LastOf(k, i)' => usb_tx_q'[i].data \subseteq last[k]
    BY <1>2, <2>1 DEF Delivers, LastOf
  <2> QED
    BY <1>1, <1>2, <2>1, <2>2 DEF Delivers, Submits
<1> QED
  BY <1>3, <1>4 DEF UsbWay

LEMMA TakeUsb ==
  ASSUME TypeOK, UsbWay, Take
  PROVE  UsbWay'
<1>1. /\ submitted = None /\ usb_tx_q # <<>> /\ usb_tx_q' = Tail(usb_tx_q)
      /\ submitted' = IF Head(usb_tx_q).dev \in enabled THEN Head(usb_tx_q) ELSE None
      /\ UNCHANGED <<last, cur_driver, sending, kb_ready, configured, enabled, raced, sees,
                     excused>>
  BY DEF Take
<1>2. Head(usb_tx_q) \in Item /\ Head(usb_tx_q) # None
  BY <1>1, NoneAssumption DEF TypeOK
<1>3. \A k \in Kind :
        /\ Head(usb_tx_q) = usb_tx_q[1] /\ 1 \in DOMAIN usb_tx_q
        /\ \A i \in DOMAIN usb_tx_q' :
             /\ i + 1 \in DOMAIN usb_tx_q /\ usb_tx_q'[i] = usb_tx_q[i + 1]
             /\ LastOf(k, i)' => LastOf(k, i + 1)
        /\ Pending(k)' => Pending(k)
        /\ Pending(k) /\ ~Pending(k)' => LastOf(k, 1)
  BY <1>1, QueueTail
<1>4. \A k \in Kind : Submits(k)' => k \in enabled /\ Pending(k)
  BY <1>1, <1>3 DEF Submits, Pending
<1>5. FlagTrue' /\ SendsLatest' /\ DownForgets' /\ DownEmpty' /\ OffSilent'
  BY <1>1, <1>3, <1>4
     DEF UsbWay, FlagTrue, SendsLatest, DownForgets, DownEmpty, OffSilent
<1>6. UsbDelivers'
  <2> SUFFICES ASSUME kb_ready, ~raced, NEW k \in Kind, <<"usb", k>> \notin excused, ~Sends(k)
               PROVE  Delivers(k)'
    BY <1>1 DEF UsbDelivers, Sends
  <2>1. Delivers(k) /\ ~Submits(k)
    BY <1>1 DEF UsbWay, UsbDelivers, Submits
  <2>2. \A i \in DOMAIN usb_tx_q' : LastOf(k, i)' => usb_tx_q'[i].data \subseteq last[k]
    BY <1>3, <2>1 DEF Delivers
  <2>3. CASE Pending(k)'
    BY <1>1, <2>2, <2>3 DEF Delivers
  <2>4. CASE ~Pending(k)' /\ ~Pending(k)
    BY <1>1, <1>4, <2>1, <2>2, <2>4 DEF Delivers
  <2>5. CASE ~Pending(k)' /\ Pending(k)
    <3>1. LastOf(k, 1) /\ Head(usb_tx_q).dev = k /\ Head(usb_tx_q).data \subseteq last[k]
      BY <1>3, <2>1, <2>5 DEF Delivers, LastOf
    <3>2. CASE k \in enabled
      BY <1>1, <1>2, <2>2, <2>5, <3>1, <3>2 DEF Delivers, Submits
    <3>3. CASE k \notin enabled
      BY <1>1, <1>4, <2>2, <2>5, <3>3 DEF Delivers, UsbWay, DownForgets
    <3> QED
      BY <3>2, <3>3
  <2> QED
    BY <2>3, <2>4, <2>5
<1> QED
  BY <1>5, <1>6 DEF UsbWay

LEMMA FetchUsb ==
  ASSUME TypeOK, UsbWay, Fetch
  PROVE  UsbWay'
<1>1. /\ submitted # None /\ submitted' = None
      /\ UNCHANGED <<last, cur_driver, sending, kb_ready, usb_tx_q, configured, enabled,
                     raced, excused>>
  BY DEF Fetch
<1>2. \A k \in Kind :
        /\ Pending(k)' = Pending(k) /\ ~Submits(k)' /\ Sends(k)' = Sends(k)
        /\ sees'["usb"][k] = IF Submits(k) THEN submitted.data ELSE sees["usb"][k]
  BY <1>1, KindFacts DEF Fetch, Pending, Submits, Sends, TypeOK
<1>3. FlagTrue' /\ SendsLatest' /\ DownForgets' /\ DownEmpty' /\ OffSilent'
  BY <1>1, <1>2
     DEF UsbWay, FlagTrue, SendsLatest, DownForgets, DownEmpty, OffSilent
<1>4. UsbDelivers'
  BY <1>1, <1>2 DEF UsbWay, UsbDelivers, Delivers, LastOf
<1> QED
  BY <1>3, <1>4 DEF UsbWay

LEMMA ConfigureUsb ==
  ASSUME TypeOK, UsbWay, Configure
  PROVE  UsbWay'
<1>1. UNCHANGED <<last, cur_driver, sending, kb_ready, usb_tx_q, submitted, enabled, raced,
                  sees, excused>>
  BY DEF Configure
<1>2. FlagTrue'
  BY KindFacts DEF Configure, UsbWay, FlagTrue, TypeOK
<1> QED
  BY <1>1, <1>2
     DEF UsbWay, SendsLatest, DownForgets, DownEmpty, OffSilent, UsbDelivers, Delivers,
         Pending, Submits, Sends, LastOf

LEMMA IfaceReadyUsb ==
  ASSUME TypeOK, UsbWay, IfaceReady
  PROVE  UsbWay'
<1>1. configured
      /\ UNCHANGED <<last, cur_driver, sending, usb_tx_q, submitted, configured, raced, sees,
                     excused>>
  BY DEF IfaceReady
<1>2. PICK i \in Iface \ enabled :
        enabled' = enabled \cup {i} /\ kb_ready' = (kb_ready \/ i \in Kind)
  BY DEF IfaceReady
<1>3. FlagTrue'
  BY <1>1, <1>2 DEF UsbWay, FlagTrue, TypeOK
<1>4. SendsLatest' /\ DownForgets' /\ DownEmpty'
  BY <1>1, <1>2
     DEF UsbWay, SendsLatest, DownForgets, DownEmpty, Pending, Submits, TypeOK
<1>5. CASE kb_ready \/ raced \/ ~kb_ready'
  BY <1>1, <1>2, <1>3, <1>4, <1>5
     DEF UsbWay, OffSilent, UsbDelivers, Delivers, Pending, Submits, Sends, LastOf, TypeOK
<1>6. CASE ~kb_ready /\ ~raced
  <2>1. \A k \in Kind : ~Pending(k) /\ ~Submits(k) /\ sees["usb"][k] = {}
    BY <1>1, <1>6 DEF UsbWay, FlagTrue, DownForgets, DownEmpty
  <2>2. OffSilent' /\ UsbDelivers'
    BY <1>1, <2>1 DEF OffSilent, UsbDelivers, Delivers, Pending, Submits, LastOf
  <2> QED
    BY <1>3, <1>4, <2>2 DEF UsbWay
<1> QED
  BY <1>5, <1>6

LEMMA KbIfaceDownUsb ==
  ASSUME TypeOK, UsbWay, KbIfaceDown
  PROVE  UsbWay'
<1>1. /\ ~configured /\ kb_ready' = FALSE /\ usb_tx_q' = <<>>
      /\ raced' = (raced \/ sending # None)
      /\ UNCHANGED <<last, cur_driver, sending, configured>>
  BY DEF KbIfaceDown, Purged
<1>2. PICK i \in enabled \cap Kind : Aborted(i)
  BY DEF KbIfaceDown
<1>3. FlagTrue'
  <2>1. ~(Kind \subseteq enabled')
    BY <1>2 DEF Aborted
  <2> QED
    BY <1>1, <2>1 DEF FlagTrue
<1>4. DownForgets'
  <2> SUFFICES ASSUME NEW k \in Kind \ enabled' PROVE sees'["usb"][k] = {} /\ ~Submits(k)'
    BY DEF DownForgets
  <2>1. CASE k = i
    BY <1>2, <2>1, KindFacts DEF Aborted, Submits, TypeOK
  <2>2. CASE k # i
    <3>1. sees["usb"][k] = {} /\ ~Submits(k)
      BY <1>2, <2>2 DEF Aborted, UsbWay, DownForgets
    <3> QED
      BY <1>2, <2>2, <3>1, KindFacts DEF Aborted, Submits, TypeOK
  <2> QED
    BY <2>1, <2>2
<1>5. DownEmpty'
  <2>1. DOMAIN usb_tx_q' = {}
    BY <1>1
  <2> QED
    BY <1>1, <2>1 DEF DownEmpty, Pending, TypeOK
<1> QED
  BY <1>1, <1>3, <1>4, <1>5 DEF UsbWay, SendsLatest, OffSilent, UsbDelivers

LEMMA ViaIfaceDownUsb ==
  ASSUME TypeOK, UsbWay, ViaIfaceDown
  PROVE  UsbWay'
<1>1. /\ enabled' = enabled \ {"via"} /\ Aborted("via")
      /\ UNCHANGED <<last, cur_driver, sending, kb_ready, usb_tx_q, configured, raced, sees>>
  BY KindFacts DEF ViaIfaceDown, Aborted
<1>2. \A k \in Kind : <<"usb", k>> \in excused' <=> <<"usb", k>> \in excused
  <2>1. \A k \in Kind : <<"usb", k>> # <<"usb", "via">>
    BY KindFacts
  <2> QED
    BY <1>1, <2>1 DEF Aborted
<1>3. \A k \in Kind : (Submits(k)' <=> Submits(k)) /\ (Submits(k) => submitted' = submitted)
  BY <1>1, KindFacts DEF Aborted, Submits
<1>4. FlagTrue'
  <2>1. /\ enabled' \cap Kind = enabled \cap Kind
        /\ Kind \subseteq enabled' <=> Kind \subseteq enabled
    BY <1>1, KindFacts
  <2> QED
    BY <1>1, <2>1 DEF UsbWay, FlagTrue
<1>5. SendsLatest' /\ DownEmpty'
  BY <1>1 DEF UsbWay, SendsLatest, DownEmpty, Pending
<1>6. DownForgets'
  BY <1>1, <1>3, KindFacts DEF UsbWay, DownForgets
<1>7. OffSilent'
  BY <1>1, <1>3 DEF UsbWay, OffSilent, Pending
<1>8. UsbDelivers'
  <2> SUFFICES ASSUME kb_ready, ~raced, NEW k \in Kind, <<"usb", k>> \notin excused, ~Sends(k)
               PROVE  Delivers(k)'
    BY <1>1, <1>2 DEF UsbDelivers, Sends
  <2>1. Delivers(k)
    BY DEF UsbWay, UsbDelivers
  <2> QED
    BY <1>1, <1>3, <2>1 DEF Delivers, Pending, LastOf
<1> QED
  BY <1>4, <1>5, <1>6, <1>7, <1>8 DEF UsbWay

LEMMA InitUsb == Init => UsbWay
<1> SUFFICES ASSUME Init PROVE UsbWay
  OBVIOUS
<1>1. DOMAIN usb_tx_q = {} /\ \A k \in Kind : sees["usb"][k] = {}
  BY KindFacts DEF Init, Released
<1>2. FlagTrue
  BY KindFacts DEF Init, FlagTrue
<1> QED
  BY <1>1, <1>2
     DEF Init, UsbWay, SendsLatest, DownForgets, DownEmpty, OffSilent, UsbDelivers, Pending,
         Submits

LEMMA NextUsb ==
  ASSUME TypeOK, StrictTypes, UsbWay, [Next]_vars
  PROVE  UsbWay'
<1>1. CASE Press \/ Release \/ Consumer
  BY <1>1, ReportsAre, ReportUsb
<1>2. CASE Select \/ Connect \/ UNCHANGED vars
  BY <1>2, UsbStill DEF Select, Connect, vars
<1>3. CASE Disconnect
  <2>1. PICK p \in conn : sees' = [sees EXCEPT ![p] = Released]
                          /\ excused' = excused \ ({p} \X Kind)
    BY <1>3 DEF Disconnect
  <2>2. p # "usb" /\ "usb" \in Dest
    BY ProfileAssumption, KindFacts DEF TypeOK
  <2>3. sees'["usb"] = sees["usb"]
    BY <2>1, <2>2 DEF TypeOK
  <2>4. \A k \in Kind : <<"usb", k>> \in excused => <<"usb", k>> \in excused'
    BY <2>1, <2>2
  <2> QED
    BY <1>3, <2>3, <2>4, UsbStill DEF Disconnect
<1> QED
  BY <1>1, <1>2, <1>3, OutputSelectUsb, PutUsb, ViaReplyUsb, TakeUsb, FetchUsb, ConfigureUsb,
     IfaceReadyUsb, KbIfaceDownUsb, ViaIfaceDownUsb DEF Next

-----------------------------------------------------------------------------
(* The way through Bluetooth: a profile that is not spoken to holds no key. *)

Spoken(p) == cur_driver = "ble" /\ p = active_profile

BleWay ==
  /\ \A p \in Profile \ conn : sees[p] = Released
  /\ \A p \in Profile, k \in Kind : <<p, k>> \notin excused =>
       /\ sees[p][k] \subseteq last[k]
       /\ Spoken(p) \/ sees[p][k] = {}

\* Steps after which the profiles see what they saw.
LEMMA BleStill ==
  ASSUME BleWay, UNCHANGED <<last, cur_driver, active_profile, conn>>,
         \A p \in Profile : sees'[p] = sees[p],
         \A p \in Profile, k \in Kind : <<p, k>> \in excused => <<p, k>> \in excused'
  PROVE  BleWay'
BY DEF BleWay, Spoken

\* What a report means for the hosts of the profiles.
LEMMA HostSendBle ==
  ASSUME TypeOK, BleWay, NEW kind \in Kind, NEW data \in Data,
         NEW from \in SUBSET (Dest \X Kind), HostSend(kind, data, from),
         NEW p \in Profile, NEW k \in Kind, <<p, k>> \notin excused'
  PROVE  \/ sees'[p][k] = sees[p][k] /\ <<p, k>> \notin from
            /\ (Spoken(p) /\ k = kind => sees[p][k] = {})
         \/ sees'[p][k] = data /\ Spoken(p) /\ k = kind
<1>1. active_profile \in Profile /\ p \in Dest
  BY KindFacts DEF TypeOK
<1>2. CASE cur_driver # "ble"
  BY <1>2 DEF HostSend, UsbSend, Spoken
<1>3. CASE cur_driver = "ble" /\ active_profile \notin conn
  <2>1. excused' = from /\ UNCHANGED sees
    BY <1>3 DEF HostSend, BleSend
  <2>2. Spoken(p) => sees[p][k] = {}
    BY <1>1, <1>3 DEF BleWay, Spoken, Released
  <2> QED
    BY <2>1, <2>2
<1>4. CASE cur_driver = "ble" /\ active_profile \in conn
  <2>1. \/ /\ sees' = [sees EXCEPT ![active_profile][kind] = data]
           /\ excused' = from \ {<<active_profile, kind>>}
        \/ excused' = from \cup {<<active_profile, kind>>} /\ UNCHANGED sees
    BY <1>4 DEF HostSend, BleSend
  <2>2. CASE p = active_profile /\ k = kind
    <3>1. sees' = [sees EXCEPT ![active_profile][kind] = data]
      BY <2>1, <2>2
    <3> QED
      BY <1>1, <1>4, <2>2, <3>1 DEF Spoken, TypeOK
  <2>3. CASE ~(p = active_profile /\ k = kind)
    <3>1. <<p, k>> # <<active_profile, kind>>
      BY <2>3
    <3>2. <<p, k>> \notin from
      BY <2>1, <3>1
    <3>3. sees'[p][k] = sees[p][k]
      BY <1>1, <2>1, <2>3 DEF TypeOK
    <3> QED
      BY <2>3, <3>2, <3>3 DEF Spoken
  <2> QED
    BY <2>2, <2>3
<1> QED
  BY <1>2, <1>3, <1>4

LEMMA HostSendDown ==
  ASSUME TypeOK, BleWay, NEW kind, NEW data, NEW from, HostSend(kind, data, from),
         NEW p \in Profile \ conn
  PROVE  sees'[p] = Released
<1>1. sees[p] = Released /\ p \in Dest
  BY KindFacts DEF BleWay
<1> QED
  BY <1>1 DEF HostSend, UsbSend, BleSend, TypeOK

LEMMA ReportBle ==
  ASSUME TypeOK, BleWay, NEW kind \in Kind, NEW data \in Data, Report(kind, data)
  PROVE  BleWay'
<1>1. HostSend(kind, data, excused) /\ last' = [last EXCEPT ![kind] = data]
      /\ UNCHANGED <<cur_driver, active_profile, conn>>
  BY DEF Report
<1>2. \A p \in Profile \ conn' : sees'[p] = Released
  BY <1>1, HostSendDown
<1>3. ASSUME NEW p \in Profile, NEW k \in Kind, <<p, k>> \notin excused'
      PROVE  sees'[p][k] \subseteq last'[k] /\ (Spoken(p) \/ sees'[p][k] = {})
  <2>1. last'[kind] = data /\ (k # kind => last'[k] = last[k])
    BY <1>1 DEF TypeOK
  <2>2. excused \in SUBSET (Dest \X Kind)
    BY DEF TypeOK
  <2>3. CASE sees'[p][k] = data /\ Spoken(p) /\ k = kind
    BY <2>1, <2>3
  <2>4. CASE sees'[p][k] = sees[p][k] /\ <<p, k>> \notin excused
             /\ (Spoken(p) /\ k = kind => sees[p][k] = {})
    BY <2>1, <2>4 DEF BleWay
  <2> QED
    BY <1>1, <1>3, <2>2, <2>3, <2>4, HostSendBle
<1> QED
  BY <1>1, <1>2, <1>3 DEF BleWay, Spoken

LEMMA OutputSelectBle ==
  ASSUME TypeOK, BleWay, OutputSelect
  PROVE  BleWay'
<1>1. HostSend("kbd", {}, excused \cup LeftBehind) /\ Wanted # cur_driver
      /\ cur_driver' = Wanted /\ UNCHANGED <<last, active_profile, conn>>
  BY DEF OutputSelect
<1>2. \A p \in Profile \ conn' : sees'[p] = Released
  BY <1>1, HostSendDown
<1>3. ASSUME NEW p \in Profile, NEW k \in Kind, <<p, k>> \notin excused'
      PROVE  sees'[p][k] = {}
  <2>1. excused \cup LeftBehind \in SUBSET (Dest \X Kind)
    BY KindFacts DEF TypeOK, LeftBehind
  <2>2. CASE sees'[p][k] = {}
    BY <2>2
  <2>3. CASE sees'[p][k] = sees[p][k] /\ <<p, k>> \notin excused \cup LeftBehind
             /\ (Spoken(p) /\ k = "kbd" => sees[p][k] = {})
    <3>1. Spoken(p) /\ k = "exk" => sees[p][k] = {}
      BY <2>3 DEF LeftBehind, Spoken
    <3> QED
      BY <2>3, <3>1 DEF BleWay, Kind
  <2> QED
    BY <1>1, <1>3, <2>1, <2>2, <2>3, KindFacts, HostSendBle
<1> QED
  BY <1>2, <1>3 DEF BleWay

LEMMA SelectBle ==
  ASSUME TypeOK, BleWay, Select
  PROVE  BleWay'
<1>1. UNCHANGED <<last, cur_driver, conn, sees>>
  BY DEF Select
<1>2. ASSUME NEW p \in Profile, NEW k \in Kind, <<p, k>> \notin excused'
      PROVE  sees[p][k] = {}
  BY <1>2 DEF Select, BleWay, Spoken
<1> QED
  BY <1>1, <1>2 DEF BleWay

LEMMA InitBle == Init => BleWay
BY KindFacts DEF Init, BleWay, Released

LEMMA NextBle ==
  ASSUME TypeOK, StrictTypes, BleWay, [Next]_vars
  PROVE  BleWay'
<1>1. CASE Press \/ Release \/ Consumer
  BY <1>1, ReportsAre, ReportBle
<1>2. \A k \in Iface, p \in Profile, l \in Kind : <<p, l>> # <<"usb", k>>
  BY ProfileAssumption
<1>3. CASE Put
  <2>1. sending.dev \in Iface
    BY <1>3 DEF Put, TypeOK, Item
  <2>2. \/ excused' = excused \ {<<"usb", sending.dev>>}
        \/ excused' = excused \cup {<<"usb", sending.dev>>}
    BY <1>3 DEF Put
  <2>3. \A p \in Profile, k \in Kind : <<p, k>> \in excused => <<p, k>> \in excused'
    BY <1>2, <2>1, <2>2
  <2> QED
    BY <1>3, <2>3, BleStill DEF Put
<1>4. CASE ViaReply \/ Take \/ Configure \/ IfaceReady \/ UNCHANGED vars
  BY <1>4, BleStill DEF ViaReply, Take, Configure, IfaceReady, vars
<1>5. CASE Fetch
  <2>1. \A p \in Profile : sees'[p] = sees[p]
    BY <1>5, ProfileAssumption, KindFacts DEF Fetch, TypeOK
  <2> QED
    BY <1>5, <2>1, BleStill DEF Fetch
<1>6. CASE KbIfaceDown \/ ViaIfaceDown
  <2>1. PICK i \in Iface : Aborted(i)
    BY <1>6, KindFacts DEF KbIfaceDown, ViaIfaceDown
  <2>2. \A p \in Profile : sees'[p] = sees[p]
    BY <2>1, ProfileAssumption, KindFacts DEF Aborted, TypeOK
  <2>3. \A p \in Profile, k \in Kind : <<p, k>> \in excused => <<p, k>> \in excused'
    BY <1>2, <2>1 DEF Aborted
  <2> QED
    BY <1>6, <2>2, <2>3, BleStill DEF KbIfaceDown, ViaIfaceDown
<1>7. CASE Connect
  BY <1>7 DEF Connect, BleWay, Spoken
<1>8. CASE Disconnect
  <2>1. PICK p \in conn : /\ conn' = conn \ {p}
                          /\ sees' = [sees EXCEPT ![p] = Released]
                          /\ excused' = excused \ ({p} \X Kind)
    BY <1>8 DEF Disconnect
  <2>2. UNCHANGED <<last, cur_driver, active_profile>> /\ p \in Dest
    BY <1>8, KindFacts DEF Disconnect, TypeOK
  <2>3. \A q \in Profile : sees'[q] = IF q = p THEN Released ELSE sees[q]
    BY <2>1, <2>2, KindFacts DEF TypeOK
  <2>4. \A q \in Profile, k \in Kind :
          q # p /\ <<q, k>> \notin excused' => <<q, k>> \notin excused
    BY <2>1
  <2>5. \A q \in Profile \ conn' : sees'[q] = Released
    BY <2>1, <2>3 DEF BleWay
  <2>6. ASSUME NEW q \in Profile, NEW k \in Kind, <<q, k>> \notin excused'
        PROVE  sees'[q][k] \subseteq last[k] /\ (Spoken(q) \/ sees'[q][k] = {})
    <3>1. CASE q = p
      BY <2>3, <3>1 DEF Released
    <3>2. CASE q # p
      BY <2>3, <2>4, <2>6, <3>2 DEF BleWay
    <3> QED
      BY <3>1, <3>2
  <2> QED
    BY <2>2, <2>5, <2>6 DEF BleWay, Spoken
<1> QED
  BY <1>1, <1>3, <1>4, <1>5, <1>6, <1>7, <1>8, OutputSelectBle, SelectBle DEF Next

-----------------------------------------------------------------------------
(* At rest.                                                                *)

LEMMA Ways == Spec => [](TypeOK /\ UsbWay /\ BleWay)
<1>1. Init => UsbWay /\ BleWay
  BY InitUsb, InitBle
<1>2. TypeOK /\ StrictTypes /\ UsbWay /\ BleWay /\ [Next]_vars => UsbWay' /\ BleWay'
  BY NextUsb, NextBle
<1> QED
  BY <1>1, <1>2, TypeCorrect, PTL DEF Spec

\* With the interfaces switched off the USB host has forgotten the keys; with
\* the interfaces on kb_ready is set.
LEMMA SettledUsb ==
  ASSUME TypeOK, UsbWay, Settled, ~raced, NEW k \in Kind, <<"usb", k>> \notin excused
  PROVE  /\ sees["usb"][k] \subseteq last[k]
         /\ cur_driver = "usb" \/ sees["usb"][k] = {}
<1>1. ~Sends(k) /\ ~Pending(k) /\ ~Submits(k)
  BY DEF Settled, Sends, Pending, Submits
<1>2. CASE enabled = {}
  BY <1>2 DEF UsbWay, DownForgets
<1>3. CASE enabled = Iface
  <2>1. kb_ready
    BY <1>3, KindFacts DEF UsbWay, FlagTrue
  <2> QED
    BY <1>1, <2>1 DEF UsbWay, OffSilent, UsbDelivers, Delivers
<1> QED
  BY <1>2, <1>3 DEF Settled

\* No key sticks on a host unless its release was dropped on the way, or the
\* output was moved away from it while the key was held.
THEOREM NoKeySticks == Spec => []NoStuckKey
<1>1. TypeOK /\ UsbWay /\ BleWay => NoStuckKey
  <2> SUFFICES ASSUME TypeOK, UsbWay, BleWay, Settled, ~raced, NEW d \in Dest, NEW k \in Kind,
                      <<d, k>> \notin excused
               PROVE  sees[d][k] \subseteq last[k]
    BY DEF NoStuckKey
  <2>1. CASE d = "usb"
    BY <2>1, SettledUsb
  <2>2. CASE d \in Profile
    BY <2>2 DEF BleWay
  <2> QED
    BY <2>1, <2>2 DEF Dest
<1> QED
  BY <1>1, Ways, PTL

\* The keys are pressed on one host at a time: the one of cur_driver and, over
\* Bluetooth, of the active profile.
THEOREM KeysGoToOneHost == Spec => []OneHost
<1>1. TypeOK /\ UsbWay /\ BleWay => OneHost
  <2> SUFFICES ASSUME TypeOK, UsbWay, BleWay, Settled, ~raced, NEW d \in Dest, NEW e \in Dest,
                      sees[d]["kbd"] # {}, sees[e]["kbd"] # {},
                      <<d, "kbd">> \notin excused, <<e, "kbd">> \notin excused
               PROVE  d = e
    BY DEF OneHost
  <2>1. ASSUME NEW f \in Dest, sees[f]["kbd"] # {}, <<f, "kbd">> \notin excused
        PROVE  f = IF cur_driver = "usb" THEN "usb" ELSE active_profile
    <3>1. CASE f = "usb"
      BY <2>1, <3>1, KindFacts, SettledUsb
    <3>2. CASE f \in Profile
      BY <2>1, <3>2, KindFacts DEF BleWay, Spoken
    <3> QED
      BY <3>1, <3>2 DEF Dest
  <2> QED
    BY <2>1
<1> QED
  BY <1>1, Ways, PTL
=============================================================================
