--------------------------- MODULE ReportDelivery ---------------------------
(***************************************************************************)
(* The way of a report to a host: host.c hands it to the driver that       *)
(* output_select_task (qmk.c) has chosen. The USB driver queues it for a   *)
(* thread of its own (usb_hid.c), which waits for the host to fetch it; the *)
(* Bluetooth driver notifies the host of the active profile (ble.c). The   *)
(* result of sending is looked at nowhere: what is lost is not sent again. *)
(*                                                                         *)
(* The main loop makes the reports, the VIA thread replies and selects     *)
(* profiles, the USB stack calls kb_iface_ready, the Bluetooth stack       *)
(* connects. The stacks are external: an interface that goes down aborts   *)
(* its transfer, and a host that loses a keyboard releases its keys.       *)
(***************************************************************************)
EXTENDS Naturals, Sequences

CONSTANTS
  Key,            \* key codes
  Usage,          \* consumer usages (a system usage goes the same way)
  Profile,        \* profiles that have a host, each its own
  QueueDepth,     \* of usb_tx_q
  None

ASSUME KeyAssumption == Key \cap Usage = {}
ASSUME ProfileAssumption == Profile # {} /\ "usb" \notin Profile
ASSUME DepthAssumption == QueueDepth \in Nat \ {0}

Kind == {"kbd", "exk"}
Iface == Kind \cup {"via"}
Dest == {"usb"} \cup Profile
Released == [k \in Kind |-> {}]

VARIABLES
  last,             \* last_report and last_consumer_usage
  cur_driver,
  sending,          \* the main loop has seen kb_ready, the item is not in the queue yet
  kb_ready,         \* one flag for the two interfaces of kbd_ops
  usb_tx_q,
  submitted,        \* what usb_tx_thread waits for the host to fetch
  configured,       \* the USB stack: which way it switches the interfaces
  enabled,          \* the USB stack: interfaces that are enabled
  active_profile,
  conn,             \* the Bluetooth stack: connected profiles
  sees,             \* what each host takes for pressed
  excused,          \* history: the last report was dropped, or the output moved away
  raced             \* history: an interface went down between kb_ready and the queue

usbVars == <<kb_ready, usb_tx_q, submitted, configured, enabled, raced>>
vars == <<last, cur_driver, sending, usbVars, active_profile, conn, sees, excused>>

Data == (SUBSET Key) \cup {{u} : u \in Usage}
Item == [dev : Iface, data : Data]

ASSUME NoneAssumption == None \notin Item

TypeOK ==
  /\ last \in [Kind -> Data]
  /\ cur_driver \in {"usb", "ble"}
  /\ sending \in Item \cup {None} /\ submitted \in Item \cup {None}
  /\ usb_tx_q \in Seq(Item) /\ Len(usb_tx_q) <= QueueDepth
  /\ kb_ready \in BOOLEAN /\ configured \in BOOLEAN /\ raced \in BOOLEAN
  /\ enabled \subseteq Iface
  /\ active_profile \in Profile /\ conn \subseteq Profile
  /\ sees \in [Dest -> [Kind -> Data]]
  /\ excused \subseteq Dest \X Kind

-----------------------------------------------------------------------------
(* usb_tx_put                                                              *)

\* Mutant: one item too many.
RoomForOneMore == Len(usb_tx_q) <= QueueDepth

Room == Len(usb_tx_q) < QueueDepth

Queued(item) == usb_tx_q' = Append(usb_tx_q, item)

\* K_NO_WAIT: in a full queue the item is lost.
Put ==
  /\ sending # None
  /\ \/ Room /\ Queued(sending) /\ excused' = excused \ {<<"usb", sending.dev>>}
     \/ ~Room /\ UNCHANGED usb_tx_q /\ excused' = excused \cup {<<"usb", sending.dev>>}
  /\ sending' = None
  /\ UNCHANGED <<last, cur_driver, kb_ready, submitted, configured, enabled, raced,
                 active_profile, conn, sees>>

\* usbHidSendReportVia, on the VIA thread; a reply that finds no room is lost.
ViaReply ==
  /\ "via" \in enabled /\ Room
  /\ Queued([dev |-> "via", data |-> {}])
  /\ UNCHANGED <<last, cur_driver, sending, kb_ready, submitted, configured, enabled, raced,
                 active_profile, conn, sees, excused>>

-----------------------------------------------------------------------------
(* host_keyboard_send, host_consumer_send and the two drivers; from is     *)
(* `excused' before.                                                       *)

\* usbHidSendReport, usbHidSendReportEXK; Put follows.
UsbSend(kind, data, from) ==
  /\ sending' = IF kb_ready THEN [dev |-> kind, data |-> data] ELSE None
  /\ excused' = from
  /\ UNCHANGED sees

\* ble_send: the notification is taken or fails.
BleSend(kind, data, from) ==
  /\ IF active_profile \in conn
       THEN \/ /\ sees' = [sees EXCEPT ![active_profile][kind] = data]
               /\ excused' = from \ {<<active_profile, kind>>}
            \/ /\ excused' = from \cup {<<active_profile, kind>>}
               /\ UNCHANGED sees
       ELSE excused' = from /\ UNCHANGED sees
  /\ UNCHANGED sending

HostSend(kind, data, from) ==
  \/ cur_driver = "usb" /\ UsbSend(kind, data, from)
  \/ cur_driver = "ble" /\ BleSend(kind, data, from)

\* The main loop is not inside usbHidSendReport.
MainLoop == sending = None

\* send_6kro_report, host_consumer_send: only what has changed is sent.
Report(kind, data) ==
  /\ MainLoop
  /\ data # last[kind]
  /\ last' = [last EXCEPT ![kind] = data]
  /\ HostSend(kind, data, excused)
  /\ UNCHANGED <<cur_driver, usbVars, active_profile, conn>>

\* add_key_byte; a key that finds no place in a full report changes nothing.
Press == \E k \in Key : Report("kbd", last["kbd"] \cup {k})

\* del_key_byte
Release == \E k \in Key : Report("kbd", last["kbd"] \ {k})

\* One usage at a time; any release of a consumer key sends 0.
Consumer == \E usages \in {{}} \cup {{u} : u \in Usage} : Report("exk", usages)

-----------------------------------------------------------------------------
(* output_select_task                                                      *)

Wanted ==
  IF kb_ready THEN "usb"
  ELSE IF active_profile \in conn THEN "ble" ELSE cur_driver

\* What the empty keyboard report does not release.
LeftBehind ==
  IF cur_driver = "ble" /\ sees[active_profile]["exk"] # {}
    THEN {<<active_profile, "exk">>} ELSE {}

\* Mutant: the driver is changed, the old host is not told.
OutputSelectSilent ==
  /\ MainLoop
  /\ Wanted # cur_driver
  /\ cur_driver' = Wanted
  /\ UNCHANGED <<last, sending, usbVars, active_profile, conn, sees, excused>>

OutputSelect ==
  /\ MainLoop
  /\ Wanted # cur_driver
  /\ HostSend("kbd", {}, excused \cup LeftBehind)
  /\ cur_driver' = Wanted
  /\ UNCHANGED <<last, usbVars, active_profile, conn>>

\* bleProfileSelect, as far as reports are concerned: nothing is sent.
Select ==
  /\ \E p \in Profile \ {active_profile} : active_profile' = p
  /\ excused' = excused \cup
       {<<active_profile, k>> : k \in {l \in Kind : sees[active_profile][l] # {}}}
  /\ UNCHANGED <<last, cur_driver, sending, usbVars, conn, sees>>

-----------------------------------------------------------------------------
(* usb_tx_thread                                                           *)

\* hid_device_submit_report refuses what is for a disabled interface.
Take ==
  /\ submitted = None /\ usb_tx_q # <<>>
  /\ submitted' = IF Head(usb_tx_q).dev \in enabled THEN Head(usb_tx_q) ELSE None
  /\ usb_tx_q' = Tail(usb_tx_q)
  /\ UNCHANGED <<last, cur_driver, sending, kb_ready, configured, enabled, raced,
                 active_profile, conn, sees, excused>>

\* The host fetches the report, and the thread goes on.
Fetch ==
  /\ submitted # None
  /\ sees' = IF submitted.dev \in Kind
               THEN [sees EXCEPT !["usb"][submitted.dev] = submitted.data]
               ELSE sees
  /\ submitted' = None
  /\ UNCHANGED <<last, cur_driver, sending, kb_ready, usb_tx_q, configured, enabled, raced,
                 active_profile, conn, excused>>

-----------------------------------------------------------------------------
(* The USB stack switches all interfaces on, or off, one after the other.  *)

Configure ==
  /\ enabled = IF configured THEN Iface ELSE {}
  /\ configured' = ~configured
  /\ UNCHANGED <<last, cur_driver, sending, kb_ready, usb_tx_q, submitted, enabled, raced,
                 active_profile, conn, sees, excused>>

\* kb_iface_ready(dev, true), via_iface_ready(dev, true)
IfaceReady ==
  /\ configured
  /\ \E i \in Iface \ enabled :
        enabled' = enabled \cup {i} /\ kb_ready' = (kb_ready \/ i \in Kind)
  /\ UNCHANGED <<last, cur_driver, sending, usb_tx_q, submitted, configured, raced,
                 active_profile, conn, sees, excused>>

\* Mutant: the queue keeps what it holds.
PurgedNot == usb_tx_q

\* k_msgq_purge
Purged == <<>>

\* The transfer of the interface is aborted and the host forgets it.
Aborted(i) ==
  /\ enabled' = enabled \ {i}
  /\ submitted' = IF submitted # None /\ submitted.dev = i THEN None ELSE submitted
  /\ sees' = IF i \in Kind THEN [sees EXCEPT !["usb"][i] = {}] ELSE sees
  /\ excused' = excused \ {<<"usb", i>>}

\* kb_iface_ready(dev, false)
KbIfaceDown ==
  /\ ~configured
  /\ \E i \in enabled \cap Kind : Aborted(i)
  /\ kb_ready' = FALSE
  /\ usb_tx_q' = Purged
  /\ raced' = (raced \/ sending # None)
  /\ UNCHANGED <<last, cur_driver, sending, configured, active_profile, conn>>

\* via_iface_ready(dev, false)
ViaIfaceDown ==
  /\ ~configured /\ "via" \in enabled
  /\ Aborted("via")
  /\ UNCHANGED <<last, cur_driver, sending, kb_ready, usb_tx_q, configured, raced,
                 active_profile, conn>>

-----------------------------------------------------------------------------
(* The Bluetooth stack.                                                    *)

Connect ==
  /\ \E p \in Profile \ conn : conn' = conn \cup {p}
  /\ UNCHANGED <<last, cur_driver, sending, usbVars, active_profile, sees, excused>>

Disconnect ==
  /\ \E p \in conn :
        /\ conn' = conn \ {p}
        /\ sees' = [sees EXCEPT ![p] = Released]
        /\ excused' = excused \ ({p} \X Kind)
  /\ UNCHANGED <<last, cur_driver, sending, usbVars, active_profile>>

-----------------------------------------------------------------------------
Init ==
  /\ last = Released
  /\ cur_driver = "usb" /\ sending = None
  /\ kb_ready = FALSE /\ usb_tx_q = <<>> /\ submitted = None
  /\ configured = FALSE /\ enabled = {}
  /\ active_profile \in Profile /\ conn = {}
  /\ sees = [d \in Dest |-> Released]
  /\ excused = {} /\ raced = FALSE

Next ==
  \/ Press \/ Release \/ Consumer \/ OutputSelect \/ Put
  \/ ViaReply \/ Select
  \/ Take \/ Fetch
  \/ Configure \/ IfaceReady \/ KbIfaceDown \/ ViaIfaceDown
  \/ Connect \/ Disconnect

Spec == Init /\ [][Next]_vars

-----------------------------------------------------------------------------
\* Nothing is on its way, and the interfaces are all on or all off.
Settled ==
  /\ sending = None /\ usb_tx_q = <<>> /\ submitted = None
  /\ enabled \in {{}, Iface}

\* A key can stick on a host only because its release was dropped, or because
\* another profile was selected, or consumer control moved to another driver,
\* while it was held: not by the switch of the keyboard between USB and Bluetooth
\* (output_select_task), not by reports from before the cable was pulled
\* (kb_iface_ready), not by the order of the queue. The next report repairs it. Not if an interface
\* went down between the test of kb_ready and the queue (raced).
NoStuckKey ==
  Settled /\ ~raced =>
    \A d \in Dest, k \in Kind : <<d, k>> \notin excused => sees[d][k] \subseteq last[k]

\* The keys go to one host at a time: the others have seen them released
\* (output_select_task, ble_send). With the same exceptions.
OneHost ==
  Settled /\ ~raced =>
    \A d, e \in Dest :
      /\ sees[d]["kbd"] # {} /\ sees[e]["kbd"] # {}
      /\ {<<d, "kbd">>, <<e, "kbd">>} \cap excused = {}
      => d = e

\* ble.c:862, "so that no pressed key remains on the previous host, an empty
\* report is sent": when another profile is selected the host of the last one
\* sees no key pressed.
SelectReleases ==
  [][active_profile' # active_profile /\ <<active_profile, "kbd">> \notin excused
       => sees'[active_profile]["kbd"] = {}]_vars
=============================================================================
