-------------------------------- MODULE Hci --------------------------------
(***************************************************************************)
(* The Bluetooth controller as the board drives it: hci.c with the         *)
(* controller's events in PacketHandler of bt_connection.c, over the USB   *)
(* dongle (hci_transport_mchpusb.c, usb_host_bluetooth.c).  MAX_NO_HCI_-   *)
(* CONNECTIONS is one.  Handlers are operators on the record hci.          *)
(***************************************************************************)
EXTENDS KeyStore

LOCAL INSTANCE SequencesExt

CONSTANTS HciPhones,   \* phones that may connect
          HciSsp,      \* the controller supports secure simple pairing
          HciOverlap,  \* a phone may page or start to pair while another one does
          HciBudget    \* bounds: dongles attached, pages of phones, packets of data

ASSUME HciAssumption ==
  /\ HciPhones \subseteq Nat \ {0} /\ {HciSsp, HciOverlap} \subseteq BOOLEAN
  /\ HciBudget \in [{"attach", "page", "data"} -> Nat]

VARIABLES hci,      \* the board
          hciEv,    \* events of the controller, for the interrupt endpoint
          hciAcl,   \* fragments of data, for the bulk endpoint
          ctl,      \* the controller: commands it has, scan mode
          hciPh,    \* the phones: phase, link key
          hciLeft   \* what is left of HciBudget

hciVars == <<hci, hciEv, hciAcl, ctl, hciPh, hciLeft>>

NoConn == [a |-> 0, st |-> "NONE", ask |-> FALSE, frag |-> <<>>]
NoScan == 255
\* A command or an event about phone p, with a value.
Msg(t, p, v) == [t |-> t, p |-> p, v |-> v]

HciInit ==
  /\ hci = [up |-> FALSE, st |-> "OFF", sub |-> 0, cmds |-> 0, busy |-> FALSE, scan |-> NoScan, con |-> 0, disc |-> 0,
            decl |-> 0, conn |-> NoConn, keys |-> NoKeys, out |-> <<>>, got |-> <<>>]
  /\ hciEv = <<>> /\ hciAcl = <<>> /\ ctl = [q |-> <<>>, scan |-> 0]
  /\ hciPh = [p \in HciPhones |-> [ph |-> "idle", key |-> 0, half |-> 0]] /\ hciLeft = HciBudget

-----------------------------------------------------------------------------
(* Commands.                                                               *)

CanSendCmd(s) == ~s.busy /\ s.cmds > 0

\* hci_send_cmd_packet: the counter is of 8 bits, and a busy endpoint drops the command.
SendCmd(s, c) ==
  [s EXCEPT !.cmds = (@ - 1) % 256, !.busy = TRUE, !.out = IF s.busy THEN @ ELSE Append(@, c)]

\* The commands of the initialisation, by substate / 2
InitCommand ==
  [n \in 0 .. 14 |-> CASE n = 0 -> "reset" [] n = 3 -> "read_bd_addr" [] n = 4 -> "read_buffer_size"
     [] n = 5 -> "read_features" [] n = 6 -> "set_event_mask" [] n = 7 -> "write_simple_pairing" [] n = 8 -> "write_page_timeout"
     [] n = 9 -> "write_class" [] n = 10 -> "write_local_name" [] n = 11 -> "write_scan_enable" [] OTHER -> "none"]

\* HCI_STATE_INITIALIZING in hci_run: there is no UART to set up and no LE.
InitStep(s) ==
  LET n == s.sub \div 2
      m == IF n = 7 /\ ~HciSsp THEN 8 ELSE n
      v == IF m = 11 THEN 2 * s.con + s.disc ELSE 0
  IN IF s.sub % 2 = 1 THEN s
     ELSE IF n = 14 THEN [SendCmd([s EXCEPT !.st = "WORKING"], Msg("write_local_name", 0, 0)) EXCEPT !.sub = 29]
     ELSE [SendCmd(s, Msg(InitCommand[m], 0, v)) EXCEPT
             !.sub = CASE m = 0 -> 5 [] m = 11 -> 27 [] OTHER -> 2 * m + 1]

\* The commands a connection waits for: accepting it, and the answer to a request for its key
ConnStep(s) ==
  LET a == s.conn.a
  IN IF s.conn.st = "RECEIVED" THEN [SendCmd(s, Msg("accept", a, 0)) EXCEPT !.conn.st = "ACCEPTED"]
     ELSE [SendCmd([s EXCEPT !.keys = AfterGet(@, a)],
                   IF ItemOf(s.keys, a) # NULL THEN Msg("key_reply", a, GetLinkKey(s.keys, a)) ELSE Msg("key_negative", a, 0))
             EXCEPT !.conn.ask = FALSE]

\* hci_shutdown_connection
ShutdownConnection(s) == [s EXCEPT !.conn = NoConn]

\* HCI_STATE_HALTING: connections are closed one by one, then the transport is.
HaltStep(s) ==
  IF s.conn = NoConn THEN [s EXCEPT !.st = "OFF"] ELSE ShutdownConnection(SendCmd(s, Msg("disconnect", s.conn.a, 0)))

\* hci_run sends at most one command.
HciRun(s) ==
  CASE ~CanSendCmd(s) -> s
    [] CanSendCmd(s) /\ s.decl # 0 -> SendCmd([s EXCEPT !.decl = 0], Msg("reject", s.decl, 0))
    [] CanSendCmd(s) /\ s.decl = 0 /\ s.st = "WORKING" /\ s.scan # NoScan ->
         [SendCmd(s, Msg("write_scan_enable", 0, s.scan)) EXCEPT !.scan = NoScan]
    [] CanSendCmd(s) /\ s.decl = 0 /\ ~(s.st = "WORKING" /\ s.scan # NoScan)
         /\ (s.conn.st = "RECEIVED" \/ s.conn.ask) -> ConnStep(s)
    [] CanSendCmd(s) /\ s.decl = 0 /\ s.conn.st # "RECEIVED" /\ ~s.conn.ask /\ s.st = "INITIALIZING" -> InitStep(s)
    [] CanSendCmd(s) /\ s.decl = 0 /\ s.conn.st # "RECEIVED" /\ ~s.conn.ask /\ s.st = "HALTING" -> HaltStep(s)
    [] OTHER -> s

\* hci_update_scan_enable behind hci_connectable_control and hci_discoverable_control
UpdateScan(s) == HciRun([s EXCEPT !.scan = 2 * s.con + s.disc])
Connectable(s) == IF s.con = 1 THEN s ELSE UpdateScan([s EXCEPT !.con = 1])
Discoverable(s) == IF s.disc = 1 THEN s ELSE UpdateScan([s EXCEPT !.disc = 1])

-----------------------------------------------------------------------------
(* Events.                                                                 *)

\* connection_for_address
HasConn(s, p) == s.conn.a = p

\* HCI_EVENT_CONNECTION_REQUEST: the one connection there is memory for, or a reason to decline
ConnectionRequested(s, p) ==
  IF HasConn(s, p) THEN HciRun([s EXCEPT !.conn.st = "RECEIVED"])
  ELSE IF s.conn = NoConn THEN HciRun([s EXCEPT !.conn = [NoConn EXCEPT !.a = p, !.st = "RECEIVED"]])
  ELSE [s EXCEPT !.decl = p]

\* The end of a command; in an odd substate the initialisation goes on with it.  The name is
\* written once more when the stack works, and then the board is made discoverable.
CommandDone(s, e) ==
  LET t == [s EXCEPT !.cmds = 1, !.sub = IF s.st = "INITIALIZING" /\ @ % 2 = 1 THEN @ + 1 ELSE @]
  IN IF e.v = "write_local_name" THEN Discoverable(t) ELSE t

\* HCI_EVENT_CONNECTION_COMPLETE with an error; after an authentication failure the key is of no use.
AuthenticationFailure == 5
ConnectionFailed(s, e) ==
  [s EXCEPT !.conn = NoConn, !.keys = IF e.v = AuthenticationFailure THEN DeleteLinkKey(@, e.p) ELSE @]

\* event_handler and PacketHandler.  The reply to a request for the PIN does not look whether
\* a command may be sent.
Event(s, e) ==
  CASE e.t = "done" -> CommandDone(s, e)
    [] e.t = "request" -> ConnectionRequested(s, e.p)
    [] e.t = "complete" /\ HasConn(s, e.p) -> [s EXCEPT !.conn.st = "OPEN"]
    [] e.t = "failed" /\ HasConn(s, e.p) -> ConnectionFailed(s, e)
    [] e.t = "key" /\ HasConn(s, e.p) -> [s EXCEPT !.conn.ask = TRUE]
    [] e.t = "pin" -> SendCmd([s EXCEPT !.keys = DeleteLinkKey(@, e.p)], Msg("pin_reply", e.p, 0))
    [] e.t = "new_key" -> [s EXCEPT !.keys = PutLinkKey(@, e.p, e.v)]
    [] e.t = "gone" /\ HasConn(s, e.p) -> ShutdownConnection(s)
    [] OTHER -> s

HciBoard(s) == hci' = [s EXCEPT !.out = <<>>] /\ ctl' = [ctl EXCEPT !.q = @ \o s.out]

\* Mutant: hci_run is left to the events.
CtrlOutDoneOnly ==
  /\ hci.busy
  /\ HciBoard([hci EXCEPT !.busy = FALSE])
  /\ UNCHANGED <<hciEv, hciAcl, hciPh, hciLeft>>

\* The control endpoint is polled after the interrupt endpoint: DAEMON_EVENT_HCI_PACKET_SENT
\* runs hci_run once more.
CtrlOutDone ==
  /\ hci.busy
  /\ HciBoard(HciRun([hci EXCEPT !.busy = FALSE]))
  /\ UNCHANGED <<hciEv, hciAcl, hciPh, hciLeft>>

\* Bound: while the endpoint is busy only the end of the command itself is handled, as a control
\* transfer takes a few rounds of polling at most (README, section 7).
EventHandled ==
  /\ hciEv # <<>> /\ (Head(hciEv).t = "done" \/ ~hci.busy) /\ hciEv' = Tail(hciEv)
  /\ HciBoard(HciRun(Event(hci, Head(hciEv))))
  /\ UNCHANGED <<hciAcl, hciPh, hciLeft>>

\* acl_handler: a fragment is dropped when it starts a packet inside another one, continues
\* none or belongs to no connection.  The last fragment of a packet hands it to L2CAP.
Recombine(s, f) ==
  LET whole == Append(s.conn.frag, f.n)
  IN IF s.conn.st # "OPEN" \/ s.conn.a # f.p \/ (f.first # (s.conn.frag = <<>>)) THEN s
     ELSE IF f.last THEN [s EXCEPT !.conn.frag = <<>>, !.got = Append(@, whole)]
     ELSE [s EXCEPT !.conn.frag = whole]

\* The bulk endpoint is polled after the interrupt endpoint.  Packets are followed up to L2CAP.
FragmentHandled ==
  /\ hciAcl # <<>> /\ hciEv = <<>> /\ hciAcl' = Tail(hciAcl)
  /\ HciBoard(HciRun(Recombine([hci EXCEPT !.got = <<>>], Head(hciAcl))))
  /\ UNCHANGED <<hciEv, hciPh, hciLeft>>

\* hci_init, over memory that btstack_memory_init has made a pool of again
HciStack(s) ==
  [s EXCEPT !.st = "OFF", !.scan = NoScan, !.con = 0, !.disc = 0, !.decl = 0, !.conn = NoConn, !.keys = PoolCreate(@)]

\* hci_power_control: nobody puts the stack to sleep.
PowerOn(s) ==
  HciRun(CASE s.st = "OFF" -> [s EXCEPT !.cmds = 1, !.st = "INITIALIZING", !.sub = 0]
           [] s.st = "HALTING" -> [s EXCEPT !.st = "INITIALIZING", !.sub = 0]
           [] OTHER -> s)
PowerOff(s) ==
  HciRun(CASE s.st = "INITIALIZING" -> [s EXCEPT !.st = "OFF"]
           [] s.st = "WORKING" -> [s EXCEPT !.st = "HALTING"]
           [] OTHER -> s)

\* The dongle is enumerated: BTAttached, whose services make the board connectable
Attached ==
  /\ ~hci.up /\ hciLeft.attach > 0 /\ hciLeft' = [hciLeft EXCEPT !.attach = @ - 1]
  /\ HciBoard(PowerOn(Connectable(HciStack([hci EXCEPT !.up = TRUE]))))
  /\ UNCHANGED <<hciEv, hciAcl, hciPh>>

\* The dongle is gone: EVENT_DETACH, hci_close
Detached ==
  /\ hci.up
  /\ hci' = PowerOff(ShutdownConnection([hci EXCEPT !.up = FALSE, !.busy = FALSE]))
  /\ hciEv' = <<>> /\ hciAcl' = <<>> /\ ctl' = [q |-> <<>>, scan |-> 0]
  /\ hciPh' = [p \in HciPhones |-> [hciPh[p] EXCEPT !.ph = "idle", !.half = 0]]
  /\ UNCHANGED hciLeft

-----------------------------------------------------------------------------
(* The controller executes a command, perhaps for a phone that is gone.    *)

Says(c, more) == hciEv' = hciEv \o <<Msg("done", 0, c.t)>> \o more

CtlExecutes ==
  /\ ctl.q # <<>>
  /\ LET c == Head(ctl.q)
         ph == IF c.p = 0 THEN "none" ELSE hciPh[c.p].ph
         becomes(q) == hciPh' = [hciPh EXCEPT ![c.p].ph = q]
     IN /\ ctl' = [q |-> Tail(ctl.q), scan |-> CASE c.t = "write_scan_enable" -> c.v [] c.t = "reset" -> 0 [] OTHER -> ctl.scan]
        /\ \/ c.t = "accept" /\ ph = "paging" /\ Says(c, <<Msg("complete", c.p, 0)>>) /\ becomes("linked")
           \/ /\ c.t = "accept" /\ \E why \in {4, AuthenticationFailure} : Says(c, <<Msg("failed", c.p, why)>>)
              /\ becomes("idle")
           \/ c.t = "reject" /\ Says(c, <<Msg("failed", c.p, 0)>>) /\ becomes("idle")
           \/ c.t = "key_reply" /\ ph = "key" /\ c.v = hciPh[c.p].key /\ Says(c, <<>>) /\ becomes("ok")
           \/ /\ c.t = "key_negative" \/ (c.t = "key_reply" /\ c.v # hciPh[c.p].key)
              /\ ph = "key" /\ Says(c, <<Msg("pin", c.p, 0)>>) /\ becomes("pin")
           \/ /\ c.t = "pin_reply" /\ ph = "pin"
              /\ LET k == IF hciPh[c.p].key = 1 THEN 2 ELSE 1
                 IN /\ Says(c, <<Msg("new_key", c.p, k)>>)
                    /\ hciPh' = [hciPh EXCEPT ![c.p].ph = "ok", ![c.p].key = k]
           \/ /\ \/ c.p = 0 \/ (c.t \in {"key_reply", "key_negative"} /\ ph # "key") \/ (c.t = "pin_reply" /\ ph # "pin")
              /\ Says(c, <<>>) /\ UNCHANGED hciPh
  /\ UNCHANGED <<hci, hciAcl, hciLeft>>

-----------------------------------------------------------------------------
(* The phones.                                                             *)

Alone(p) == HciOverlap \/ \A q \in HciPhones \ {p} : hciPh[q].ph \notin {"paging", "key", "pin"}

PhonePages(p) ==
  /\ hciPh[p].ph = "idle" /\ ctl.scan >= 2 /\ Alone(p)
  /\ hciLeft.page > 0 /\ hciLeft' = [hciLeft EXCEPT !.page = @ - 1]
  /\ hciPh' = [hciPh EXCEPT ![p].ph = "paging"] /\ hciEv' = Append(hciEv, Msg("request", p, 0))
  /\ UNCHANGED <<hci, hciAcl, ctl>>

PhoneAuthenticates(p) ==
  /\ hciPh[p].ph = "linked" /\ Alone(p)
  /\ hciPh' = [hciPh EXCEPT ![p].ph = "key"] /\ hciEv' = Append(hciEv, Msg("key", p, 0))
  /\ UNCHANGED <<hci, hciAcl, ctl, hciLeft>>

\* The user has the phone forget the board.
PhoneForgets(p) ==
  /\ hciPh[p].ph = "idle" /\ hciPh[p].key # 0
  /\ hciPh' = [hciPh EXCEPT ![p].key = 0]
  /\ UNCHANGED <<hci, hciEv, hciAcl, ctl, hciLeft>>

PhoneLeaves(p) ==
  /\ hciPh[p].ph \in {"linked", "key", "pin", "ok"}
  /\ hciPh' = [hciPh EXCEPT ![p].ph = "idle", ![p].half = 0] /\ hciEv' = Append(hciEv, Msg("gone", p, 0))
  /\ hciAcl' = SelectSeq(hciAcl, LAMBDA f : f.p # p)
  /\ UNCHANGED <<hci, ctl, hciLeft>>

\* A packet of L2CAP, numbered, in one fragment or in two; the phone may leave between them.
PhoneSendsData(p) ==
  /\ hciPh[p].ph \in {"linked", "key", "pin", "ok"}
  /\ \/ /\ hciPh[p].half = 0 /\ hciLeft.data > 0 /\ hciLeft' = [hciLeft EXCEPT !.data = @ - 1]
        /\ \E last \in BOOLEAN :
             /\ hciAcl' = Append(hciAcl, [p |-> p, n |-> hciLeft.data, first |-> TRUE, last |-> last])
             /\ hciPh' = [hciPh EXCEPT ![p].half = IF last THEN 0 ELSE hciLeft.data]
     \/ /\ hciPh[p].half # 0
        /\ hciAcl' = Append(hciAcl, [p |-> p, n |-> hciPh[p].half, first |-> FALSE, last |-> TRUE])
        /\ hciPh' = [hciPh EXCEPT ![p].half = 0]
        /\ UNCHANGED hciLeft
  /\ UNCHANGED <<hci, hciEv, ctl>>

HciNext ==
  \/ EventHandled \/ CtrlOutDone \/ FragmentHandled \/ Attached \/ Detached \/ CtlExecutes
  \/ \E p \in HciPhones : PhonePages(p) \/ PhoneAuthenticates(p) \/ PhoneForgets(p) \/ PhoneLeaves(p) \/ PhoneSendsData(p)

-----------------------------------------------------------------------------
(* Properties.                                                             *)

\* num_cmd_packets is what the controller allows: no command is sent without its leave and none
\* is dropped by the transport, whatever the order in which the ends of transfers and commands
\* are noticed ("pre: numcmds >= 0", hci_send_cmd).
HciCredits ==
  hci.up => hci.cmds = 1 - Len(ctl.q) - Cardinality({i \in DOMAIN hciEv : hciEv[i].t = "done"})

\* When nothing is on its way the stack works, can be found and connected to, and no phone waits
\* for an answer to its page, its key or its PIN; the connection is the one that is up, and the
\* key of a phone that has paired is the one kept for it.
HciServes ==
  hci.up /\ hciEv = <<>> /\ ctl.q = <<>> /\ ~hci.busy =>
    /\ hci.st = "WORKING" /\ ctl.scan = 3 /\ hci.decl = 0
    /\ \A p \in HciPhones : /\ hciPh[p].ph \notin {"paging", "key", "pin"}
                            /\ hciPh[p].ph # "idle" <=> hci.conn.a = p
                            /\ hciPh[p].ph = "ok" => GetLinkKey(hci.keys, p) = hciPh[p].key

\* L2CAP only gets whole packets, of fragments that belong together, although a phone may leave
\* and return between two of them; and the list of link keys stays sound when dongles come and go.
HciPacketsWhole ==
  /\ \A i \in DOMAIN hci.got : \A j, k \in DOMAIN hci.got[i] : hci.got[i][j] = hci.got[i][k]
  /\ KeyListSound(hci.keys)
=============================================================================
