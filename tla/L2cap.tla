------------------------------- MODULE L2cap -------------------------------
(***************************************************************************)
(* The channels a phone opens over an ACL connection: l2cap.c above the    *)
(* transport (hci_transport_mchpusb.c over usb_host_bluetooth.c), between  *)
(* a phone and the two services of the board, RFCOMM and SDP.  A handler   *)
(* is an operator on the record l2; a packet makes the bulk endpoint busy, *)
(* so a call of l2cap_run sends at most one.                               *)
(***************************************************************************)
EXTENDS Integers, Sequences, FiniteSets

LOCAL INSTANCE SequencesExt

CONSTANTS L2Channels,   \* MAX_NO_L2CAP_CHANNELS
          L2Slots,      \* ACL packets the controller buffers
          L2Phone,      \* channel ids of the phone
          L2Pending,    \* NR_PENDING_SIGNALING_RESPONSES
          L2Budget      \* bounds: connections and queries the phone asks for, commands of hci.c, losses of the connection

ASSUME L2Assumption ==
  {L2Channels, L2Slots, L2Pending} \subseteq Nat \ {0} /\ L2Budget \in [{"asks", "queries", "cmds", "drops"} -> Nat]

VARIABLES l2,      \* the board: channels, responses pending, transport; late: what waits for the end of a
                   \* transfer that nothing follows; lost: channel ids whose response found the array full
          l2In,    \* packets on their way to the board
          l2Out,   \* packets on their way to the phone
          l2Peer,  \* the phone's channels
          l2Left   \* what is left of L2Budget

l2Vars == <<l2, l2In, l2Out, l2Peer, l2Left>>

NR_BUFFERED_ACL == 3
Psm == {"RFCOMM", "SDP", "unknown"}

Packet(t, c) == [t |-> t, c |-> c]
Idle == [ph |-> "idle", req |-> 0, got |-> {}, query |-> FALSE]

\* A phone's channel in another phase, where what it knows of the configuration is over
Phase(q, ph) == [Idle EXCEPT !.ph = ph, !.query = q.query]

L2Init ==
  /\ l2 = [ch |-> <<>>, resp |-> <<>>, busy |-> FALSE, cmd |-> TRUE, acl |-> 0, done |-> 0, out |-> <<>>,
           late |-> FALSE, lost |-> {}]
  /\ l2In = <<>> /\ l2Out = <<>> /\ l2Peer = [c \in L2Phone |-> Idle] /\ l2Left = L2Budget

-----------------------------------------------------------------------------
(* Channels of the board: a list, new ones first.                          *)

At(s, c) == SelectInSeq(s.ch, LAMBDA k : k.c = c)
FreeAt(s, i) == [s EXCEPT !.ch = RemoveAt(@, i)]
Flag(s, i, add, del) == [s EXCEPT !.ch[i].var = (@ \cup add) \ del]

\* hci_can_send_packet_now for ACL packets: the endpoint, and a buffer of the controller
CanSendAcl(s) == ~s.busy /\ s.acl < L2Slots

\* hci_send_acl_packet behind l2cap_send_signaling_packet
SendAcl(s, p) ==
  IF CanSendAcl(s) THEN [s EXCEPT !.out = Append(@, p), !.busy = TRUE, !.acl = @ + 1] ELSE s

\* l2cap_hand_out_credits
HandOutCredits(s) ==
  [s EXCEPT !.ch = [i \in DOMAIN @ |->
     IF s.acl < L2Slots /\ @[i].st = "OPEN" /\ s.acl < NR_BUFFERED_ACL /\ @[i].granted = 0
     THEN [@[i] EXCEPT !.granted = 1] ELSE @[i]]]

\* Mutant: a channel opens on the phone's answer alone.
OpenIfReadyEarly(s, i) ==
  IF "RCVD_CONF_RSP" \in s.ch[i].var THEN [s EXCEPT !.ch[i].st = "OPEN", !.ch[i].granted = @ + 1] ELSE s

\* l2cap_channel_ready_for_open; the first credit comes with L2CAP_EVENT_CHANNEL_OPENED
OpenIfReady(s, i) ==
  IF {"RCVD_CONF_RSP", "SENT_CONF_RSP"} \subseteq s.ch[i].var
  THEN [s EXCEPT !.ch[i].st = "OPEN", !.ch[i].granted = @ + 1] ELSE s

\* CONFIGURE_RESPONSE (with the flag of a request to be continued) or CONFIGURE_REQUEST
RunConfig(s, i) ==
  LET c == s.ch[i].c  var == s.ch[i].var
  IN OpenIfReady(
       CASE "SEND_CONF_RSP" \in var ->
              SendAcl(Flag(s, i, IF "RSP_CONT" \in var THEN {} ELSE {"SENT_CONF_RSP"}, {"SEND_CONF_RSP", "RSP_CONT"}),
                      Packet(IF "RSP_CONT" \in var THEN "CONF_RSP_CONT" ELSE "CONF_RSP", c))
         [] "SEND_CONF_RSP" \notin var /\ "SEND_CONF_REQ" \in var ->
              SendAcl(Flag(s, i, {"SENT_CONF_REQ"}, {"SEND_CONF_REQ"}), Packet("CONF_REQ", c))
         [] OTHER -> s, i)

\* One channel of the loop in l2cap_run
RunChannel(s, i) ==
  LET k == s.ch[i]
  IN CASE k.st = "SEND_DECLINE" -> FreeAt(SendAcl(s, Packet("CONN_REFUSED", k.c)), i)
       [] k.st = "SEND_ACCEPT" ->
            SendAcl([s EXCEPT !.ch[i].st = "CONFIG", !.ch[i].var = @ \cup {"SEND_CONF_REQ"}], Packet("CONN_RSP", k.c))
       [] k.st = "CONFIG" -> RunConfig(s, i)
       [] k.st = "SEND_DISC_RSP" -> FreeAt(SendAcl(s, Packet("DISC_RSP", k.c)), i)
       [] k.st = "SEND_DISC_REQ" -> SendAcl([s EXCEPT !.ch[i].st = "WAIT_DISCONNECT"], Packet("DISC_REQ", k.c))
       [] OTHER -> s

\* A channel the loop has something to do for
HasWork(k) ==
  \/ k.st \in {"SEND_DECLINE", "SEND_ACCEPT", "SEND_DISC_RSP", "SEND_DISC_REQ"}
  \/ k.st = "CONFIG" /\ k.var \cap {"SEND_CONF_RSP", "SEND_CONF_REQ"} # {}

\* l2cap_run: a pending response, or else the first channel with something to send, if a
\* command could be sent as well
L2Run(o) ==
  LET s == [o EXCEPT !.late = FALSE]
      i == SelectInSeq(s.ch, HasWork)
  IN IF s.resp # <<>> /\ CanSendAcl(s) THEN [SendAcl(s, Head(s.resp)) EXCEPT !.resp = Tail(@)]
     ELSE IF s.cmd /\ CanSendAcl(s) /\ i # 0 THEN RunChannel(s, i) ELSE s

-----------------------------------------------------------------------------
(* What the phone sends.                                                   *)

\* l2cap_register_signaling_response: dropped when the array is full
Respond(s, p) ==
  IF Len(s.resp) < L2Pending THEN L2Run([s EXCEPT !.resp = Append(@, p)]) ELSE [s EXCEPT !.lost = @ \cup {p.c}]

\* RFCOMM and SDP serve one connection each (rfcomm_multiplexer_for_addr, l2cap_cid of sdp.c).
Taken(s, psm) == \E i \in DOMAIN s.ch : s.ch[i].psm = psm /\ s.ch[i].up

\* l2cap_handle_connection_request, L2CAP_EVENT_INCOMING_CONNECTION and the answer of the service
ConnectionRequest(s, p) ==
  IF p.psm = "unknown" \/ Len(s.ch) = L2Channels THEN Respond(s, Packet("CONN_REFUSED", p.c))
  ELSE L2Run([s EXCEPT !.ch = <<[c |-> p.c, psm |-> p.psm, var |-> {}, granted |-> 0, up |-> ~Taken(s, p.psm),
                                 st |-> IF Taken(s, p.psm) THEN "SEND_DECLINE" ELSE "SEND_ACCEPT"]>> \o @])

\* l2cap_signaling_handler_channel
ChannelCommand(s, i, t) ==
  CASE t = "DISC_REQ" ->
         IF s.ch[i].st \in {"CONFIG", "OPEN", "SEND_DISC_REQ", "WAIT_DISCONNECT"}
         THEN L2Run([s EXCEPT !.ch[i].st = "SEND_DISC_RSP"]) ELSE s
    [] t \in {"CONF_REQ", "CONF_REQ_CONT"} /\ s.ch[i].st = "CONFIG" ->
         OpenIfReady(Flag(s, i, {"SEND_CONF_RSP"} \cup (IF t = "CONF_REQ" THEN {} ELSE {"RSP_CONT"}), {}), i)
    [] t = "CONF_RSP" /\ s.ch[i].st = "CONFIG" -> OpenIfReady(Flag(s, i, {"RCVD_CONF_RSP"}, {}), i)
    [] t = "DISC_RSP" /\ s.ch[i].st = "WAIT_DISCONNECT" -> FreeAt(s, i)
    [] OTHER -> s

\* l2cap_signaling_handler_dispatch and the data of a channel, in l2cap_acl_handler.  A query is an
\* ECHO_REQUEST, an INFORMATION_REQUEST or a command that is rejected: each registers a response.
L2Handle(s, p) ==
  L2Run(CASE p.t = "CONN_REQ" -> ConnectionRequest(s, p)
          [] p.t = "QUERY" -> Respond(s, Packet("ANSWER", p.c))
          [] p.t \notin {"CONN_REQ", "QUERY"} /\ At(s, p.c) # 0 -> ChannelCommand(s, At(s, p.c), p.t)
          [] OTHER -> s)

-----------------------------------------------------------------------------
(* Actions of the board.                                                   *)

L2Board(s) == l2' = [s EXCEPT !.out = <<>>] /\ l2Out' = l2Out \o s.out

L2Receives ==
  /\ l2In # <<>> /\ l2In' = Tail(l2In)
  /\ L2Board(L2Handle(l2, Head(l2In)))
  /\ UNCHANGED <<l2Peer, l2Left>>

\* BLUETOOTH_EVENT_WRITE_BULK_DONE: DAEMON_EVENT_HCI_PACKET_SENT goes to the services only, and
\* l2cap_run is not called.
L2PacketSent ==
  /\ l2.busy
  /\ L2Board([l2 EXCEPT !.busy = FALSE,
                         !.late = l2.cmd /\ l2.acl = 0 /\ (l2.resp # <<>> \/ \E i \in DOMAIN l2.ch : HasWork(l2.ch[i]))])
  /\ UNCHANGED <<l2In, l2Peer, l2Left>>

\* Mutant: completed packets hand out credits, and what waits for the transport stays.
L2PacketsCompletedIdle ==
  /\ l2.done > 0
  /\ L2Board(HandOutCredits([l2 EXCEPT !.done = 0, !.acl = @ - l2.done]))
  /\ UNCHANGED <<l2In, l2Peer, l2Left>>

\* HCI_EVENT_NUMBER_OF_COMPLETED_PACKETS: l2cap_run, then l2cap_hand_out_credits.  The interrupt
\* endpoint is polled before the bulk endpoint, so the end of the transfer may be noticed later.
L2PacketsCompleted ==
  /\ l2.done > 0
  /\ L2Board(HandOutCredits(L2Run([l2 EXCEPT !.done = 0, !.acl = @ - l2.done])))
  /\ UNCHANGED <<l2In, l2Peer, l2Left>>

\* A command of hci.c, and HCI_EVENT_COMMAND_COMPLETE or _STATUS
HciCommand ==
  /\ l2.cmd /\ l2Left.cmds > 0 /\ l2Left' = [l2Left EXCEPT !.cmds = @ - 1]
  /\ L2Board([l2 EXCEPT !.cmd = FALSE])
  /\ UNCHANGED <<l2In, l2Peer>>

HciCommandDone ==
  /\ ~l2.cmd
  /\ L2Board(L2Run([l2 EXCEPT !.cmd = TRUE]))
  /\ UNCHANGED <<l2In, l2Peer, l2Left>>

\* l2cap_send_prepared, for a service that may send (l2cap_can_send_packet_now)
ServiceSends ==
  /\ CanSendAcl(l2)
  /\ \E i \in DOMAIN l2.ch :
       /\ l2.ch[i].granted > 0 /\ l2.ch[i].up
       /\ L2Board(HandOutCredits(SendAcl([l2 EXCEPT !.ch[i].granted = @ - 1], Packet("DATA", l2.ch[i].c))))
  /\ UNCHANGED <<l2In, l2Peer, l2Left>>

\* l2cap_disconnect_internal, by the RFCOMM multiplexer
ServiceDisconnects ==
  /\ \E i \in DOMAIN l2.ch :
       /\ l2.ch[i].st = "OPEN" /\ l2.ch[i].psm = "RFCOMM"
       /\ L2Board(L2Run([l2 EXCEPT !.ch[i].st = "SEND_DISC_REQ", !.ch[i].up = FALSE]))
  /\ UNCHANGED <<l2In, l2Peer, l2Left>>

\* HCI_EVENT_DISCONNECTION_COMPLETE: every channel of the connection is closed and freed.  The
\* responses stay; the phone of the next connection knows none of their identifiers.
Disconnected ==
  /\ l2Left.drops > 0 /\ l2Left' = [l2Left EXCEPT !.drops = @ - 1]
  /\ l2' = [l2 EXCEPT !.ch = <<>>, !.acl = 0, !.done = 0, !.lost = {},
                         !.resp = [i \in DOMAIN @ |-> Packet("STALE", @[i].c)]]
  /\ l2In' = <<>> /\ l2Out' = <<>> /\ l2Peer' = [c \in L2Phone |-> Idle]

-----------------------------------------------------------------------------
(* The phone.                                                              *)

\* Bound: one packet of a channel at a time is on its way to the board.
PeerMay(c) == \A i \in DOMAIN l2In : l2In[i].c # c

PeerSends(c, t, q) ==
  /\ PeerMay(c) /\ l2In' = Append(l2In, Packet(t, c))
  /\ l2Peer' = [l2Peer EXCEPT ![c] = q] /\ UNCHANGED <<l2, l2Out, l2Left>>

PeerConnects(c) ==
  /\ l2Peer[c].ph = "idle" /\ PeerMay(c)
  /\ l2Left.asks > 0 /\ l2Left' = [l2Left EXCEPT !.asks = @ - 1]
  /\ \E psm \in Psm :
       /\ l2In' = Append(l2In, [t |-> "CONN_REQ", c |-> c, psm |-> psm])
       /\ l2Peer' = [l2Peer EXCEPT ![c] = Phase(@, "asked")]
  /\ UNCHANGED <<l2, l2Out>>

\* Its side of the configuration, in one request or in two
PeerConfigures(c) ==
  /\ l2Peer[c].ph = "config"
  /\ \/ l2Peer[c].req = 0 /\ PeerSends(c, "CONF_REQ", [l2Peer[c] EXCEPT !.req = 2])
     \/ l2Peer[c].req = 0 /\ PeerSends(c, "CONF_REQ_CONT", [l2Peer[c] EXCEPT !.req = 1])
     \/ l2Peer[c].req = 1 /\ "RSP_CONT" \in l2Peer[c].got /\ PeerSends(c, "CONF_REQ", [l2Peer[c] EXCEPT !.req = 2])
     \/ "REQ" \in l2Peer[c].got
        /\ LET got == (l2Peer[c].got \ {"REQ"}) \cup {"ANSWERED"}
           IN PeerSends(c, "CONF_RSP", IF "RSP" \in got THEN Phase(l2Peer[c], "open") ELSE [l2Peer[c] EXCEPT !.got = got])

PeerQueries(c) ==
  /\ ~l2Peer[c].query /\ PeerMay(c)
  /\ l2Left.queries > 0 /\ l2Left' = [l2Left EXCEPT !.queries = @ - 1]
  /\ l2In' = Append(l2In, Packet("QUERY", c)) /\ l2Peer' = [l2Peer EXCEPT ![c].query = TRUE]
  /\ UNCHANGED <<l2, l2Out>>

PeerDisconnects(c) == l2Peer[c].ph \in {"config", "open"} /\ PeerSends(c, "DISC_REQ", Phase(l2Peer[c], "closing"))

PeerReceives ==
  /\ l2Out # <<>> /\ l2Out' = Tail(l2Out)
  /\ LET p == Head(l2Out)  c == p.c  q == l2Peer[c]
     IN /\ l2Peer' = [l2Peer EXCEPT ![c] =
             CASE p.t = "CONN_RSP" -> Phase(q, "config")
               [] p.t = "CONF_REQ" /\ q.ph = "config" -> [q EXCEPT !.got = @ \cup {"REQ"}]
               [] p.t = "CONF_RSP" /\ q.ph = "config" ->
                    IF "ANSWERED" \in q.got THEN Phase(q, "open") ELSE [q EXCEPT !.got = @ \cup {"RSP"}]
               [] p.t = "CONF_RSP_CONT" /\ q.ph = "config" -> [q EXCEPT !.got = @ \cup {"RSP_CONT"}]
               [] p.t = "DISC_REQ" -> IF q.ph = "closing" THEN q ELSE Phase(q, "idle")
               [] p.t \in {"CONN_REFUSED", "DISC_RSP"} -> Phase(q, "idle")
               [] p.t = "ANSWER" -> [q EXCEPT !.query = FALSE]
               [] OTHER -> q]
        /\ l2In' = IF p.t = "DISC_REQ" THEN Append(l2In, Packet("DISC_RSP", c)) ELSE l2In
        /\ l2' = [l2 EXCEPT !.done = @ + 1]
  /\ UNCHANGED l2Left

L2Next ==
  \/ L2Receives \/ L2PacketSent \/ L2PacketsCompleted \/ HciCommand \/ HciCommandDone
  \/ ServiceSends \/ ServiceDisconnects \/ Disconnected \/ PeerReceives
  \/ \E c \in L2Phone : PeerConnects(c) \/ PeerQueries(c) \/ PeerConfigures(c) \/ PeerDisconnects(c)

-----------------------------------------------------------------------------
(* Properties.                                                             *)

\* A packet of a service reaches the phone only on a channel that is open, or being closed, on
\* the phone's side: the two ends agree on the order of configuration and data although either
\* may finish first, and a channel id the phone uses again is never mistaken for the one before.
\* Packets at the controller are those num_acl_packets_sent counts.
L2Agrees ==
  /\ l2Out # <<>> /\ Head(l2Out).t = "DATA" => l2Peer[Head(l2Out).c].ph \in {"open", "closing"}
  /\ l2.acl = Len(l2Out) + l2.done

\* When nothing is on its way any more, no request of the phone is left without an answer, no
\* channel half configured and nothing of the board unsent, whatever has competed for the
\* endpoints, the pool of channels and the array of responses: a response that l2cap_run could
\* not send is sent by a later call of it.  Two cases are excepted: a response that found the array
\* full, which is dropped; and the end of a transfer noticed after the controller has reported
\* its packet as completed, which calls nothing that would send what waits for it.
L2Settled == l2In = <<>> /\ l2Out = <<>> /\ ~l2.busy /\ l2.done = 0 /\ l2.cmd
L2RequestsEnd ==
  L2Settled /\ ~l2.late =>
    /\ \A i \in DOMAIN l2.resp : l2.resp[i].t = "STALE"
    /\ \A i \in DOMAIN l2.ch : ~HasWork(l2.ch[i])
    /\ \A c \in L2Phone \ l2.lost : /\ l2Peer[c].ph \notin {"asked", "closing"} /\ ~l2Peer[c].query
                                     /\ l2Peer[c].ph = "config" => ENABLED PeerConfigures(c)

\* Not so: what waits for the transport is sent when it is free (README, section 6).
L2NothingLate == L2Settled => ~l2.late
=============================================================================
