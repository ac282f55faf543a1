------------------------------- MODULE Rfcomm -------------------------------
(***************************************************************************)
(* The serial port the board offers over Bluetooth: rfcomm.c under the     *)
(* client side of bt_connection.c, above one L2CAP channel.  The pools of  *)
(* config.h hold one multiplexer and one channel (MAX_SPP_CONNECTIONS).    *)
(* The handlers are operators on the record rf, as one call of a handler   *)
(* runs to its end.  A call of rfcomm_run inside a handler that ends with  *)
(* rfcomm_run is left to the latter: a frame makes the transport busy, so  *)
(* the two send at most one frame between them.                            *)
(***************************************************************************)
EXTENDS Integers, Sequences, FiniteSets

LOCAL INSTANCE SequencesExt

CONSTANTS RfCredits,      \* credits the service grants a new channel (0x30 in the code)
          RfPeerCredits,  \* credits the phone grants in PN or in a UIH_PF frame
          RfSlots,        \* ACL packets the controller buffers
          RfWire          \* bound: frames on the way to the board

ASSUME RfAssumption == {RfCredits, RfPeerCredits, RfSlots, RfWire} \subseteq Nat \ {0}

VARIABLES rf,     \* the board: link, multiplexer, channel, application; late: a frame waits that no call will send
          rfIn,   \* frames on their way to the board
          rfOut,  \* frames on their way to the phone
          phone   \* the phone: phase, whether it negotiates (PN), credits it holds and has granted, MSC answers it owes

rfVars == <<rf, rfIn, rfOut, phone>>

None == [st |-> "NONE"]
Spp == 2          \* the dlci of server channel 1
Other == 4        \* a dlci no service is registered for
NR_BUFFERED_ACL_PACKETS == 3

Frame(t, d) == [t |-> t, d |-> d, n |-> 0]
Credits(n) == [t |-> "UIH_PF", d |-> Spp, n |-> n]

RfInit ==
  /\ rf = [link |-> FALSE, grant |-> 0, busy |-> FALSE, acl |-> 0, mux |-> None, ch |-> None, gen |-> 1,
           id |-> 0, open |-> FALSE, owed |-> 0, out |-> <<>>, late |-> FALSE]
  /\ rfIn = <<>> /\ rfOut = <<>>
  /\ phone = [ph |-> "idle", has |-> 0, gave |-> 0, owes |-> 0, msc |-> FALSE, pn |-> TRUE]

-----------------------------------------------------------------------------
(* The application: PacketHandler of bt_connection.c.                      *)

AppClosed(s) == [s EXCEPT !.open = FALSE, !.id = 0, !.owed = 0]
AppOpened(s) == [s EXCEPT !.id = s.ch.cid]
AppOpenFailed(s) == s
\* rfcomm_send_credits saturates at 0xFF, far above what one channel is granted.
AppData(s) == [s EXCEPT !.owed = @ + 1]

\* RFCOMM_EVENT_INCOMING_CONNECTION is accepted at once (rfcomm_accept_connection_internal).
AppIncoming(s) ==
  [s EXCEPT !.id = s.ch.cid,
            !.ch.var = @ \cup {"ACCEPTED"} \cup (IF "RCVD_PN" \in @ THEN {"SEND_PN_RSP"} ELSE {})
                                          \cup (IF "RCVD_SABM" \in @ THEN {"SEND_UA"} ELSE {})]

-----------------------------------------------------------------------------
(* Sending.  rf.out collects the frame a handler sends.                    *)

CanSend(s) == s.link /\ s.grant > 0 /\ ~s.busy /\ s.acl < RfSlots

\* rfcomm_hand_out_credits
HandOut(s) ==
  IF s.ch.st = "OPEN" /\ s.ch.granted = 0 /\ s.ch.out > 0 /\ s.mux.l2 > 0 THEN [s EXCEPT !.ch.granted = 1] ELSE s

\* l2cap_hand_out_credits: the condition, and the credit that L2CAP_EVENT_CREDITS brings.  The
\* handler calls rfcomm_run before it hands out credits of its own.
MayHandOut(s) == s.link /\ s.grant = 0 /\ s.acl < RfSlots /\ s.acl < NR_BUFFERED_ACL_PACKETS
Credit(s) == [s EXCEPT !.grant = 1, !.mux.l2 = @ + 1]
HandOutIfOpen(s) == IF s.mux # None /\ s.mux.st = "OPEN" THEN HandOut(s) ELSE s

\* Inside a call that sends, where rfcomm_run finds the transport busy.
L2HandOut(s) == IF MayHandOut(s) THEN HandOutIfOpen(Credit(s)) ELSE s

\* rfcomm_send_packet_for_multiplexer: a frame that cannot be sent is dropped, with an error
\* that only rfcomm_send_internal looks at.
SendFrame(s, f) ==
  IF ~CanSend(s) THEN s
  ELSE L2HandOut([s EXCEPT !.out = Append(@, f), !.busy = TRUE, !.acl = @ + 1, !.grant = @ - 1,
                           !.mux.l2 = IF @ > 0 THEN @ - 1 ELSE @])

-----------------------------------------------------------------------------
(* Multiplexer and channel.                                                *)

NewMux == [st |-> "W4_SABM_0", l2 |-> 0, dm |-> 0]

\* rfcomm_channel_initialize for the registered service; an id differs from the one before it.
NewChannel(s) == [st |-> "CLOSED", var |-> {}, cid |-> s.gen, out |-> 0, in |-> 0, new |-> RfCredits, granted |-> 0]

FreeChannel(s) == [s EXCEPT !.ch = None]

\* rfcomm_multiplexer_finalize, up to l2cap_disconnect_internal
Finalize(s) ==
  LET t == IF s.ch = None THEN s ELSE IF s.ch.st = "OPEN" THEN AppClosed(s) ELSE AppOpenFailed(s)
  IN [FreeChannel(t) EXCEPT !.mux = None, !.link = FALSE, !.grant = 0]

\* rfcomm_multiplexer_state_machine with MULT_EV_READY_TO_SEND
MuxReady(s) ==
  LET t == IF s.mux.dm # 0 THEN [SendFrame(s, Frame("DM", s.mux.dm)) EXCEPT !.mux.dm = 0] ELSE s
  IN CASE t.mux.st = "SEND_UA_0" -> SendFrame([t EXCEPT !.mux.st = "OPEN"], Frame("UA", 0))
       [] t.mux.st = "SEND_UA_0_AND_DISC" -> Finalize(SendFrame([t EXCEPT !.mux.st = "CLOSED"], Frame("UA", 0)))
       [] OTHER -> t

\* rfcomm_channel_ready_for_open and rfcomm_channel_opened
TryOpen(s) ==
  IF {"RCVD_MSC_RSP", "SENT_MSC_RSP", "SENT_CREDITS"} \subseteq s.ch.var /\ s.ch.out > 0
  THEN HandOut(AppOpened([s EXCEPT !.ch.st = "OPEN"])) ELSE s

\* Mutant: the credits granted are granted again.
SendCreditsKept(s) ==
  IF s.ch.new = 0 THEN s ELSE [SendFrame(s, Credits(s.ch.new)) EXCEPT !.ch.in = @ + s.ch.new]

\* rfcomm_channel_send_credits: credits_incoming grows whether or not the frame was sent.
SendCredits(s) ==
  IF s.ch.new = 0 THEN s
  ELSE [SendFrame(s, Credits(s.ch.new)) EXCEPT !.ch.in = @ + s.ch.new, !.ch.new = 0]

Without(s, flag, added) == [s EXCEPT !.ch.var = (@ \ {flag}) \cup added]

\* CH_EVT_READY_TO_SEND while the channel is set up by the phone
SetupReady(s) ==
  LET t == IF "SEND_PN_RSP" \in s.ch.var THEN SendFrame(Without(s, "SEND_PN_RSP", {}), Frame("PN_RSP", Spp))
           ELSE IF "SEND_UA" \in s.ch.var THEN SendFrame(Without(s, "SEND_UA", {}), Frame("UA", Spp)) ELSE s
  IN IF {"ACCEPTED", "RCVD_SABM"} \subseteq t.ch.var
     THEN [t EXCEPT !.ch.var = @ \cup {"SEND_MSC_CMD", "SEND_CREDITS"}, !.ch.st = "DLC_SETUP"] ELSE t

\* Mutant: the answer to the phone's MSC command is sent and not remembered.
DlcReadyUnmarked(s) ==
  TryOpen(CASE "SEND_MSC_CMD" \in s.ch.var -> SendFrame(Without(s, "SEND_MSC_CMD", {}), Frame("MSC_CMD", Spp))
            [] "SEND_MSC_CMD" \notin s.ch.var /\ "SEND_MSC_RSP" \in s.ch.var ->
                 SendFrame(Without(s, "SEND_MSC_RSP", {}), Frame("MSC_RSP", Spp))
            [] s.ch.var \cap {"SEND_MSC_CMD", "SEND_MSC_RSP"} = {} /\ "SEND_CREDITS" \in s.ch.var ->
                 SendCredits(Without(s, "SEND_CREDITS", {"SENT_CREDITS"}))
            [] OTHER -> s)

DlcReady(s) ==
  TryOpen(CASE "SEND_MSC_CMD" \in s.ch.var -> SendFrame(Without(s, "SEND_MSC_CMD", {}), Frame("MSC_CMD", Spp))
            [] "SEND_MSC_CMD" \notin s.ch.var /\ "SEND_MSC_RSP" \in s.ch.var ->
                 SendFrame(Without(s, "SEND_MSC_RSP", {"SENT_MSC_RSP"}), Frame("MSC_RSP", Spp))
            [] s.ch.var \cap {"SEND_MSC_CMD", "SEND_MSC_RSP"} = {} /\ "SEND_CREDITS" \in s.ch.var ->
                 SendCredits(Without(s, "SEND_CREDITS", {"SENT_CREDITS"}))
            [] OTHER -> s)

OpenReady(s) ==
  IF "SEND_MSC_RSP" \in s.ch.var THEN SendFrame(Without(s, "SEND_MSC_RSP", {}), Frame("MSC_RSP", Spp)) ELSE SendCredits(s)

\* The three ways a channel ends with a frame of its own.
ClosingReady(s) ==
  CASE s.ch.st = "SEND_DM" -> FreeChannel(SendFrame(s, Frame("DM", Spp)))
    [] s.ch.st = "SEND_DISC" -> FreeChannel(AppClosed(SendFrame(s, Frame("DISC", Spp))))
    [] s.ch.st = "SEND_UA_AFTER_DISC" -> FreeChannel(SendFrame(s, Frame("UA", Spp)))

ChannelReady(s) ==
  CASE "SEND_RPN_RSP" \in s.ch.var -> SendFrame(Without(s, "SEND_RPN_RSP", {}), Frame("RPN_RSP", Spp))
    [] "SEND_RPN_RSP" \notin s.ch.var /\ s.ch.st = "INCOMING_SETUP" -> SetupReady(s)
    [] "SEND_RPN_RSP" \notin s.ch.var /\ s.ch.st = "DLC_SETUP" -> DlcReady(s)
    [] "SEND_RPN_RSP" \notin s.ch.var /\ s.ch.st = "OPEN" -> OpenReady(s)
    [] "SEND_RPN_RSP" \notin s.ch.var /\ s.ch.st \in {"SEND_DM", "SEND_DISC", "SEND_UA_AFTER_DISC"} -> ClosingReady(s)
    [] OTHER -> s

\* rfcomm_run: the multiplexer first, then the channel if the transport is still free.
Run(o) ==
  LET s == [o EXCEPT !.late = FALSE]
      t == IF s.mux # None /\ CanSend(s) THEN MuxReady(s) ELSE s
  IN IF t.ch # None /\ CanSend(t) THEN ChannelReady(t) ELSE t

-----------------------------------------------------------------------------
(* Frames for the channel.                                                 *)

\* rfcomm_channel_accept_pn: the credits replace what the channel had.
AcceptPn(s, f) == [s EXCEPT !.ch.out = f.n, !.ch.var = @ \cup {"RCVD_PN"}]

\* A channel that is new or being set up by the phone
SetupEvent(s, f) ==
  LET t == CASE f.t = "SABM" -> [s EXCEPT !.ch.var = @ \cup {"RCVD_SABM"}]
             [] f.t = "PN" -> AcceptPn(s, f)
             [] OTHER -> s
      answer == CASE f.t = "SABM" -> {"SEND_UA"} [] f.t = "PN" -> {"SEND_PN_RSP"} [] OTHER -> {}
  IN IF f.t \notin {"SABM", "PN"} THEN s
     ELSE IF s.ch.st = "CLOSED" THEN AppIncoming([t EXCEPT !.ch.st = "INCOMING_SETUP"])
     ELSE IF "ACCEPTED" \in s.ch.var THEN [t EXCEPT !.ch.var = @ \cup answer] ELSE t

DlcEvent(s, f) ==
  TryOpen(CASE f.t = "MSC_CMD" -> [s EXCEPT !.ch.var = @ \cup {"SEND_MSC_RSP"}]
            [] f.t = "MSC_RSP" -> [s EXCEPT !.ch.var = @ \cup {"RCVD_MSC_RSP"}]
            [] OTHER -> s)

\* rfcomm_channel_state_machine for what the phone sends
ChannelEvent(s, f) ==
  CASE f.t = "DISC" -> [AppClosed(s) EXCEPT !.ch.st = "SEND_UA_AFTER_DISC"]
    [] f.t = "DM" -> FreeChannel(AppClosed(s))
    [] f.t = "RPN" -> [s EXCEPT !.ch.var = @ \cup {"SEND_RPN_RSP"}]
    [] f.t \notin {"DISC", "DM", "RPN"} /\ s.ch.st \in {"CLOSED", "INCOMING_SETUP"} -> SetupEvent(s, f)
    [] f.t \notin {"DISC", "DM", "RPN"} /\ s.ch.st = "DLC_SETUP" -> DlcEvent(s, f)
    [] f.t = "MSC_CMD" /\ s.ch.st = "OPEN" -> [s EXCEPT !.ch.var = @ \cup {"SEND_MSC_RSP"}]
    [] OTHER -> s

\* rfcomm_channel_state_machine_2: a frame for a dlci without a channel makes one, or is refused.
ChannelFrame(s, f) ==
  IF f.d = Spp /\ s.ch # None THEN ChannelEvent(s, f)
  ELSE IF f.d = Spp /\ f.t \in {"SABM", "PN", "RPN"}
       THEN ChannelEvent([s EXCEPT !.ch = NewChannel(s), !.gen = 3 - @], f)
       ELSE [s EXCEPT !.mux.dm = f.d]

\* rfcomm_channel_packet_handler_uih: credits first, then the data
UihFrame(s, f) ==
  IF s.ch = None THEN s
  ELSE LET t == IF f.t # "UIH_PF" THEN s
                ELSE LET c == [s EXCEPT !.ch.out = @ + f.n] IN IF c.ch.st = "DLC_SETUP" THEN TryOpen(c) ELSE c
           u == IF f.t # "UIH" THEN t ELSE AppData([t EXCEPT !.ch.in = IF @ > 0 THEN @ - 1 ELSE @])
       IN HandOut(u)

\* rfcomm_multiplexer_l2cap_packet_handler, and what rfcomm_packet_handler does with the rest
MuxFrame(s, f) ==
  CASE f.t = "SABM" /\ s.mux.st = "W4_SABM_0" -> [s EXCEPT !.mux.st = "SEND_UA_0"]
    [] f.t = "DISC" -> [s EXCEPT !.mux.st = "SEND_UA_0_AND_DISC"]
    [] f.t = "CLD" -> Finalize(s)
    [] OTHER -> s

Handle(s, f) ==
  CASE s.mux = None -> s
    [] s.mux # None /\ f.d = 0 -> Run(MuxFrame(s, f))
    [] s.mux # None /\ f.d # 0 /\ s.mux.st # "OPEN" -> s
    [] s.mux # None /\ f.d # 0 /\ s.mux.st = "OPEN" ->
         Run(IF f.t \in {"UIH", "UIH_PF"} THEN UihFrame(s, f) ELSE ChannelFrame(s, f))

-----------------------------------------------------------------------------
(* Actions of the board.                                                   *)

\* A handler of the board has run: what it sent is on its way.
Board(s) == rf' = [s EXCEPT !.out = <<>>] /\ rfOut' = rfOut \o s.out

\* The next read of the bulk endpoint is started by BTTasks, before it returns credits.
Reading == rf.id = 0 \/ rf.owed = 0

RfReceives ==
  /\ Reading /\ rfIn # <<>> /\ rfIn' = Tail(rfIn)
  /\ Board(Handle(rf, Head(rfIn)))
  /\ UNCHANGED phone

\* DAEMON_EVENT_HCI_PACKET_SENT: the transport is free again.
RfPacketSent ==
  /\ rf.busy
  /\ Board(Run([rf EXCEPT !.busy = FALSE]))
  /\ UNCHANGED <<rfIn, phone>>

\* HCI_EVENT_NUMBER_OF_COMPLETED_PACKETS, perhaps before the end of the transfer is noticed.
\* RFCOMM hears of it only by a credit.
RfPacketsCompleted ==
  /\ rf.acl > 0
  /\ LET s == [rf EXCEPT !.acl = @ - 1]
     IN Board(IF MayHandOut(s) THEN Run(HandOutIfOpen(Run(Credit(s))))
              ELSE [s EXCEPT !.late = @ \/ Run(s) # [s EXCEPT !.late = FALSE]])
  /\ UNCHANGED <<rfIn, phone>>

\* A packet of L2CAP or SDP takes the endpoint and a buffer of the controller.
OthersSend ==
  /\ rf.link /\ ~rf.busy /\ rf.acl < RfSlots
  /\ Board([rf EXCEPT !.busy = TRUE, !.acl = @ + 1])
  /\ UNCHANGED <<rfIn, phone>>

\* BTTasks returns the credits of the data the client has had.
BTTasks ==
  /\ rf.id # 0 /\ rf.owed > 0
  /\ Board(IF rf.ch = None \/ rf.ch.cid # rf.id THEN [rf EXCEPT !.owed = 0]
           ELSE Run([rf EXCEPT !.ch.new = @ + rf.owed, !.owed = 0]))
  /\ UNCHANGED <<rfIn, phone>>

\* BTIsReadyToOpen and BTOpen
BTOpen ==
  /\ rf.id # 0 /\ ~rf.open
  /\ Board([rf EXCEPT !.open = TRUE])
  /\ UNCHANGED <<rfIn, phone>>

\* BTCanSend and BTSend: rfcomm_can_send, rfcomm_send_internal
BTSend ==
  /\ rf.open /\ rf.ch # None /\ rf.ch.cid = rf.id
  /\ rf.ch.out > 0 /\ rf.ch.granted > 0 /\ CanSend(rf)
  /\ Board(HandOut(SendFrame([rf EXCEPT !.ch.out = @ - 1, !.ch.granted = @ - 1], Frame("UIH", Spp))))
  /\ UNCHANGED <<rfIn, phone>>

\* BTClose: rfcomm_disconnect_internal
BTClose ==
  /\ rf.open
  /\ Board(Run(IF rf.ch = None \/ rf.ch.cid # rf.id THEN rf ELSE [rf EXCEPT !.ch.st = "SEND_DISC"]))
  /\ UNCHANGED <<rfIn, phone>>

-----------------------------------------------------------------------------
(* The phone, a client that follows the protocol, and the link.            *)

PhoneSends(f, p) == rfIn' = Append(rfIn, f) /\ phone' = p /\ UNCHANGED <<rf, rfOut>>

\* L2CAP_EVENT_INCOMING_CONNECTION, declined if there is a multiplexer; CHANNEL_OPENED and the
\* first credit, which does not depend on the controller's buffers
PhoneConnects ==
  /\ phone.ph = "idle" /\ ~rf.link /\ Reading /\ rf.mux = None
  /\ rf' = Credit([rf EXCEPT !.link = TRUE, !.mux = NewMux])
  /\ rfIn' = <<>> /\ rfOut' = <<>>
  /\ \E pn \in BOOLEAN : phone' = [ph |-> "linked", has |-> 0, gave |-> 0, owes |-> 0, msc |-> FALSE, pn |-> pn]

PhoneAsks ==
  /\ Len(rfIn) < RfWire
  /\ \/ phone.ph = "linked" /\ PhoneSends(Frame("SABM", 0), [phone EXCEPT !.ph = "sabm0"])
     \/ phone.ph = "mux" /\ phone.pn /\ \E n \in 0 .. RfPeerCredits : PhoneSends([Frame("PN", Spp) EXCEPT !.n = n], [phone EXCEPT !.ph = "pn", !.gave = n])
     \/ phone.ph = (IF phone.pn THEN "pnd" ELSE "mux") /\ PhoneSends(Frame("SABM", Spp), [phone EXCEPT !.ph = "sabm"])
     \/ phone.ph = "up" /\ phone.owes > 0 /\ PhoneSends(Frame("MSC_RSP", Spp), [phone EXCEPT !.owes = @ - 1])
     \/ phone.ph = "up" /\ ~phone.msc /\ PhoneSends(Frame("MSC_CMD", Spp), [phone EXCEPT !.msc = TRUE])
     \/ phone.ph = "up" /\ phone.gave < RfPeerCredits
        /\ PhoneSends(Credits(RfPeerCredits - phone.gave), [phone EXCEPT !.gave = RfPeerCredits])

\* What a phone may also do.
PhoneMay ==
  /\ Len(rfIn) < RfWire
  /\ \/ phone.ph = "mux" /\ PhoneSends(Frame("RPN", Spp), [phone EXCEPT !.ph = "rpn"])
     \/ phone.ph = "mux" /\ PhoneSends(Frame("PN", Other), [phone EXCEPT !.ph = "refused"])
     \/ phone.ph = "up" /\ phone.has > 0 /\ PhoneSends(Frame("UIH", Spp), [phone EXCEPT !.has = @ - 1])
     \/ phone.ph \in {"pnd", "up"} /\ PhoneSends(Frame("DISC", Spp), [phone EXCEPT !.ph = "disc"])
     \/ phone.ph \in {"mux", "up", "left"} /\ PhoneSends(Frame("DISC", 0), [phone EXCEPT !.ph = "end"])
     \/ phone.ph \in {"mux", "up"} /\ PhoneSends(Frame("CLD", 0), [phone EXCEPT !.ph = "end"])

\* The phone's answer to a frame of the board.  After a DISC of the board the phone
\* opens no channel on this multiplexer: the board answers the phone's UA by DM, as it has no
\* channel any more (rfcomm_channel_state_machine_2), and DM would end a new one.
PhoneReceives ==
  /\ rfOut # <<>> /\ rfOut' = Tail(rfOut)
  /\ LET f == Head(rfOut)
         to(p, q) == IF phone.ph = p THEN [phone EXCEPT !.ph = q] ELSE phone
         over(q) == [phone EXCEPT !.ph = IF @ \in {"end", "left"} THEN @ ELSE q, !.has = 0, !.gave = 0, !.owes = 0, !.msc = FALSE]
     IN /\ phone' = CASE f.t = "UA" /\ f.d = 0 -> to("sabm0", "mux")
                      [] f.t = "UA" /\ f.d = Spp -> IF phone.ph = "disc" THEN over("mux") ELSE to("sabm", "up")
                      [] f.t = "PN_RSP" -> to("pn", "pnd")
                      [] f.t = "RPN_RSP" -> to("rpn", "mux")
                      [] f.t = "MSC_CMD" /\ phone.ph = "up" -> [phone EXCEPT !.owes = @ + 1]
                      [] f.t = "UIH_PF" /\ phone.ph = "up" -> [phone EXCEPT !.has = @ + f.n]
                      [] f.t = "UIH" /\ phone.ph = "up" -> [phone EXCEPT !.gave = @ - 1]
                      [] f.t = "DM" /\ f.d = Other -> to("refused", "mux")
                      [] f.t = "DM" /\ f.d = Spp -> over("mux")
                      [] f.t = "DISC" -> over("left")
                      [] OTHER -> phone
        /\ rfIn' = IF f.t = "DISC" THEN Append(rfIn, Frame("UA", Spp)) ELSE rfIn
  /\ UNCHANGED rf

\* HCI_EVENT_DISCONNECTION_COMPLETE or a closed L2CAP channel: L2CAP_EVENT_CHANNEL_CLOSED
\* A multiplexer that still owes the phone its UA for a DISC is left as it is, with its channel.
LinkCloses ==
  /\ rf.link
  /\ rf' = IF rf.mux.st = "SEND_UA_0_AND_DISC" THEN [rf EXCEPT !.link = FALSE, !.grant = 0] ELSE Finalize(rf)
  /\ rfIn' = <<>> /\ rfOut' = <<>> /\ phone' = [phone EXCEPT !.ph = "idle"]

\* The L2CAP channel the board has disconnected is gone for the phone too.
LinkGone ==
  /\ ~rf.link /\ phone.ph # "idle"
  /\ rfIn' = <<>> /\ rfOut' = <<>> /\ phone' = [phone EXCEPT !.ph = "idle"]
  /\ UNCHANGED rf

RfNext ==
  \/ RfReceives \/ RfPacketSent \/ RfPacketsCompleted \/ OthersSend \/ BTTasks \/ BTOpen \/ BTSend \/ BTClose
  \/ PhoneConnects \/ PhoneAsks \/ PhoneMay \/ PhoneReceives \/ LinkCloses \/ LinkGone

-----------------------------------------------------------------------------
(* Properties.                                                             *)

\* Credits, or data frames, on their way.
InFlight(w, t) == FoldSeq(LAMBDA f, n : n + (IF f.t # t THEN 0 ELSE IF t = "UIH_PF" THEN f.n ELSE 1), 0, w)

\* The credit of the two directions is never lost nor made up, whatever is dropped, delayed or
\* refused: what the phone may still send, what is on its way and what the board has yet to
\* grant is the credit of the service, and the board never sends more than the phone granted
\* (credits_incoming, new_credits_incoming, rfcomm_send_credits; credits_outgoing).  While the
\* link is up, l2cap_credits of the multiplexer is what L2CAP has granted.
RfCreditsConserved ==
  /\ phone.ph = "up" /\ rf.ch.st \in {"DLC_SETUP", "OPEN"} =>
       /\ rf.ch.in = phone.has + InFlight(rfOut, "UIH_PF") + InFlight(rfIn, "UIH")
       /\ phone.gave = rf.ch.out + InFlight(rfIn, "UIH_PF") + InFlight(rfOut, "UIH")
       /\ rf.ch.in + rf.ch.new + rf.owed = RfCredits
  /\ rf.link => rf.mux.l2 = rf.grant

\* Not so (README, section 6): rfcomm.c:792 says of an L2CAP channel that is closed "l2cap disconnect -> state =
\* RFCOMM_MULTIPLEXER_CLOSED": no multiplexer outlives its link, which would keep every later
\* phone out (rfcomm.c:711-725).
MuxEndsWithLink == ~rf.link => rf.mux = None

\* When nothing is on its way any more the phone waits for no answer, a channel it has set up is
\* open on the board too unless the phone itself has a frame left to send, and no frame of the
\* board stays unsent: what a handler could not send because the transport was busy or L2CAP
\* had no credit is sent by a later rfcomm_run.  One case is excepted: a frame that waits for a
\* buffer of the controller although RFCOMM holds an L2CAP credit, as the completed packets
\* then bring no other credit and rfcomm_run is not called.
RfSettled == rf.link /\ rfIn = <<>> /\ rfOut = <<>> /\ ~rf.busy /\ rf.acl = 0 /\ (rf.owed = 0 \/ rf.id = 0)
RfPhoneIsServed ==
  RfSettled /\ ~rf.late =>
               /\ phone.ph \notin {"sabm0", "pn", "sabm", "rpn", "refused", "disc", "end"}
               /\ phone.ph = "up" /\ rf.ch.st # "OPEN" => phone.owes > 0 \/ ~phone.msc \/ phone.gave < RfPeerCredits
               /\ rf.ch.st \notin {"SEND_DM", "SEND_DISC", "SEND_UA_AFTER_DISC"}
               /\ rf.ch # None => rf.ch.var \cap {"SEND_MSC_CMD", "SEND_MSC_RSP", "SEND_RPN_RSP"} = {}

\* Not so: a buffer of the controller that becomes free is followed by rfcomm_run (README, section 6).
RfNothingLate == RfSettled => ~rf.late
=============================================================================
