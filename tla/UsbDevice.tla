----------------------------- MODULE UsbDevice -----------------------------
(***************************************************************************)
(* The control endpoint of the board as a USB device, usb_device.c, and    *)
(* the PC at the other end of the cable, which resets the bus, runs         *)
(* control transfers and gives up on them, and moves bytes over the serial  *)
(* port.  Packets and handshakes are lost, and the cable is pulled.  Every  *)
(* call of the program (USBDeviceTasks, USBDeviceCDCTasks, CDCTasks) is one *)
(* step; any number of transactions of the SIE may precede it.              *)
(***************************************************************************)
EXTENDS UsbCdc, TLC
LOCAL INSTANCE SequencesExt

CONSTANT UdBudgets   \* bounds: control transfers of the PC, losses, transfers given up, resets, cables pulled, bytes of the
                     \* PC, messages of the board; reqs are the requests it makes, as UdNone

ASSUME UdAssumption ==
  \A b \in UdBudgets : /\ {b.ask, b.lose, b.quit, b.reset, b.plug, b.out, b.put} \subseteq Nat
                       /\ \A r \in b.reqs : DOMAIN r = {"name", "dir", "len", "size", "val", "e"}

VARIABLES ud,   \* the board: SIE and program
          pc    \* the PC, with what is left of one of UdBudgets

udVars == <<ud, pc>>

dummy_length == 8            \* bytes of the response to an encapsulated command
LINE_CODING_LENGTH == 7

\* A SETUP packet: request, direction, wLength, wValue, the endpoint it is about, and the size of the descriptor it asks
\* for (0: there is none)
UdNone == [name |-> "none", dir |-> "in", len |-> 0, size |-> 0, val |-> 0, e |-> "none"]

\* The registers of the SIE and the variables of usb_device.c before USBDeviceInit.  sense is USB_BUS_SENSE; reset and
\* epstall are URSTIF and STALLIF; mem holds SetupPkt and CtrlTrfData; inNow, outCur and outNext are pBDTEntryIn[0],
\* pBDTEntryEP0OutCurrent and pBDTEntryEP0OutNext, ptr the other pointers; seen and terminated are ep_data_in and
\* ep_data_out; inBusy, inCount and inPos are inPipes[0], outBusy and outCount outPipes[0]; flag is both of
\* USBStatusStageEnabledFlag1 and 2, which are always set together, and both is BothEP0OutUOWNsSet.
UdStatics ==
  [bd |-> UdNoBds, pp |-> [e \in UdEnds |-> 0], addr |-> 0, pktdis |-> FALSE, fifo |-> <<>>, open |-> FALSE,
   sense |-> TRUE, reset |-> FALSE, epstall |-> FALSE, mem |-> [setup |-> UdNone, data |-> <<>>],
   state |-> "DETACHED", conf |-> 0, inNow |-> 0, outCur |-> 0, outNext |-> 0, ptr |-> [e \in {"out2", "in2"} |-> NoBd],
   seen |-> [e \in {"out2", "in2"} |-> 0], terminated |-> [e \in {"out2", "in2"} |-> FALSE],
   inBusy |-> FALSE, inCount |-> 0, inPos |-> 0, outBusy |-> FALSE, outCount |-> 0, short |-> "not_used", flag |-> FALSE, both |-> FALSE,
   ctl |-> "WAIT_SETUP", line |-> <<>>, cdc |-> CdcStart]

\* USBDeviceInit.  Clearing U1IR drops an entry of U1STAT; when there is another, the loop that
\* drops the rest releases the pipes of endpoint 0.
USBDeviceInit(m) ==
  [m EXCEPT !.bd = [UdNoBds EXCEPT !["out0"][0] = UdArmed(0, FALSE, TRUE, USB_EP0_BUFF_SIZE, "setup")],
            !.pp = [e \in UdEnds |-> 0], !.addr = 0, !.pktdis = FALSE, !.fifo = <<>>, !.open = FALSE,
            !.reset = FALSE, !.epstall = FALSE, !.inNow = 0,
            !.inBusy = @ /\ Len(m.fifo) <= 1, !.outBusy = @ /\ Len(m.fifo) <= 1, !.outCount = IF Len(m.fifo) <= 1 THEN @ ELSE 0,
            !.flag = TRUE, !.ptr = [e \in {"out2", "in2"} |-> NoBd], !.seen = [e \in {"out2", "in2"} |-> 0],
            !.terminated = [e \in {"out2", "in2"} |-> FALSE], !.conf = 0, !.state = "DETACHED"]

\* The computer: the stage of its control transfer, what it has read, the toggles it expects, the
\* address and configuration it has given, its bytes for the serial port and those it has read.
PcStart == [ready |-> FALSE, stage |-> "idle", req |-> UdNone, pos |-> 0, got |-> <<>>, dts |-> 0, addr |-> 0, conf |-> 0,
            tog |-> [e \in {"out2", "in2"} |-> 0], out |-> <<>>, acked |-> 0, in |-> <<>>, featured |-> FALSE]

UdInit == ud = USBDeviceInit(UdStatics) /\ \E b \in UdBudgets : pc = [left |-> b] @@ PcStart

-----------------------------------------------------------------------------
(* The stages of a control transfer in the program.                        *)

UdOut(m, bd) == [m EXCEPT !.bd["out0"][m.outNext] = bd]
UdIn(m, bd) == [m EXCEPT !.bd["in0"][m.inNow] = bd]
UdSetupBuffer(dts, sync, stall) == UdArmed(dts, sync, stall, USB_EP0_BUFF_SIZE, "setup")
UdStalledIn == UdArmed(0, FALSE, TRUE, 0, "none")

\* USBCtrlTrfTxService: the next packet, or an empty one after the last
USBCtrlTrfTxService(m) ==
  LET n == UdLeast(m.inCount, USB_EP0_BUFF_SIZE)
  IN [m EXCEPT !.short = IF n = USB_EP0_BUFF_SIZE THEN @ ELSE IF @ = "not_used" THEN "pending" ELSE "sent",
               !.inCount = @ - n, !.inPos = @ + n, !.mem.data = CdcUpTo(m.inPos, m.inPos + n), !.bd["in0"][m.inNow].cnt = n]

\* Mutant: after a control read only the descriptor of the status is armed.
StatusStageArmsOne(m) ==
  LET c == [m EXCEPT !.flag = TRUE]
  IN CASE ~m.flag /\ m.ctl = "RX" -> UdIn(c, UdArmed(1, TRUE, FALSE, 0, "none"))
       [] ~m.flag /\ m.ctl = "TX" -> UdOut([c EXCEPT !.both = TRUE], UdSetupBuffer(0, FALSE, FALSE))
       [] OTHER -> c

\* USBCtrlEPAllowStatusStage: after a control read either OUT descriptor may take the next packet,
\* the first the status, the other one a SETUP.
USBCtrlEPAllowStatusStage(m) ==
  LET c == [m EXCEPT !.flag = TRUE]
  IN CASE ~m.flag /\ m.ctl = "RX" -> UdIn(c, UdArmed(1, TRUE, FALSE, 0, "none"))
       [] ~m.flag /\ m.ctl = "TX" ->
            UdOut([c EXCEPT !.bd["out0"][m.outCur] = UdSetupBuffer(0, FALSE, TRUE), !.both = TRUE], UdSetupBuffer(0, FALSE, FALSE))
       [] OTHER -> c

\* USBCtrlEPAllowDataStage
USBCtrlEPAllowDataStage(m) ==
  IF m.ctl = "RX" THEN UdOut(m, UdArmed(1, TRUE, FALSE, USB_EP0_BUFF_SIZE, "data"))
  ELSE LET t == USBCtrlTrfTxService([m EXCEPT !.inCount = UdLeast(@, m.mem.setup.len)])
       IN UdIn(t, UdArmed(1, TRUE, FALSE, t.bd["in0"][t.inNow].cnt, "data"))

\* USBCtrlEPServiceComplete: a control write, a request nobody knows, a control read, a request
\* without data
USBCtrlEPServiceComplete(m) ==
  LET c == [m EXCEPT !.pktdis = FALSE]
  IN CASE ~c.inBusy /\ c.outBusy -> [USBCtrlEPAllowDataStage([c EXCEPT !.ctl = "RX"]) EXCEPT !.flag = FALSE]
       [] ~c.inBusy /\ ~c.outBusy -> UdIn(UdOut(c, UdSetupBuffer(0, TRUE, TRUE)), UdStalledIn)
       [] c.inBusy /\ c.mem.setup.dir = "in" ->
            USBCtrlEPAllowStatusStage([USBCtrlEPAllowDataStage([c EXCEPT !.ctl = "TX"]) EXCEPT !.flag = FALSE])
       [] c.inBusy /\ c.mem.setup.dir = "out" ->
            USBCtrlEPAllowStatusStage([UdOut([c EXCEPT !.ctl = "RX"], UdSetupBuffer(0, FALSE, TRUE)) EXCEPT !.flag = FALSE])

\* USBStdSetCfgHandler, and the handler of EVENT_CONFIGURED
USBStdSetCfgHandler(m) ==
  LET c == [m EXCEPT !.inBusy = TRUE, !.open = FALSE, !.bd = UdNoBds, !.pp = [e \in UdEnds |-> 0],
                     !.seen = [e \in {"out2", "in2"} |-> 0], !.terminated = [e \in {"out2", "in2"} |-> FALSE],
                     !.inNow = 0, !.outCur = 0, !.outNext = 0, !.conf = m.mem.setup.val]
  IN IF c.conf = 0 THEN [c EXCEPT !.state = "ADDRESS"] ELSE [CDCInitEP(c) EXCEPT !.state = "CONFIGURED"]

\* n bytes to return
UdSends(m, n) == [m EXCEPT !.inBusy = TRUE, !.inCount = n, !.inPos = 0]

\* USBStdGetDscHandler: a string or a type that does not exist leaves the pipe free.  A PC asks only for
\* the configuration there is; the code does not test the index.
USBStdGetDscHandler(m) == IF m.mem.setup.size > 0 THEN UdSends(m, m.mem.setup.size) ELSE m

\* USBStdGetStatusHandler: the two bytes are put where packets are sent from.
USBStdGetStatusHandler(m) == [UdSends(m, 2) EXCEPT !.mem.data = CdcUpTo(0, UdLeast(2, USB_EP0_BUFF_SIZE))]

\* USBStdFeatureReqHandler: the features of the device (e is "none": remote wakeup, and those of OTG, which UsbOtg
\* has) are only acknowledged here; an endpoint is halted or released when the device is configured.
USBStdFeatureReqHandler(m) ==
  LET r == m.mem.setup
      c == [m EXCEPT !.inBusy = TRUE]
  IN CASE r.e = "none" -> c
       [] r.e # "none" /\ m.state = "CONFIGURED" -> IF r.name = "SET_FEATURE" THEN UdHalt(c, r.e) ELSE UdUnhalt(c, r.e)
       [] OTHER -> m

\* USBCheckStdRequest: a request of another type leaves both pipes free.
USBCheckStdRequest(m) ==
  LET name == m.mem.setup.name
  IN CASE name = "SET_ADDRESS" -> [m EXCEPT !.inBusy = TRUE, !.state = "ADR_PENDING"]
       [] name = "GET_DESCRIPTOR" -> USBStdGetDscHandler(m)
       [] name = "SET_CONFIGURATION" -> USBStdSetCfgHandler(m)
       [] name \in {"GET_CONFIGURATION", "GET_INTERFACE"} -> UdSends(m, 1)
       [] name = "GET_STATUS" -> USBStdGetStatusHandler(m)
       [] name \in {"CLEAR_FEATURE", "SET_FEATURE"} -> USBStdFeatureReqHandler(m)
       [] name = "SET_INTERFACE" -> [m EXCEPT !.inBusy = TRUE]
       [] OTHER -> m

\* USBCheckCDCRequest, which sees every request after USBCheckStdRequest
USBCheckCDCRequest(m) ==
  LET r == m.mem.setup
  IN CASE r.name = "SEND_ENCAPSULATED_COMMAND" -> UdSends(m, dummy_length)
       [] r.name = "GET_ENCAPSULATED_RESPONSE" -> UdSends(m, m.inCount)
       [] r.name = "SET_LINE_CODING" -> [m EXCEPT !.outBusy = TRUE, !.outCount = r.len, !.line = <<>>]
       [] r.name = "GET_LINE_CODING" -> UdSends(m, LINE_CODING_LENGTH)
       [] r.name = "SET_CONTROL_LINE_STATE" -> [m EXCEPT !.inBusy = TRUE, !.cdc.dte = r.val = 1]
       [] OTHER -> m

\* Mutant: a packet that an abandoned transfer has armed is left to the next one.
SetupHandlerKeepsIn(m) ==
  USBCtrlEPServiceComplete(USBCheckCDCRequest(USBCheckStdRequest(
    [m EXCEPT !.short = "not_used", !.both = FALSE, !.ctl = "WAIT_SETUP", !.bd["out0"][m.outNext].own = FALSE,
              !.inBusy = FALSE, !.inCount = 0, !.outBusy = FALSE, !.outCount = 0])))

\* USBCtrlTrfSetupHandler: whatever an earlier transfer has armed is taken back first.
USBCtrlTrfSetupHandler(m) ==
  USBCtrlEPServiceComplete(USBCheckCDCRequest(USBCheckStdRequest(
    [m EXCEPT !.short = "not_used", !.both = FALSE, !.ctl = "WAIT_SETUP",
              !.bd["in0"][0].own = FALSE, !.bd["in0"][1].own = FALSE, !.bd["out0"][m.outNext].own = FALSE,
              !.inBusy = FALSE, !.inCount = 0, !.outBusy = FALSE, !.outCount = 0])))

\* USBCtrlTrfRxService
USBCtrlTrfRxService(m) ==
  LET n == UdLeast(m.bd["out0"][m.outCur].cnt, m.outCount)
      c == [m EXCEPT !.outCount = @ - n, !.line = @ \o SubSeq(m.mem.data, 1, n)]
  IN IF c.outCount > 0 THEN UdOut(c, UdArmed(1 - c.bd["out0"][c.outCur].dts, TRUE, FALSE, USB_EP0_BUFF_SIZE, "data"))
     ELSE USBCtrlEPAllowStatusStage([UdOut(c, UdSetupBuffer(0, FALSE, TRUE)) EXCEPT !.outBusy = FALSE])

\* USBCtrlTrfOutHandler
USBCtrlTrfOutHandler(m) ==
  CASE m.ctl = "RX" -> USBCtrlTrfRxService(m)
    [] m.ctl # "RX" /\ m.both -> [m EXCEPT !.ctl = "WAIT_SETUP", !.both = FALSE]
    [] m.ctl # "RX" /\ ~m.both -> UdOut([m EXCEPT !.ctl = "WAIT_SETUP"], UdSetupBuffer(0, TRUE, TRUE))

\* USBCtrlTrfInHandler: the address is taken from SetupPkt as it is now.
UdTakeAddress(m) ==
  LET a == m.mem.setup.val
  IN IF m.state = "ADR_PENDING" THEN [m EXCEPT !.addr = a, !.state = IF a # 0 THEN "ADDRESS" ELSE "DEFAULT"] ELSE m
USBCtrlTrfInHandler(m) ==
  LET lastDTS == m.bd["in0"][m.inNow].dts
      c == UdTakeAddress([m EXCEPT !.inNow = 1 - @])
      t == USBCtrlTrfTxService(c)
  IN IF c.ctl # "TX" THEN [c EXCEPT !.ctl = "WAIT_SETUP", !.outBusy = FALSE]
     ELSE UdIn(t, IF t.short = "sent" THEN UdStalledIn ELSE UdArmed(1 - lastDTS, TRUE, FALSE, t.bd["in0"][t.inNow].cnt, "data"))

\* USBCtrlEPService
USBCtrlEPService(m, u) ==
  LET c == [m EXCEPT !.outCur = u.p, !.outNext = 1 - u.p]
      b == m.bd["out0"][u.p]
  IN CASE u.e = "in0" -> USBCtrlTrfInHandler(m)
       [] u.e = "out0" /\ b.setup -> USBCtrlTrfSetupHandler([c EXCEPT !.mem.setup = m.mem[b.adr], !.bd["out0"][u.p].adr = "setup"])
       [] u.e = "out0" /\ ~b.setup -> USBCtrlTrfOutHandler(c)

-----------------------------------------------------------------------------
(* USBDeviceTasks.  The idle bus and the ID pin, which change roles, are in *)
(* UsbOtg; the handlers of SOF and of bus errors do nothing.                *)

\* Without VBUS the device is detached, and U1CON is cleared; with it, it is attached, and powered once the bus leaves
\* SE0, when U1IR is cleared with the resets and stalls it holds and the first entry of U1STAT.
UdAttach(m, se0) ==
  CASE ~m.sense -> [m EXCEPT !.state = "DETACHED", !.pktdis = FALSE]
    [] m.sense /\ m.state \in {"DETACHED", "ATTACHED"} /\ se0 -> [m EXCEPT !.state = "ATTACHED", !.pktdis = @ /\ m.state = "ATTACHED"]
    [] m.sense /\ m.state \in {"DETACHED", "ATTACHED"} /\ ~se0 ->
         [m EXCEPT !.state = "POWERED", !.pktdis = @ /\ m.state = "ATTACHED", !.reset = FALSE, !.epstall = FALSE,
                   !.fifo = IF @ = <<>> THEN @ ELSE Tail(@)]
    [] OTHER -> m

UdBusReset(m) == IF m.reset THEN [USBDeviceInit(m) EXCEPT !.state = "DEFAULT"] ELSE m

\* USBStallHandler
USBStallHandler(m) ==
  LET b == m.bd["out0"][m.outCur]
  IN IF ~m.epstall THEN m
     ELSE [m EXCEPT !.epstall = FALSE,
                    !.bd["out0"][m.outCur] = IF b.own /\ b.dts = 0 /\ ~b.sync /\ ~b.stall /\ m.bd["in0"][m.inNow] = UdStalledIn
                                              THEN [b EXCEPT !.sync = TRUE, !.stall = TRUE] ELSE b]

\* A completed transaction; EVENT_TRANSFER notifies nobody (usb_device_cdc.c), nor does EVENT_TRANSFER_TERMINATED.
UdTransactionComplete(m, u) == IF u.e \in {"in0", "out0"} THEN USBCtrlEPService(m, u) ELSE [m EXCEPT !.seen[u.e] = 1 - @]

\* USBDeviceState >= DEFAULT_STATE
UdAddressable(m) == m.state \in {"DEFAULT", "ADR_PENDING", "ADDRESS", "CONFIGURED"}

\* All entries of U1STAT are served, at most four: what the SIE completes meanwhile is left to the next call.
UdServeAll(m) == [FoldLeft(UdTransactionComplete, m, m.fifo) EXCEPT !.fifo = <<>>]
UdServes(m) == IF UdAddressable(m) THEN UdServeAll(m) ELSE m
USBDeviceTasks(m, se0) == IF m.sense THEN UdServes(USBStallHandler(UdBusReset(UdAttach(m, se0)))) ELSE UdAttach(m, se0)

-----------------------------------------------------------------------------
(* Steps of the program: USBTasks, the tasks of the connection, and the    *)
(* application.  A step that changes nothing is left out.                  *)

UdTasks == \E se0 \in BOOLEAN : ud' = USBDeviceTasks(ud, se0) /\ ud' # ud /\ UNCHANGED pc
UdChannelTasks == ud' \in CDCTasks(ud) /\ UNCHANGED pc
UdTransmit == ud.state = "CONFIGURED" /\ ud' = CDCTxService(ud) /\ UNCHANGED pc
UdOpenChannel == ud.cdc.chan = "WAIT_OPEN" /\ ud' = CDCOpenChannel(ud) /\ UNCHANGED pc
UdSend ==
  /\ CDCCanSend(ud) /\ pc.left.put > 0
  /\ \E n \in 1 .. CDC_DATA_EP_SIZE + 1 : ud' = CdcPutMessage(ud, n)
  /\ pc' = [pc EXCEPT !.left.put = @ - 1]

-----------------------------------------------------------------------------
(* The PC and the bus.                                                     *)

\* The cable comes and goes; a computer that sees the pull-up of the board resets the bus.
PcUnplugs ==
  /\ ud.sense /\ pc.left.plug > 0
  /\ pc' = PcStart @@ [left |-> [pc.left EXCEPT !.plug = @ - 1]]
  /\ ud' = [ud EXCEPT !.sense = FALSE]
PcPlugs == ~ud.sense /\ ud' = [ud EXCEPT !.sense = TRUE] /\ UNCHANGED pc

PcReset ==
  /\ ud.sense /\ ud.state # "DETACHED" /\ pc.left.reset > 0
  /\ pc' = [PcStart EXCEPT !.ready = TRUE] @@ [left |-> [pc.left EXCEPT !.reset = @ - 1]]
  /\ ud' = [ud EXCEPT !.reset = TRUE]

PcAsks ==
  /\ pc.ready /\ pc.stage \in {"idle", "done"} /\ ~ud.reset /\ UdAddressable(ud) /\ pc.left.ask > 0
  /\ \E r \in pc.left.reqs :
       LET again == r.name = "SET_CONFIGURATION"
       IN pc' = [pc EXCEPT !.stage = "setup", !.req = r, !.pos = 0, !.got = <<>>, !.dts = 1, !.left.ask = @ - 1,
                           !.conf = IF again THEN 0 ELSE @, !.tog = IF again THEN [e \in {"out2", "in2"} |-> 0] ELSE @,
                           !.out = IF again THEN <<>> ELSE @, !.acked = IF again THEN 0 ELSE @, !.in = IF again THEN <<>> ELSE @,
                           !.featured = IF again THEN FALSE ELSE @ \/ r.name \in {"SET_FEATURE", "CLEAR_FEATURE"}]
  /\ UNCHANGED ud

\* A driver does not use an endpoint while it changes its halt feature, nor give that up.
PcFeature(e) == pc.stage \notin {"idle", "done"} /\ pc.req.name \in {"SET_FEATURE", "CLEAR_FEATURE"} /\ e = pc.req.e
PcMayUse(e) == pc.conf = 1 /\ ~PcFeature(e)

PcGivesUp ==
  /\ pc.stage \in {"setup", "data", "status"} /\ pc.left.quit > 0 /\ ~PcFeature(pc.req.e)
  /\ pc' = [pc EXCEPT !.stage = "idle", !.left.quit = @ - 1]
  /\ UNCHANGED ud

\* A loss of the handshake of a transaction that the receiver of the data has accepted
PcLoses == pc.left.lose > 0
PcLost(p) == [p EXCEPT !.left.lose = @ - 1]

\* The endpoint the next token of the transfer goes to
PcEnd ==
  CASE pc.stage = "data" -> IF pc.req.dir = "in" THEN "in0" ELSE "out0"
    [] pc.stage = "status" -> IF pc.req.dir = "in" /\ pc.req.len > 0 THEN "out0" ELSE "in0"
    [] OTHER -> "none"

PcDone(p) ==
  LET q == [p EXCEPT !.stage = "done"]
  IN CASE p.req.name = "SET_ADDRESS" -> [q EXCEPT !.addr = p.req.val]
       [] p.req.name = "SET_CONFIGURATION" -> [q EXCEPT !.conf = p.req.val]
       [] p.req.name = "CLEAR_FEATURE" -> [q EXCEPT !.tog[p.req.e] = 0]
       [] OTHER -> q

PcSetup ==
  /\ pc.stage = "setup" /\ UdReply(ud, pc.addr, "out0", TRUE, 0) = "ok"
  /\ LET b == UdBd(ud, "out0")
     IN ud' = [UdComplete(ud, "out0", [b EXCEPT !.setup = TRUE, !.dts = 0, !.cnt = USB_EP0_BUFF_SIZE]) EXCEPT
                 !.mem[b.adr] = pc.req, !.pktdis = TRUE]
  /\ \/ pc' = [pc EXCEPT !.stage = IF pc.req.len > 0 THEN "data" ELSE "status"]
     \/ PcLoses /\ pc' = PcLost(pc)

\* An IN transaction: the PC drops a packet it has had, and acknowledges it again.
PcTakes(p, bytes, dts) ==
  LET q == [p EXCEPT !.got = @ \o bytes, !.dts = 1 - @]
  IN IF dts # p.dts THEN p
     ELSE IF p.stage = "status" THEN PcDone(p)
     ELSE [q EXCEPT !.stage = IF Len(bytes) < USB_EP0_BUFF_SIZE \/ Len(q.got) >= q.req.len THEN "status" ELSE @]
PcReadsControl ==
  /\ PcEnd = "in0" /\ UdReply(ud, pc.addr, "in0", FALSE, 0) = "ok"
  /\ LET b == UdBd(ud, "in0")
         q == PcTakes(pc, IF b.cnt = 0 THEN <<>> ELSE SubSeq(ud.mem.data, 1, b.cnt), b.dts)
     IN \/ ud' = UdComplete(ud, "in0", b) /\ pc' = q
        \/ PcLoses /\ UNCHANGED ud /\ pc' = PcLost(q)

\* An OUT transaction: data of a control write, or the status of a control read
PcWritesControl ==
  /\ PcEnd = "out0"
  /\ LET n == IF pc.stage = "status" THEN 0 ELSE UdLeast(pc.req.len - pc.pos, USB_EP0_BUFF_SIZE)
         dts == IF pc.stage = "status" THEN 1 ELSE pc.dts
         reply == UdReply(ud, pc.addr, "out0", FALSE, dts)
         b == UdBd(ud, "out0")
         q == IF pc.stage = "status" THEN PcDone(pc)
              ELSE [pc EXCEPT !.pos = @ + n, !.dts = 1 - @, !.stage = IF pc.pos + n = pc.req.len THEN "status" ELSE @]
     IN /\ reply \in {"ok", "again"}
        /\ ud' = IF reply = "again" THEN ud
                 ELSE [UdComplete(ud, "out0", [b EXCEPT !.setup = FALSE, !.dts = dts, !.cnt = n]) EXCEPT
                         !.mem[b.adr] = IF n = 0 THEN @ ELSE CdcUpTo(pc.pos, pc.pos + n)]
        /\ \/ pc' = [q EXCEPT !.dts = IF q.stage = "status" THEN 1 ELSE @]
           \/ PcLoses /\ pc' = PcLost(pc)

PcStalled ==
  /\ PcEnd # "none" /\ UdReply(ud, pc.addr, PcEnd, FALSE, 1) = "stall"
  /\ pc' = [pc EXCEPT !.stage = "idle"] /\ ud' = [ud EXCEPT !.epstall = TRUE]

\* The serial port
PcWrites ==
  /\ PcMayUse("out2")
  /\ \E n \in 1 .. CDC_DATA_EP_SIZE :
       LET bytes == CdcUpTo(pc.acked, pc.acked + n)
           reply == UdReply(ud, pc.addr, "out2", FALSE, pc.tog["out2"])
           b == UdBd(ud, "out2")
       IN /\ reply \in {"ok", "again"}
          /\ pc.acked + n <= pc.left.out /\ (pc.acked < Len(pc.out) => pc.acked + n = Len(pc.out))
          /\ ud' = IF reply = "again" THEN ud
                   ELSE [UdComplete(ud, "out2", [b EXCEPT !.cnt = n]) EXCEPT !.cdc.rx = CdcPut(@, bytes), !.cdc.fresh = TRUE]
          /\ \/ pc' = [pc EXCEPT !.out = CdcUpTo(0, pc.acked + n), !.acked = pc.acked + n, !.tog["out2"] = 1 - @]
             \/ PcLoses /\ pc' = [PcLost(pc) EXCEPT !.out = CdcUpTo(0, pc.acked + n)]

PcReads ==
  /\ PcMayUse("in2") /\ UdReply(ud, pc.addr, "in2", FALSE, 0) = "ok"
  /\ LET b == UdBd(ud, "in2")
         q == IF b.dts # pc.tog["in2"] THEN pc ELSE [pc EXCEPT !.in = @ \o CdcGet(ud.cdc.tx, b.cnt), !.tog["in2"] = 1 - @]
     IN \/ ud' = UdComplete(ud, "in2", b) /\ pc' = q
        \/ PcLoses /\ UNCHANGED ud /\ pc' = PcLost(q)

UdNext ==
  \/ UdTasks \/ UdChannelTasks \/ UdTransmit \/ UdOpenChannel \/ UdSend
  \/ PcUnplugs \/ PcPlugs \/ PcReset \/ PcAsks \/ PcGivesUp \/ PcSetup \/ PcReadsControl \/ PcWritesControl \/ PcStalled \/ PcWrites \/ PcReads
UdSpec == UdInit /\ [][UdNext]_udVars

-----------------------------------------------------------------------------
(* Properties                                                              *)

\* A control transfer that the PC sees completed has done what it asks for: a read has returned
\* the first bytes of what was asked for and no others, line coding has arrived whole, and the
\* configuration is in force.
UdControlExact ==
  pc.stage = "done" /\ ~ud.reset =>
    CASE pc.req.name = "GET_DESCRIPTOR" -> pc.got = CdcUpTo(0, UdLeast(pc.req.len, pc.req.size))
      [] pc.req.name = "GET_STATUS" -> pc.got = CdcUpTo(0, UdLeast(pc.req.len, 2))
      [] pc.req.name = "GET_LINE_CODING" -> pc.got = CdcUpTo(0, UdLeast(pc.req.len, LINE_CODING_LENGTH))
      [] pc.req.name = "SET_LINE_CODING" -> ud.line = CdcUpTo(0, pc.req.len)
      [] pc.req.name = "SET_CONFIGURATION" -> ud.conf = pc.req.val
      [] OTHER -> TRUE

\* Once the program has caught up, the SIE can take a SETUP, whatever became of earlier transfers,
\* and the transfer under way is not refused for ever: the SIE holds the descriptor the PC's next
\* token needs.
UdCaughtUp == ud.sense /\ ud.fifo = <<>> /\ ~ud.reset /\ UdAddressable(ud)
UdServed ==
  UdCaughtUp => /\ ~ud.pktdis /\ UdBd(ud, "out0").own
                /\ PcEnd # "none" /\ pc.addr = ud.addr => UdBd(ud, PcEnd).own

\* While the PC leaves the endpoints' halt features alone, the serial port carries both streams
\* exactly: what the board read and what waits in its buffer is what the PC was acknowledged (or
\* is about to repeat), and what the PC read continues what the board had sent before.
CdcExact ==
  pc.conf = 1 /\ ud.state = "CONFIGURED" /\ ~ud.reset /\ ~pc.featured =>
    LET waiting == IF ud.cdc.fresh THEN CdcGet(ud.cdc.rx, ud.bd["out2"][ud.cdc.outH].cnt) ELSE <<>>
        had == ud.cdc.heard \o waiting
        unsent == IF ud.cdc.trf = "busy" THEN Len(ud.cdc.left) ELSE 0
        gap == ud.cdc.written - unsent - ud.cdc.base - Len(pc.in)
    IN /\ had = CdcUpTo(0, Len(had)) /\ Len(had) \in {pc.acked, Len(pc.out)}
       /\ pc.in = CdcUpTo(ud.cdc.base, ud.cdc.base + Len(pc.in))
       /\ gap # 0 => CdcBusy(ud, "in2", ud.cdc.inH) /\ gap = ud.bd["in2"][ud.cdc.inH].cnt

\* The descriptor the program waits for is the one the SIE will use, and unless it stalls it
\* expects the packet the PC will send: neither pipe of the serial port is ever stuck.
CdcAligned ==
  pc.conf = 1 /\ UdCaughtUp /\ ud.state = "CONFIGURED" /\ pc.stage \in {"idle", "done"} =>
    /\ CdcBusy(ud, "out2", ud.cdc.outH) => ud.cdc.outH = ud.pp["out2"] /\ (~UdBd(ud, "out2").stall /\ pc.acked = Len(pc.out) => UdBd(ud, "out2").dts = pc.tog["out2"])
    /\ CdcBusy(ud, "in2", ud.cdc.inH) => ud.cdc.inH = ud.pp["in2"]

\* "Instead it returns '0' to notify the caller that there is no data available"
\* (usb_function_cdc.c:496): getsUSBUSART never returns bytes when no packet has arrived.
GetsMeansData == ~ud.cdc.phantom
=============================================================================
