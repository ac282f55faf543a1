------------------------------- MODULE UsbCdc -------------------------------
(***************************************************************************)
(* The serial port of the board as a USB device: usb_function_cdc.c, its   *)
(* task in usb_device_cdc.c, and the channel cdc_connection.c makes of it.  *)
(* Bytes are numbers: the board's n-th byte is n, and so is the PC's.       *)
(***************************************************************************)
EXTENDS UsbEndpoints

CdcBuf == 1 .. CDC_DATA_EP_SIZE
CdcPut(buf, bytes) == [i \in CdcBuf |-> IF i <= Len(bytes) THEN bytes[i] ELSE buf[i]]
CdcGet(buf, n) == [i \in 1 .. n |-> buf[i]]
CdcUpTo(a, b) == [i \in 1 .. b - a |-> a + i]

\* What survives a reset of the bus, until CDCInitEP: the buffers cdc_data_rx and cdc_data_tx, the handles,
\* the state of the transmitter with the bytes it still has to send, the DTE flag and the channel.  heard,
\* fresh, phantom, written and base are history: bytes read from packets since the endpoints were set up, packets
\* received and not read, whether a read through a handle returned bytes nobody sent, bytes written, and how
\* many of them had been written when the endpoints were set up.
CdcStart == [outH |-> NoBd, inH |-> NoBd, rx |-> [i \in CdcBuf |-> 0], tx |-> [i \in CdcBuf |-> 0], trf |-> "ready", left |-> <<>>, dte |-> FALSE,
             chan |-> "DETACHED", heard |-> <<>>, fresh |-> FALSE, phantom |-> FALSE, written |-> 0, base |-> 0]

\* USBHandleBusy
CdcBusy(m, e, h) == h # NoBd /\ m.bd[e][h].own

\* CDCInitEP, the handler of EVENT_CONFIGURED (USBCBInitEP): the transmitter is ready whatever it was
\* sending, so the rest of a message is never sent (cdc_tx_len is left alone), and the line coding is the default.  The endpoint
\* of the notifications, which is enabled too, carries nothing.
CDCInitEP(m) ==
  LET a == [UdConfigureEndpoint(UdConfigureEndpoint(m, "in2"), "out2") EXCEPT !.open = TRUE]
  IN [USBTransferOnePacket(a, "out2", CDC_DATA_EP_SIZE) EXCEPT !.line = <<>>, !.cdc =
        [@ EXCEPT !.outH = a.ptr["out2"], !.inH = NoBd, !.trf = "ready", !.dte = FALSE,
                  !.heard = <<>>, !.fresh = FALSE, !.base = m.cdc.written]]

\* getsUSBUSART: the length is read through the handle, and through the null handle from address 0,
\* where the working registers are.
getsUSBUSART(m) ==
  IF CdcBusy(m, "out2", m.cdc.outH) THEN {m}
  ELSE { [USBTransferOnePacket(m, "out2", CDC_DATA_EP_SIZE) EXCEPT
            !.cdc = [@ EXCEPT !.outH = m.ptr["out2"], !.heard = IF m.cdc.outH = NoBd THEN @ ELSE @ \o CdcGet(m.cdc.rx, n), !.fresh = FALSE,
                              !.phantom = @ \/ (n > 0 /\ ~m.cdc.fresh /\ m.cdc.outH # NoBd)]]
         : n \in IF m.cdc.outH = NoBd THEN 0 .. CDC_DATA_EP_SIZE ELSE {m.bd["out2"][m.cdc.outH].cnt} }

\* putUSBUSART
CdcPutMessage(m, n) ==
  IF m.cdc.trf # "ready" THEN m
  ELSE [m EXCEPT !.cdc.left = CdcUpTo(m.cdc.written, m.cdc.written + n), !.cdc.written = @ + n, !.cdc.trf = "busy"]

\* A packet of the message for the SIE
CdcSendPacket(m, bytes, trf) ==
  [USBTransferOnePacket(m, "in2", Len(bytes)) EXCEPT !.cdc.inH = m.ptr["in2"], !.cdc.tx = CdcPut(@, bytes), !.cdc.trf = trf]

\* Mutant: the buffer is filled again while the SIE still has it.
CdcTxEager(m) ==
  LET n == UdLeast(Len(m.cdc.left), CDC_DATA_EP_SIZE)
      rest == SubSeq(m.cdc.left, n + 1, Len(m.cdc.left))
  IN IF m.cdc.trf = "ready" THEN m
     ELSE CdcSendPacket([m EXCEPT !.cdc.left = rest], SubSeq(m.cdc.left, 1, n), IF rest # <<>> THEN "busy" ELSE "ready")

\* CDCTxService, called by USBDeviceCDCTasks once the device is configured: a message that fills
\* its last packet is followed by an empty one.
CDCTxService(m) ==
  LET n == UdLeast(Len(m.cdc.left), CDC_DATA_EP_SIZE)
      rest == SubSeq(m.cdc.left, n + 1, Len(m.cdc.left))
      trf == IF rest # <<>> THEN "busy" ELSE IF n = CDC_DATA_EP_SIZE THEN "zlp" ELSE "completing"
  IN CASE CdcBusy(m, "in2", m.cdc.inH) -> m
       [] m.cdc.trf \in {"completing", "ready"} -> [m EXCEPT !.cdc.trf = "ready"]
       [] m.cdc.trf = "zlp" -> CdcSendPacket(m, <<>>, "completing")
       [] m.cdc.trf = "busy" -> CdcSendPacket([m EXCEPT !.cdc.left = rest], SubSeq(m.cdc.left, 1, n), trf)

-----------------------------------------------------------------------------
(* cdc_connection.c                                                        *)

\* CDCTasks; what the application makes of the bytes and of the end of the channel is in Session.
CdcLevel(m) ==
  CASE m.cdc.chan # "DETACHED" /\ m.state = "DETACHED" -> [m EXCEPT !.cdc.chan = "DETACHED"]
    [] m.cdc.chan \in {"WAIT_OPEN", "OPEN"} /\ m.state # "DETACHED" /\ ~m.cdc.dte -> [m EXCEPT !.cdc.chan = "WAIT_DTE"]
    [] OTHER -> m
CDCTasks(m) ==
  LET c == CdcLevel(m)
  IN CASE c.cdc.chan = "DETACHED" -> {IF c.state = "CONFIGURED" THEN [c EXCEPT !.cdc.chan = "WAIT_DTE"] ELSE c}
       [] c.cdc.chan = "WAIT_DTE" -> {IF c.cdc.dte THEN [c EXCEPT !.cdc.chan = "WAIT_OPEN"] ELSE c}
       [] c.cdc.chan = "WAIT_OPEN" -> {c}
       [] c.cdc.chan = "OPEN" -> getsUSBUSART(c)

CDCOpenChannel(m) == [m EXCEPT !.cdc.chan = "OPEN"]
CDCCanSend(m) == m.cdc.chan = "OPEN" /\ m.cdc.trf = "ready"
=============================================================================
