---------------------------- MODULE UsbEndpoints ----------------------------
(***************************************************************************)
(* The endpoints of the board as a USB device: the buffer descriptors that  *)
(* usb_device.c shares with the serial interface engine (SIE), two for      *)
(* each direction (full ping-pong), and the functions that arm, halt and    *)
(* release them.  Endpoint 0 carries control transfers (UsbDevice),         *)
(* endpoint 2 the serial port (UsbCdc).  A step of the program is an        *)
(* operator on the record m that holds registers, memory and variables.     *)
(***************************************************************************)
EXTENDS Integers, Sequences, FiniteSets

CONSTANTS USB_EP0_BUFF_SIZE, CDC_DATA_EP_SIZE

ASSUME UdSizeAssumption == {USB_EP0_BUFF_SIZE, CDC_DATA_EP_SIZE} \subseteq Nat \ {0}

UdEnds == {"out0", "in0", "out2", "in2"}
UdIsOut(e) == e \in {"out0", "out2"}
NoBd == 2    \* the null pointer to a buffer descriptor; 0 and 1 are the even and the odd one

UdLeast(a, b) == IF a < b THEN a ELSE b

\* A buffer descriptor: UOWN, DTS, DTSEN and BSTALL, CNT, ADR, and whether PID is PID_SETUP
UdBlank == [own |-> FALSE, dts |-> 0, sync |-> FALSE, stall |-> FALSE, cnt |-> 0, adr |-> "none", setup |-> FALSE]
UdNoBds == [e \in UdEnds |-> [p \in {0, 1} |-> UdBlank]]

\* _USIE with flags
UdArmed(dts, sync, stall, cnt, adr) ==
  [own |-> TRUE, dts |-> dts, sync |-> sync, stall |-> stall, cnt |-> cnt, adr |-> adr, setup |-> FALSE]

-----------------------------------------------------------------------------
(* The SIE.  It works on the descriptor its ping-pong pointer names, queues *)
(* at most four completed transactions in U1STAT, and after a SETUP does    *)
(* nothing until the program clears PKTDIS.                                 *)

UdBd(m, e) == m.bd[e][m.pp[e]]

UdComplete(m, e, bd) ==
  [m EXCEPT !.bd[e][m.pp[e]] = [bd EXCEPT !.own = FALSE], !.pp[e] = 1 - @, !.fifo = Append(@, [e |-> e, p |-> m.pp[e]])]

\* What the SIE answers to a token for endpoint e at address a; "again" is an ACK of a repeated
\* packet, which is dropped.
UdReply(m, a, e, setup, dts) ==
  LET b == UdBd(m, e)
  IN CASE a # m.addr \/ (e \in {"out2", "in2"} /\ ~m.open) -> "none"
       [] m.pktdis \/ ~b.own \/ Len(m.fifo) = 4 -> "nak"
       [] b.stall /\ ~setup -> "stall"
       [] UdIsOut(e) /\ ~setup /\ b.sync /\ b.dts # dts -> "again"
       [] OTHER -> "ok"

-----------------------------------------------------------------------------
(* The program.                                                            *)

\* USBConfigureEndpoint and USBEnableEndpoint
UdConfigureEndpoint(m, e) == [m EXCEPT !.bd[e][0].own = FALSE, !.bd[e][0].dts = 0, !.bd[e][1].dts = 1, !.ptr[e] = 0]

\* USBTransferOnePacket; the handle it returns is m.ptr[e] as it was.
USBTransferOnePacket(m, e, len) ==
  IF m.ptr[e] = NoBd THEN m
  ELSE [m EXCEPT !.bd[e][m.ptr[e]] = UdArmed(@.dts, TRUE, FALSE, len, "none"), !.ptr[e] = 1 - @]

\* USBStdFeatureReqHandler for USB_FEATURE_ENDPOINT_HALT: the pointer follows the ping-pong state
\* the program counted, and that descriptor stalls.
UdHalt(m, e) ==
  LET p == m.seen[e]
  IN [m EXCEPT !.ptr[e] = p, !.terminated[e] = @ \/ m.bd[e][p].own, !.bd[e][p].own = TRUE, !.bd[e][p].stall = TRUE]

\* ... and CLEAR_FEATURE takes both descriptors back, the next packet being DATA0.
UdUnhalt(m, e) ==
  LET p == m.seen[e]
  IN [m EXCEPT !.ptr[e] = p, !.terminated[e] = FALSE, !.bd[e][1 - p].own = FALSE, !.bd[e][1 - p].dts = 1,
               !.bd[e][p].own = FALSE, !.bd[e][p].dts = 0, !.bd[e][p].stall = FALSE]
=============================================================================
