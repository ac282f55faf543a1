------------------------------ MODULE UsbXfer ------------------------------
(***************************************************************************)
(* Transfers of the USB host: USBHostRead, USBHostWrite and                *)
(* USBHostIssueDeviceRequest start one, _USB_FindNextToken chooses what the *)
(* bus does next, and the interrupt handler (_USB1Interrupt) works through  *)
(* NAKs, stalls, lost packets and lost handshakes.  The device has a        *)
(* control endpoint, two bulk endpoints and an interrupt endpoint, as a     *)
(* phone or a Bluetooth dongle does.  Handlers are operators on the record  *)
(* xf, the host.                                                           *)
(***************************************************************************)
EXTENDS Integers, Sequences, FiniteSets

CONSTANTS XfPacket,   \* wMaxPacketSize
          XfRetries,  \* USB_TRANSACTION_RETRY_ATTEMPTS
          XfNaks,     \* USB_NUM_CONTROL_NAKS
          XfInterval, \* wInterval of the interrupt endpoint
          XfBudgets   \* bounds: faults of the bus, NAKs, stalls, requests to the control endpoint, packets

ASSUME XfAssumption ==
  /\ {XfPacket, XfRetries, XfInterval} \subseteq Nat \ {0} /\ XfNaks \in Nat
  /\ XfBudgets \subseteq [{"fault", "nak", "stall", "ask", "adb"} -> Nat]

VARIABLES xf,      \* the host
          xfDev,   \* the device: toggles, packets to send, bytes received
          xfLeft   \* what is left of one of XfBudgets

xfVars == <<xf, xfDev, xfLeft>>

Eps == {"ctl", "int", "in", "out"}
Bulk == <<"in", "out">>
NoToken == [e |-> "none", t |-> "none"]

Quiet == [kind |-> "none", sub |-> "IDLE", complete |-> TRUE, ok |-> FALSE, bad |-> "none", cnt |-> 0, max |-> 0,
          tog |-> 0, naks |-> 0, errs |-> 0, nakd |-> FALSE, buf |-> <<>>]

XfHostInit == [ep |-> [e \in Eps |-> Quiet], tok |-> NoToken, done |-> {}, last |-> 0, wait |-> XfInterval]
XfDevInit == [e \in Eps |-> [tog |-> 0, src |-> <<>>, rx |-> <<>>]]
XfInit == xf = XfHostInit /\ xfDev = XfDevInit /\ xfLeft \in XfBudgets

-----------------------------------------------------------------------------
(* Starting a transfer.                                                    *)

\* What every transfer starts with; for a write buf holds the bytes to send.
XfBegin(k, kind, sub, n, bytes) ==
  [k EXCEPT !.kind = kind, !.sub = sub, !.complete = FALSE, !.ok = FALSE, !.cnt = 0, !.max = n, !.naks = 0, !.errs = 0,
            !.nakd = FALSE, !.buf = bytes]

\* _USB_InitControlRead and _USB_InitControlWrite clear an earlier error ...
InitControlRead(s, n) == [s EXCEPT !.ep["ctl"] = [XfBegin(@, "CONTROL_READ", "SETUP", n, <<>>) EXCEPT !.bad = "none"]]
InitControlWrite(s, bytes) ==
  [s EXCEPT !.ep["ctl"] = [XfBegin(@, IF bytes = <<>> THEN "NO_DATA" ELSE "CONTROL_WRITE", "SETUP", Len(bytes), bytes) EXCEPT !.bad = "none"]]

\* ... _USB_InitRead and _USB_InitWrite do not.
InitRead(s, e, n) == [s EXCEPT !.ep[e] = XfBegin(@, "READ", "DATA", n, <<>>)]
InitWrite(s, e, bytes) == [s EXCEPT !.ep[e] = XfBegin(@, "WRITE", "DATA", Len(bytes), bytes)]

\* USBHostRead and USBHostWrite refuse an endpoint that is busy or has failed, and leave it alone.
XfReady(s, e) == s.ep[e].complete /\ s.ep[e].bad = "none"
USBHostRead(s, e, n) == IF XfReady(s, e) THEN InitRead(s, e, n) ELSE s
USBHostWrite(s, e, bytes) == IF XfReady(s, e) THEN InitWrite(s, e, bytes) ELSE s

\* USBHostTransferIsComplete
XfResult(s, e) == IF s.ep[e].ok THEN "success" ELSE IF s.ep[e].bad # "none" THEN s.ep[e].bad ELSE "unresolved"

-----------------------------------------------------------------------------
(* _USB_FindNextToken                                                      *)

\* TSTATE_* and TSUBSTATE_*: what follows a stage, _USB_SetNextTransferState
NextSub(kind, sub) ==
  CASE sub = "SETUP" -> IF kind = "NO_DATA" THEN "ACK" ELSE "DATA"
    [] sub = "DATA" /\ kind \in {"CONTROL_READ", "CONTROL_WRITE"} -> "ACK"
    [] OTHER -> "COMPLETE"

\* The token of each stage of a control transfer, and of every packet of the others
NoDataTokens == [SETUP |-> "SETUP", ACK |-> "IN"]
ControlReadTokens == [SETUP |-> "SETUP", DATA |-> "IN", ACK |-> "OUT"]
ControlWriteTokens == [SETUP |-> "SETUP", DATA |-> "OUT", ACK |-> "IN"]
TokenOf(k) ==
  CASE k.kind = "NO_DATA" -> NoDataTokens[k.sub]
    [] k.kind = "CONTROL_READ" -> ControlReadTokens[k.sub]
    [] k.kind = "CONTROL_WRITE" -> ControlWriteTokens[k.sub]
    [] k.kind = "READ" -> "IN"
    [] k.kind = "WRITE" -> "OUT"

\* _USB_SetDATA01, _USB_SetBDT and _USB_SendToken; the status stage has no data.
SendToken(s, e) ==
  LET k == s.ep[e]
  IN [s EXCEPT !.tok = [e |-> e, t |-> TokenOf(k)],
               !.ep[e].tog = IF k.sub = "SETUP" THEN 0 ELSE IF k.sub = "ACK" THEN 1 ELSE @,
               !.ep[e].max = IF k.sub = "ACK" THEN k.cnt ELSE @]

Ended(k) == k.sub \in {"COMPLETE", "ERROR"}
Finish(s, e) == [s EXCEPT !.ep[e].sub = "IDLE", !.ep[e].complete = TRUE]

\* One control transaction in a frame
ControlTurn(s) ==
  IF s.tok # NoToken \/ "ctl" \in s.done THEN s
  ELSE LET t == [s EXCEPT !.done = @ \cup {"ctl"}]
       IN IF s.ep["ctl"].complete THEN t ELSE IF Ended(s.ep["ctl"]) THEN Finish(t, "ctl") ELSE SendToken(t, "ctl")

\* An interrupt transaction when the interval has passed
InterruptTurn(s) ==
  IF s.tok # NoToken \/ "int" \in s.done THEN s
  ELSE LET k == s.ep["int"]
           t == [s EXCEPT !.done = @ \cup {"int"}]
       IN IF k.complete THEN [t EXCEPT !.wait = IF @ = 0 THEN XfInterval ELSE @]
          ELSE IF Ended(k) THEN Finish(t, "int")
          ELSE IF s.wait = 0 THEN SendToken([s EXCEPT !.wait = XfInterval], "int") ELSE t

\* Bulk endpoints that want to be served, as _USB_FindServiceEndpoint counts them, and the next
\* one in turn.  When all have had their turn it starts again with the first.
Wanting(s) == SelectSeq(Bulk, LAMBDA e : ~s.ep[e].complete /\ ~s.ep[e].nakd)
BulkOnce(s) ==
  LET w == Wanting(s)
      e == w[s.last + 1]
      t == [s EXCEPT !.last = @ + 1]
  IN IF s.tok # NoToken \/ "bulk" \in s.done THEN s
     ELSE IF w = <<>> THEN [s EXCEPT !.done = @ \cup {"bulk"}]
     ELSE IF s.last >= Len(w) THEN [s EXCEPT !.last = 0]
     ELSE IF Ended(s.ep[e]) THEN [Finish(t, e) EXCEPT !.last = 0]
     ELSE SendToken(t, e)
BulkTurn(s) ==
  LET turn[n \in 0 .. 8] == IF n = 0 THEN s ELSE BulkOnce(turn[n - 1]) IN turn[8]

FindNextToken(s) == BulkTurn(InterruptTurn(ControlTurn(s)))

-----------------------------------------------------------------------------
(* The interrupt handler.                                                  *)

\* An OUT or SETUP packet was acknowledged, or an IN packet with n bytes arrived.
Moved(s, e, n, bytes) ==
  LET k == [s.ep[e] EXCEPT !.cnt = @ + n, !.naks = 0, !.tog = 1 - @, !.buf = @ \o bytes]
      next == NextSub(k.kind, k.sub)
  IN IF k.sub = "SETUP" THEN [s EXCEPT !.ep[e] = [k EXCEPT !.cnt = 0, !.sub = next]]
     ELSE IF n < XfPacket \/ k.cnt >= k.max THEN [s EXCEPT !.ep[e] = [k EXCEPT !.ok = TRUE, !.sub = next]]
     ELSE [s EXCEPT !.ep[e] = k]

\* NAKs are counted where there is a limit, on the control endpoint.  An interrupt IN transfer
\* ends with what it has.
Naked(s, e) ==
  LET k == [s.ep[e] EXCEPT !.nakd = TRUE, !.naks = IF e = "ctl" THEN @ + 1 ELSE 0]
  IN [s EXCEPT !.ep[e] =
        CASE e = "ctl" /\ k.naks > XfNaks -> [k EXCEPT !.bad = "nak_timeout", !.sub = "ERROR"]
          [] e = "int" -> [k EXCEPT !.ok = TRUE, !.sub = "COMPLETE"]
          [] OTHER -> k]

Stalled(s, e) == [s EXCEPT !.ep[e] = [@ EXCEPT !.bad = "stalled", !.sub = "ERROR"]]

\* A packet that failed is sent again, up to a number of times in a transfer.
Failed(s, e) ==
  LET k == [s.ep[e] EXCEPT !.errs = @ + 1]
  IN [s EXCEPT !.ep[e] = IF k.errs >= XfRetries THEN [k EXCEPT !.bad = "error", !.sub = "ERROR"] ELSE k]

\* The end of a transaction goes on with the next one; a bus error waits for the next frame.
TransferDone(s) == FindNextToken([s EXCEPT !.tok = NoToken])
BusError(s) == [s EXCEPT !.tok = NoToken]

\* Mutant: an endpoint that was not ready once is not asked again.
FrameKeepsNak(s) == FindNextToken([s EXCEPT !.wait = IF @ = 0 THEN 0 ELSE @ - 1, !.done = {}, !.last = 0])

\* Start of frame
Frame(s) ==
  FindNextToken([s EXCEPT !.wait = IF @ = 0 THEN 0 ELSE @ - 1, !.done = {}, !.last = 0,
                          !.ep = [e \in Eps |-> IF e = "ctl" THEN @[e] ELSE [@[e] EXCEPT !.nakd = FALSE]]])

\* Only while something can happen in the frame: idle frames are left out.
StartOfFrame ==
  /\ \E e \in Eps : ~xf.ep[e].complete
  /\ xf' = Frame(xf)
  /\ UNCHANGED <<xfDev, xfLeft>>

-----------------------------------------------------------------------------
(* The bus and the device.                                                 *)

On(t) == xf.tok.t = t
K == xf.ep[xf.tok.e]
Spend(what) == xfLeft[what] > 0 /\ xfLeft' = [xfLeft EXCEPT ![what] = @ - 1]
Least(a, b) == IF a < b THEN a ELSE b

\* The packet of an OUT transaction, _USB_SetBDT: what is left, up to a full packet
OutPacket == SubSeq(K.buf, K.cnt + 1, Least(K.max, K.cnt + XfPacket))

\* What the device makes of it: a SETUP starts the request anew, a packet with the other toggle is a
\* repetition.
Taken ==
  LET d == xfDev[xf.tok.e]
  IN IF On("SETUP") THEN [xfDev EXCEPT !["ctl"] = [tog |-> 1, src |-> IF K.kind = "CONTROL_READ" THEN <<<<7, 8>>, <<9>>>> ELSE <<<<>>>>, rx |-> <<>>]]
     ELSE IF d.tog # K.tog THEN xfDev
     ELSE [xfDev EXCEPT ![xf.tok.e] = [d EXCEPT !.tog = 1 - @, !.rx = @ \o OutPacket]]

OutAcknowledged ==
  /\ On("SETUP") \/ On("OUT")
  /\ xfDev' = Taken
  /\ xf' = TransferDone(Moved(xf, xf.tok.e, IF On("SETUP") THEN 8 ELSE Len(OutPacket), <<>>))
  /\ UNCHANGED xfLeft

\* The device took the packet and its handshake was lost.
OutHandshakeLost ==
  /\ On("SETUP") \/ On("OUT")
  /\ Spend("fault")
  /\ xfDev' = Taken
  /\ xf' = BusError(Failed(xf, xf.tok.e))

\* A packet was lost: an error interrupt, or a transaction with an illegal PID
PacketLost ==
  /\ xf.tok # NoToken
  /\ Spend("fault")
  /\ xf' \in {BusError(Failed(xf, xf.tok.e)), TransferDone(Failed(xf, xf.tok.e))}
  /\ UNCHANGED xfDev

\* The device has a packet.  The module acknowledges it with either toggle, and drops it when it is
\* not the one it expects.
InReceived ==
  /\ On("IN") /\ xfDev[xf.tok.e].src # <<>>
  /\ LET d == xfDev[xf.tok.e]
         p == Head(d.src)
     IN /\ xf' = TransferDone(IF d.tog = K.tog THEN Moved(xf, xf.tok.e, Len(p), p) ELSE Failed(xf, xf.tok.e))
        /\ \/ xfDev' = [xfDev EXCEPT ![xf.tok.e] = [d EXCEPT !.tog = 1 - @, !.src = Tail(@)]] /\ UNCHANGED xfLeft
           \/ Spend("fault") /\ UNCHANGED xfDev

NotReady ==
  /\ On("IN") \/ On("OUT")
  /\ IF On("IN") /\ xfDev[xf.tok.e].src = <<>> THEN UNCHANGED xfLeft ELSE Spend("nak")
  /\ xf' = TransferDone(Naked(xf, xf.tok.e))
  /\ UNCHANGED xfDev

DeviceStalls ==
  /\ On("IN") \/ On("OUT")
  /\ Spend("stall")
  /\ xf' = TransferDone(Stalled(xf, xf.tok.e))
  /\ UNCHANGED xfDev

\* USBHostIssueDeviceRequest, as a command to a Bluetooth dongle or a request of a client
IssueDeviceRequest ==
  /\ xf.ep["ctl"].complete
  /\ Spend("ask")
  /\ xf' \in {InitControlRead(xf, 3), InitControlWrite(xf, <<>>), InitControlWrite(xf, <<1, 2, 3>>)}
  /\ UNCHANGED xfDev

\* The interrupt endpoint of a Bluetooth dongle, read again and again
ReadInterrupt ==
  /\ XfReady(xf, "int") /\ xfLeft.ask > 0
  /\ xf' = USBHostRead(xf, "int", 2)
  /\ UNCHANGED <<xfDev, xfLeft>>

XfBus ==
  \/ StartOfFrame \/ OutAcknowledged \/ OutHandshakeLost \/ PacketLost \/ InReceived \/ NotReady \/ DeviceStalls
XfNext == XfBus \/ IssueDeviceRequest \/ ReadInterrupt

-----------------------------------------------------------------------------
(* Properties.                                                             *)

\* A request to the control endpoint that succeeded moved its data once and in order, although
\* packets and handshakes were lost; and a stage that follows starts where the device is.
XfControlExact ==
  LET k == xf.ep["ctl"]
  IN k.ok => CASE k.kind = "CONTROL_READ" -> k.buf = <<7, 8, 9>>
               [] k.kind = "CONTROL_WRITE" -> xfDev["ctl"].rx = k.buf
               [] OTHER -> TRUE

\* What may come of the token that is out, in a frame without a bus error
Answers(s) ==
  LET e == s.tok.e  k == s.ep[e]
      full == IF k.sub = "SETUP" THEN 8 ELSE Least(XfPacket, k.max - k.cnt)
      refused == IF k.sub = "SETUP" THEN {} ELSE {Naked(s, e), Stalled(s, e)}
  IN {TransferDone(t) : t \in {Moved(s, e, full, <<>>), Failed(s, e)} \cup refused}

\* Transfers that have neither ended nor had a token yet, as answers come in
Follow(s, owed) == [s |-> s, owed |-> {e \in owed : ~s.ep[e].complete /\ s.tok.e # e}]
AfterAnswer(x) == IF x.s.tok = NoToken THEN {x} ELSE {Follow(t, x.owed) : t \in Answers(x.s)}

\* Every transfer under way gets a token, or ends, in the next frame that no bus error cuts short,
\* before any endpoint has had more than its turn, however the device answers the others: no
\* endpoint is forgotten behind NAKs, stalls, retries or long transfers of the others.  An
\* interrupt endpoint is due when its interval has passed.
XfServed ==
  LET due == {e \in Eps : ~xf.ep[e].complete /\ (e = "int" => xf.wait <= 1)}
      Owing(xs) == {x \in xs : x.owed # {}}
      after[n \in 0 .. Cardinality(Eps)] ==
        Owing(IF n = 0 THEN {Follow(Frame(xf), due)} ELSE UNION {AfterAnswer(x) : x \in after[n - 1]})
  IN xf.tok = NoToken /\ due # {} => after[Cardinality(Eps)] = {}
=============================================================================
