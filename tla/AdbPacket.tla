----------------------------- MODULE AdbPacket -----------------------------
(***************************************************************************)
(* ADB packets between the board and a phone: adb_packet.c over the bulk   *)
(* endpoints of usb_host_android.c.  A packet is a header with the length  *)
(* and the checksum of the data, then the data; each is a transfer of its  *)
(* own.                                                                    *)
(***************************************************************************)
EXTENDS UsbXfer

LOCAL INSTANCE SequencesExt

CONSTANTS AdbSizes,   \* lengths of data
          AdbMax      \* ADB_PACKET_MAX_RECV_DATA_BYTES

ASSUME AdbAssumption == AdbSizes \subseteq Nat /\ AdbMax \in Nat

VARIABLES adb,     \* the board: adb_packet_send_state, adb_packet_recv_state, gc_DevData, packets received
          adbLog   \* packets the phone and the board have sent

adbVars == <<adb, adbLog>>

Side == [st |-> "IDLE", busy |-> FALSE, err |-> "success", len |-> 0, hdr |-> <<>>]
AdbInit == adb = [tx |-> Side, rx |-> Side, got |-> <<>>] /\ adbLog = [phone |-> <<>>, board |-> <<>>]

\* ADBChecksum
ADBChecksum(data) == FoldSeq(LAMBDA b, sum : sum + b.val, 0, data)
\* A header stands for its 24 bytes.  The data of the nth packet of a side: no two packets have a byte
\* in common, and no data has the magic number of a header.
Header(data) == [magic |-> TRUE, len |-> Len(data), val |-> ADBChecksum(data)]
Data(n, len) == [i \in 1 .. len |-> [magic |-> FALSE, len |-> 0, val |-> 10 * n + i]]
\* Packets of the bus that carry data: full ones and a short one
Packets(data) ==
  [i \in 1 .. (Len(data) + XfPacket - 1) \div XfPacket |->
     SubSeq(data, XfPacket * (i - 1) + 1, Least(Len(data), XfPacket * i))]

-----------------------------------------------------------------------------
(* USBHostAndroidTasks notices the end of transfers.                       *)

Polled(side, e) ==
  IF side.busy /\ xf.ep[e].complete THEN [side EXCEPT !.busy = FALSE, !.err = XfResult(xf, e), !.len = xf.ep[e].cnt] ELSE side
AndroidTasks ==
  /\ adb' = [adb EXCEPT !.rx = Polled(@, "in"), !.tx = Polled(@, "out")]
  /\ adb' # adb
  /\ UNCHANGED <<xfVars, adbLog>>

\* USBHostAndroidWrite and USBHostAndroidRead: state st follows when the transfer could be started.
Refused(side, e) == side.busy \/ ~XfReady(xf, e)
Started(side, e, st) ==
  IF Refused(side, e) THEN [side EXCEPT !.st = "ERROR"] ELSE [side EXCEPT !.busy = TRUE, !.len = 0, !.st = st]
AndroidWrite(side, bytes, st) ==
  /\ xf' = IF side.busy THEN xf ELSE USBHostWrite(xf, "out", bytes)
  /\ adb' = [adb EXCEPT !.tx = Started(side, "out", st)]
AndroidRead(side, n, st) ==
  /\ xf' = IF side.busy THEN xf ELSE USBHostRead(xf, "in", n)
  /\ adb' = [adb EXCEPT !.rx = Started(side, "in", st)]

Becomes(w, side) == adb' = [adb EXCEPT ![w] = side] /\ UNCHANGED xf

\* ADBPacketSendTasks
SendTasks ==
  LET s == adb.tx
      data == Data(Len(adbLog.board), adbLog.board[Len(adbLog.board)])
  IN /\ \/ s.st = "START" /\ AndroidWrite(s, <<Header(data)>>, "WAIT_HEADER")
        \/ /\ s.st = "WAIT_HEADER" /\ ~s.busy
           /\ IF s.err # "success" THEN Becomes("tx", [s EXCEPT !.st = "ERROR"])
              ELSE IF data = <<>> THEN Becomes("tx", [s EXCEPT !.st = "IDLE"])
              ELSE AndroidWrite(s, data, "WAIT_DATA")
        \/ s.st = "WAIT_DATA" /\ ~s.busy /\ Becomes("tx", [s EXCEPT !.st = IF s.err # "success" THEN "ERROR" ELSE "IDLE"])
     /\ UNCHANGED <<xfDev, xfLeft, adbLog>>

\* ADBPacketRecvTasks.  The header is what the first transfer has put in its place.
RecvTasks ==
  LET s == adb.rx
      h == xf.ep["in"].buf
  IN /\ \/ s.st = "START" /\ AndroidRead(s, 1, "WAIT_HEADER")
        \/ /\ s.st = "WAIT_HEADER" /\ ~s.busy
           /\ IF s.err # "success" \/ s.len # 1 \/ ~h[1].magic \/ h[1].len > AdbMax THEN Becomes("rx", [s EXCEPT !.st = "ERROR"])
              ELSE IF h[1].len = 0 THEN adb' = [adb EXCEPT !.rx = [s EXCEPT !.st = "IDLE"], !.got = Append(@, <<>>)] /\ UNCHANGED xf
              ELSE AndroidRead([s EXCEPT !.hdr = h], h[1].len, "WAIT_DATA")
        \/ /\ s.st = "WAIT_DATA" /\ ~s.busy
           /\ UNCHANGED xf
           /\ adb' = IF s.err # "success" \/ s.len # s.hdr[1].len \/ ADBChecksum(h) # s.hdr[1].val
                     THEN [adb EXCEPT !.rx = [s EXCEPT !.st = "ERROR"]]
                     ELSE [adb EXCEPT !.rx = [s EXCEPT !.st = "IDLE", !.hdr = <<>>], !.got = Append(@, h)]
     /\ UNCHANGED <<xfDev, xfLeft, adbLog>>

\* ADBPacketSend and ADBPacketRecv assert that no packet is under way; ADB sends nothing more after
\* an error.
ADBPacketSend ==
  /\ adb.tx.st = "IDLE" /\ Len(adbLog.board) < xfLeft.adb
  /\ adb' = [adb EXCEPT !.tx.st = "START"]
  /\ \E n \in AdbSizes : adbLog' = [adbLog EXCEPT !.board = Append(@, n)]
  /\ UNCHANGED xfVars
ADBPacketRecv ==
  /\ adb.rx.st = "IDLE" /\ Len(adb.got) < xfLeft.adb
  /\ adb' = [adb EXCEPT !.rx.st = "START"]
  /\ UNCHANGED <<xfVars, adbLog>>

\* The phone sends a packet.
PhoneSendsPacket ==
  /\ Len(adbLog.phone) < xfLeft.adb
  /\ \E n \in AdbSizes :
       LET data == Data(Len(adbLog.phone) + 1, n)
       IN /\ adbLog' = [adbLog EXCEPT !.phone = Append(@, n)]
          /\ xfDev' = [xfDev EXCEPT !["in"].src = @ \o <<<<Header(data)>>>> \o Packets(data)]
  /\ UNCHANGED <<xf, xfLeft, adb>>

AdbNext ==
  \/ XfNext /\ UNCHANGED adbVars
  \/ AndroidTasks \/ SendTasks \/ RecvTasks \/ ADBPacketSend \/ ADBPacketRecv \/ PhoneSendsPacket

-----------------------------------------------------------------------------
(* Properties.                                                             *)

Stream(log) == FlattenSeq([i \in DOMAIN log |-> <<Header(Data(i, log[i]))>> \o Data(i, log[i])])

\* Packets arrive whole, once and in order in both directions, although packets of the bus and
\* handshakes are lost.  A packet reported as sent has arrived; and the board finds a packet
\* malformed only after the endpoint has failed.
AdbPacketsWhole ==
  /\ \A i \in DOMAIN adb.got : adb.got[i] = Data(i, adbLog.phone[i])
  /\ LET rx == xfDev["out"].rx
     IN rx = SubSeq(Stream(adbLog.board), 1, Len(rx)) /\ (adb.tx.st = "IDLE" => rx = Stream(adbLog.board))
  /\ adb.rx.st = "ERROR" => xf.ep["in"].bad # "none"
=============================================================================
