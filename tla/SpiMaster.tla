----------------------------- MODULE SpiMaster -----------------------------
(***************************************************************************)
(* One SPI module: requests of the host library with credit for tx_queue   *)
(* (PacketSender), the interrupt handler against hardware that shifts      *)
(* bytes while the handler runs, and SPITasks of the main loop.  The       *)
(* queues hold the bytes spi.c puts there.  A message on the wire carries  *)
(* the session it is of, which the code's do not.                          *)
(***************************************************************************)
EXTENDS Integers, Sequences, FiniteSets, PacketSender

CONSTANTS SpiTx, SpiRx,     \* TX_BUF_SIZE, RX_BUF_SIZE
          SpiFifo,          \* depth of the hardware FIFOs
          SpiPlans          \* bounds: [opens, requests, kinds], how often the module is opened, how many
                            \* requests are made, and which: [dest, total, data, trim], data the bytes written

ASSUME SpiAssumption ==
  /\ {SpiTx, SpiRx, SpiFifo} \subseteq Nat \ {0}
  /\ \A p \in SpiPlans : {p.opens, p.requests} \subseteq Nat
  /\ \A p \in SpiPlans : \A r \in p.kinds : r.data <= r.total /\ r.trim <= r.total /\ r.total > 0 /\ 4 + r.data <= SpiTx \div 2

VARIABLES sHost,    \* the library: plan, open, sessions, requests made, results awaited, results got wrong
          sSend,    \* its packet sender of each session
          sOut,     \* messages from the board on their way to the host
          sIn,      \* requests on their way to the board
          sTx, sRx, \* tx_queue, rx_queue
          spi,      \* the rest of SPI_STATE, IE, IF and enabled
          sIsr,     \* the handler is in its read loop
          sFifo,    \* hardware: bytes to shift out, bytes shifted in
          sLost,    \* rx_queue or tx_queue has overflowed
          sStale    \* a request of an earlier session has entered tx_queue of a later one

sVars == <<sHost, sSend, sOut, sIn, sTx, sRx, spi, sIsr, sFifo, sLost, sStale>>

\* The k-th byte of a transfer that writes d bytes: data, then 0xFF.  The slave selected
\* by dest answers each byte with one of its own that depends on it.
GARBAGE == 0
Written(d, k) == IF k <= d THEN k ELSE GARBAGE
Reply(dest, b) == 100 * dest + b

Closed == [on |-> FALSE, ie |-> FALSE, if |-> FALSE, state |-> "IDLE", report |-> 0, messages |-> 0,
           dest |-> 0, total_tx |-> 0, data_tx |-> 0, trim_rx |-> 0, total_rx |-> 0, rx_size |-> 0, can_send |-> 0]
NoHost(p) == [plan |-> p, open |-> FALSE, opens |-> 0, made |-> 0, pending |-> <<>>, wrong |-> FALSE]

SpiInit ==
  /\ \E p \in SpiPlans : sHost = NoHost(p) /\ sSend = [k \in 1..p.opens |-> DeadSender]
  /\ sStale = FALSE /\ sOut = <<>> /\ sIn = <<>> /\ sTx = <<>> /\ sRx = <<>>
  /\ spi = Closed /\ sIsr = FALSE /\ sFifo = [tx |-> <<>>, rx |-> <<>>] /\ sLost = FALSE

-----------------------------------------------------------------------------
(* The host library.                                                       *)

\* openSpiMaster: a new object with its own sender, and SPI_CONFIGURE_MASTER behind what was sent before.
openSpiMaster ==
  /\ ~sHost.open /\ sHost.opens < sHost.plan.opens
  /\ sHost' = [sHost EXCEPT !.open = TRUE, !.opens = @ + 1, !.pending = <<>>]
  /\ sSend' = [sSend EXCEPT ![sHost.opens + 1] = NewSender]
  /\ sIn' = Append(sIn, [config |-> TRUE])
  /\ UNCHANGED <<sOut, sTx, sRx, spi, sIsr, sFifo, sLost, sStale>>

\* SpiMasterImpl.close: a request its thread has taken may still be sent behind the message.
SpiHostCloses ==
  /\ sHost.open /\ sHost' = [sHost EXCEPT !.open = FALSE]
  /\ sSend' = [sSend EXCEPT ![sHost.opens] = CloseSender(@)]
  /\ sIn' = Append(sIn, [config |-> FALSE])
  /\ UNCHANGED <<sOut, sTx, sRx, spi, sIsr, sFifo, sLost, sStale>>

\* writeReadAsync: a result is awaited unless it is empty.
SpiHostWrites ==
  /\ sHost.open /\ sHost.made < sHost.plan.requests
  /\ \E r \in sHost.plan.kinds :
       /\ sHost' = [sHost EXCEPT !.made = @ + 1, !.pending = IF r.total > r.trim THEN Append(@, r) ELSE @]
       /\ sSend' = [sSend EXCEPT ![sHost.opens] = Write(@, [size |-> 4 + r.data, r |-> r])]
  /\ UNCHANGED <<sOut, sIn, sTx, sRx, spi, sIsr, sFifo, sLost, sStale>>

\* FlushThread of session k takes a packet the board has room for ...
SpiFlushTake(k) ==
  /\ CanTake(sSend[k]) /\ sSend' = [sSend EXCEPT ![k] = Take(@)]
  /\ UNCHANGED <<sHost, sOut, sIn, sTx, sRx, spi, sIsr, sFifo, sLost, sStale>>

\* ... and sends it without the lock, whatever has been closed and opened since.
SpiFlushSend(k) ==
  /\ sSend[k].taken # <<>> /\ sSend' = [sSend EXCEPT ![k] = Sent(@)]
  /\ sIn' = Append(sIn, [request |-> sSend[k].taken[1].r, session |-> k])
  /\ UNCHANGED <<sHost, sOut, sTx, sRx, spi, sIsr, sFifo, sLost, sStale>>

\* A message of the board, for the listener of its session (SPI_STATUS tells the sessions
\* apart).  A result of a session that was closed is read by nobody.
SpiHostReceives ==
  /\ sOut # <<>>
  /\ sOut' = Tail(sOut)
  /\ LET m == Head(sOut) IN
     /\ sSend' = IF "add" \in DOMAIN m THEN [sSend EXCEPT ![m.session] = ReadyToSend(@, m.add)] ELSE sSend
     /\ sHost' = IF "add" \in DOMAIN m \/ ~sHost.open \/ m.session # sHost.opens THEN sHost
                 ELSE IF sHost.pending = <<>> THEN [sHost EXCEPT !.wrong = TRUE]
                 ELSE LET r == Head(sHost.pending) IN
                      [sHost EXCEPT !.pending = Tail(@),
                        !.wrong = @ \/ m.dest # r.dest \/ m.data # [k \in 1..(r.total - r.trim) |-> Reply(r.dest, Written(r.data, r.trim + k))]]
  /\ UNCHANGED <<sIn, sTx, sRx, spi, sIsr, sFifo, sLost, sStale>>

-----------------------------------------------------------------------------
(* The main loop of the board.                                             *)

\* The session the board is in, for its messages: the configurations it has not seen are in sIn.
SpiSession == sHost.opens - Cardinality({i \in DOMAIN sIn : "config" \in DOMAIN sIn[i] /\ sIn[i].config})

\* SPIConfigMasterInternal: stop, clear, and open with all of tx_queue to report.
SPIConfigMaster ==
  /\ sIn # <<>> /\ "config" \in DOMAIN Head(sIn) /\ ~sIsr
  /\ sIn' = Tail(sIn) /\ sTx' = <<>> /\ sRx' = <<>> /\ sFifo' = [tx |-> <<>>, rx |-> <<>>]
  /\ spi' = IF Head(sIn).config THEN [Closed EXCEPT !.on = TRUE, !.report = SpiTx, !.if = TRUE]
            ELSE [Closed EXCEPT !.if = spi.if]
  /\ UNCHANGED <<sHost, sSend, sOut, sIsr, sLost, sStale>>

\* SPITransmit, with the interrupt masked, whether or not the module is open.
SPITransmit ==
  /\ sIn # <<>> /\ "request" \in DOMAIN Head(sIn) /\ ~sIsr
  /\ sIn' = Tail(sIn)
  /\ LET r == Head(sIn).request IN
     /\ sTx' = sTx \o <<r.dest, r.total, r.data, r.trim>> \o [k \in 1..r.data |-> Written(r.data, k)]
     /\ sLost' = (sLost \/ (spi.on /\ Len(sTx') > SpiTx))
  /\ sStale' = (sStale \/ (spi.on /\ Head(sIn).session # SpiSession))
  /\ spi' = [spi EXCEPT !.ie = TRUE]
  /\ UNCHANGED <<sHost, sSend, sOut, sRx, sIsr, sFifo>>

\* SPITasks: one complete message of rx_queue goes to the host.  After an overflow the queue
\* no longer holds whole messages and the assertion fails: the model goes no further.
SPITasksData ==
  /\ spi.messages > 0 /\ ~sIsr /\ ~sLost
  /\ LET size == sRx[2] IN
     /\ sOut' = Append(sOut, [session |-> SpiSession, dest |-> sRx[1], data |-> SubSeq(sRx, 3, 2 + size)])
     /\ sRx' = SubSeq(sRx, 3 + size, Len(sRx))
  /\ spi' = [spi EXCEPT !.messages = @ - 1]
  /\ UNCHANGED <<sHost, sSend, sIn, sTx, sIsr, sFifo, sLost, sStale>>

\* SPIReportTxStatus.
SPIReportTxStatus ==
  /\ spi.report > SpiTx \div 2 /\ ~sIsr
  /\ sOut' = Append(sOut, [session |-> SpiSession, add |-> spi.report])
  /\ spi' = [spi EXCEPT !.report = 0]
  /\ UNCHANGED <<sHost, sSend, sIn, sTx, sRx, sIsr, sFifo, sLost, sStale>>

-----------------------------------------------------------------------------
(* SPIInterrupt.                                                           *)

\* "send as much data as possible": s is SPI_STATE, q tx_queue; data first, then 0xFF.
SendBytes(s, q) ==
  LET n == IF s.total_tx < s.can_send THEN s.total_tx ELSE s.can_send
      d == IF s.data_tx < n THEN s.data_tx ELSE n
  IN  /\ sFifo' = [sFifo EXCEPT !.tx = @ \o [k \in 1..n |-> IF k <= d THEN q[k] ELSE GARBAGE]]
      /\ sTx' = SubSeq(q, d + 1, Len(q))
      /\ spi' = [s EXCEPT !.total_tx = @ - n, !.can_send = @ - n, !.data_tx = @ - d, !.report = @ + d]

\* Packet initialization, and the first bytes.  The flag is cleared before anything is written.
SpiIsrBegin ==
  /\ spi.ie /\ spi.if /\ ~sIsr /\ spi.state = "IDLE"
  /\ LET size == sTx[2] - sTx[4]
         s == [spi EXCEPT !.if = FALSE, !.dest = sTx[1], !.total_tx = sTx[2], !.total_rx = sTx[2], !.data_tx = sTx[3],
                          !.trim_rx = sTx[4], !.can_send = SpiFifo, !.report = @ + 4, !.rx_size = size,
                          !.state = "IN_PROGRESS"]
     IN  /\ SendBytes(s, SubSeq(sTx, 5, Len(sTx)))
         /\ sRx' = IF size > 0 /\ Len(sRx) + 2 <= SpiRx THEN sRx \o <<sTx[1], size>> ELSE sRx
         /\ sLost' = (sLost \/ (size > 0 /\ Len(sRx) + 2 > SpiRx))
  /\ UNCHANGED <<sHost, sSend, sOut, sIn, sIsr, sStale>>

SpiIsrEnter ==
  /\ spi.ie /\ spi.if /\ ~sIsr /\ spi.state # "IDLE"
  /\ sIsr' = TRUE
  /\ UNCHANGED <<sHost, sSend, sOut, sIn, sTx, sRx, spi, sFifo, sLost, sStale>>

\* Mutant: the bytes to trim are kept.
SpiIsrReadNoTrim ==
  /\ sIsr /\ sFifo.rx # <<>>
  /\ sFifo' = [sFifo EXCEPT !.rx = Tail(@)]
  /\ sRx' = IF Len(sRx) < SpiRx THEN Append(sRx, Head(sFifo.rx)) ELSE sRx
  /\ sLost' = (sLost \/ Len(sRx) >= SpiRx)
  /\ spi' = [spi EXCEPT !.total_rx = @ - 1, !.can_send = @ + 1, !.if = FALSE]
  /\ UNCHANGED <<sHost, sSend, sOut, sIn, sTx, sIsr, sStale>>

\* One turn of the read loop: the flag is cleared, then the FIFO is looked at again.
SpiIsrRead ==
  /\ sIsr /\ sFifo.rx # <<>>
  /\ sFifo' = [sFifo EXCEPT !.rx = Tail(@)]
  /\ LET keep == spi.trim_rx = 0 IN
     /\ sRx' = IF keep /\ Len(sRx) < SpiRx THEN Append(sRx, Head(sFifo.rx)) ELSE sRx
     /\ sLost' = (sLost \/ (keep /\ Len(sRx) >= SpiRx))
     /\ spi' = [spi EXCEPT !.trim_rx = IF keep THEN @ ELSE @ - 1, !.total_rx = @ - 1, !.can_send = @ + 1, !.if = FALSE]
  /\ UNCHANGED <<sHost, sSend, sOut, sIn, sTx, sIsr, sStale>>

\* Mutant: the flag is not raised for the next packet.
SpiIsrLeaveNoFlag ==
  /\ sIsr /\ sFifo.rx = <<>>
  /\ sIsr' = FALSE
  /\ IF spi.total_rx > 0 THEN SendBytes(spi, sTx)
     ELSE /\ spi' = [spi EXCEPT !.state = "IDLE", !.messages = @ + (IF spi.rx_size > 0 THEN 1 ELSE 0), !.ie = sTx # <<>>]
          /\ UNCHANGED <<sTx, sFifo>>
  /\ UNCHANGED <<sHost, sSend, sOut, sIn, sRx, sLost, sStale>>

\* The loop has found the FIFO empty: send more, or finalize the packet.
SpiIsrLeave ==
  /\ sIsr /\ sFifo.rx = <<>>
  /\ sIsr' = FALSE
  /\ IF spi.total_rx > 0 THEN SendBytes(spi, sTx)
     ELSE /\ spi' = [spi EXCEPT !.state = "IDLE", !.messages = @ + (IF spi.rx_size > 0 THEN 1 ELSE 0),
                                !.ie = sTx # <<>>, !.if = TRUE]
          /\ UNCHANGED <<sTx, sFifo>>
  /\ UNCHANGED <<sHost, sSend, sOut, sIn, sRx, sLost, sStale>>

\* Hardware: a byte goes out of a module that is enabled, the slave's comes in, and the flag is raised.
SpiShift ==
  /\ spi.on /\ sFifo.tx # <<>>
  /\ sFifo' = [tx |-> Tail(sFifo.tx), rx |-> Append(sFifo.rx, Reply(spi.dest, Head(sFifo.tx)))]
  /\ spi' = [spi EXCEPT !.if = TRUE]
  /\ UNCHANGED <<sHost, sSend, sOut, sIn, sTx, sRx, sIsr, sLost, sStale>>

\* What happens once a request has entered another session is not followed.
SpiHost == ~sStale /\ (openSpiMaster \/ SpiHostCloses \/ SpiHostWrites)
SpiFlush == ~sStale /\ \E k \in DOMAIN sSend : SpiFlushTake(k) \/ SpiFlushSend(k)
SpiHears == ~sStale /\ SpiHostReceives
SpiBoard == ~sStale /\ (SPIConfigMaster \/ SPITransmit \/ SPITasksData \/ SPIReportTxStatus)
SpiIsr == ~sStale /\ (SpiIsrBegin \/ SpiIsrEnter \/ SpiIsrRead \/ SpiIsrLeave)
SpiWire == ~sStale /\ SpiShift

SpiNext == SpiHost \/ SpiFlush \/ SpiHears \/ SpiBoard \/ SpiIsr \/ SpiWire

\* The hardware shifts, interrupts are taken, the main loop turns and the library's threads
\* run; its client need not do anything.
SpiFairness ==
  /\ WF_sVars(SpiWire) /\ WF_sVars(SpiIsr) /\ WF_sVars(SpiBoard)
  /\ WF_sVars(SpiFlush) /\ WF_sVars(SpiHears)

SpiSpec == SpiInit /\ [][SpiNext]_sVars /\ SpiFairness

-----------------------------------------------------------------------------

\* Unless rx_queue overflows, which nothing prevents, or a packet taken in a session is sent into
\* a later one, every request that reads gets its own answer: in order, from its slave, without
\* the bytes trimmed, however the shifting interleaves with the interrupt handler and whenever
\* the module is closed and reopened, with packets of FlushThread and reports still on their way.
SpiResultsMatch == ~sLost /\ ~sStale => ~sHost.wrong

\* The credit of FlowControlledPacketSender keeps tx_queue from overflowing, also while reports
\* are on their way and while the thread of a closed session still sends.
SpiTxFits == spi.on /\ ~sStale => Len(sTx) <= SpiTx

\* An open module finishes what it was asked: no interrupt is lost between clearing the flag
\* and looking at the FIFO again, and the next packet starts.  The library gets the result of a
\* request it has queued: the room the board reports is always enough for the next packet.
SpiBusy == spi.on /\ (sTx # <<>> \/ spi.state = "IN_PROGRESS")
SpiAwaits == sHost.open /\ sHost.pending # <<>> /\ ~sLost
SpiWaits == ~sStale /\ (SpiBusy \/ SpiAwaits)
SpiFinishes == SpiWaits ~> ~SpiWaits

\* Not so: a request of a closed session is dropped (README, section 6).
SpiNoStaleRequest == ~sStale
=============================================================================
