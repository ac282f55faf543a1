----------------------------- MODULE I2cMaster -----------------------------
(***************************************************************************)
(* One I2C module: requests of the host library with credit for tx_queue   *)
(* (PacketSender), the interrupt handler as a state machine driven by a    *)
(* bus whose slave may refuse any byte, and I2CTasks of the main loop.     *)
(* The queues hold the bytes i2c.c puts there.  A message on the wire      *)
(* carries the session it is of, which the code's do not.                  *)
(***************************************************************************)
EXTENDS Integers, Sequences, FiniteSets, PacketSender

CONSTANTS I2cTx, I2cRx,   \* TX_BUF_SIZE, RX_BUF_SIZE
          I2cWord,        \* values of bytes_remaining, a 16 bit int
          I2cPlans        \* bounds: [opens, requests, kinds], how often the module is opened, how many
                          \* requests are made, and which: [ten, write, read], ten a ten bit address

ASSUME I2cAssumption ==
  /\ {I2cTx, I2cRx, I2cWord} \subseteq Nat \ {0} /\ \A p \in I2cPlans : {p.opens, p.requests} \subseteq Nat
  /\ \A p \in I2cPlans : \A r \in p.kinds : r.write \in Nat /\ r.read \in Nat /\ 4 + r.write <= I2cTx \div 2 /\ r.write < I2cWord /\ r.read < I2cWord

VARIABLES iHost,     \* the library: plan, open, sessions, requests made, results awaited, a result was wrong
          iSend,     \* its packet sender of each session
          iIn, iOut, \* messages on their way to the board and to the host
          iTx, iRx,  \* tx_queue, rx_queue
          i2c,       \* the rest of I2C_STATE, IE, IF, enabled
          iBus,      \* the bus: busy with an operation, ACKSTAT
          iFailed,   \* of each message finished, whether the slave refused a byte of it
          iLost,     \* rx_queue or tx_queue has overflowed
          iStale     \* a request of an earlier session has entered tx_queue of a later one

iHostVars == <<iHost, iSend>>
iWire == <<iIn, iOut>>
iBoard == <<iTx, iRx, i2c, iBus, iFailed, iLost, iStale>>
iVars == <<iHostVars, iWire, iBoard>>

FAILED == 255
ReadByte(k) == 100 + k              \* the k-th byte a slave sends, from the last to the first
Answer(r) == [k \in 1..r.read |-> ReadByte(r.read + 1 - k)]

I2cOff == [on |-> FALSE, ie |-> FALSE, if |-> FALSE, state |-> "START", ten |-> FALSE, write |-> 0, read |-> 0,
           remaining |-> 0, report |-> 0, messages |-> 0]
Quiet == [busy |-> FALSE, nack |-> FALSE]

I2cInit ==
  /\ \E p \in I2cPlans :
       /\ iSend = [k \in 1..p.opens |-> DeadSender]
       /\ iHost = [plan |-> p, open |-> FALSE, opens |-> 0, made |-> 0, pending |-> <<>>, wrong |-> FALSE]
  /\ iIn = <<>> /\ iOut = <<>> /\ iTx = <<>> /\ iRx = <<>>
  /\ i2c = I2cOff /\ iBus = Quiet /\ iFailed = <<>> /\ iLost = FALSE /\ iStale = FALSE

-----------------------------------------------------------------------------
(* The host library.                                                       *)

\* openTwiMaster: a new object with its own sender, and I2C_CONFIGURE_MASTER behind what was sent before.
openTwiMaster ==
  /\ ~iHost.open /\ iHost.opens < iHost.plan.opens
  /\ iHost' = [iHost EXCEPT !.open = TRUE, !.opens = @ + 1, !.pending = <<>>]
  /\ iSend' = [iSend EXCEPT ![iHost.opens + 1] = NewSender]
  /\ iIn' = Append(iIn, [config |-> TRUE])
  /\ UNCHANGED <<iOut, iBoard>>

\* TwiMasterImpl.close: a request its thread has taken may still be sent behind the message.
I2cHostCloses ==
  /\ iHost.open /\ iHost' = [iHost EXCEPT !.open = FALSE]
  /\ iSend' = [iSend EXCEPT ![iHost.opens] = CloseSender(@)]
  /\ iIn' = Append(iIn, [config |-> FALSE])
  /\ UNCHANGED <<iOut, iBoard>>

\* writeReadAsync
I2cHostWrites ==
  /\ iHost.open /\ iHost.made < iHost.plan.requests
  /\ \E r \in iHost.plan.kinds :
       /\ iHost' = [iHost EXCEPT !.made = @ + 1, !.pending = Append(@, r)]
       /\ iSend' = [iSend EXCEPT ![iHost.opens] = Write(@, [size |-> 4 + r.write, r |-> r])]
  /\ UNCHANGED <<iWire, iBoard>>

\* FlushThread of session k takes a packet under the lock, and sends it without.
I2cFlushTake(k) ==
  /\ CanTake(iSend[k]) /\ iSend' = [iSend EXCEPT ![k] = Take(@)]
  /\ UNCHANGED <<iHost, iWire, iBoard>>

I2cFlushSend(k) ==
  /\ iSend[k].taken # <<>> /\ iSend' = [iSend EXCEPT ![k] = Sent(@)]
  /\ iIn' = Append(iIn, [request |-> iSend[k].taken[1].r, session |-> k])
  /\ UNCHANGED <<iHost, iOut, iBoard>>

\* TwiMasterImpl.dataReceived, FlowControlledPacketSender.readyToSend, of the session the message
\* is for.  A request must fail if the slave refused a byte the handler looks at, and have all its
\* bytes otherwise.
I2cHostReceives ==
  /\ iOut # <<>> /\ iOut' = Tail(iOut)
  /\ LET m == Head(iOut) IN
     /\ iSend' = IF "add" \in DOMAIN m THEN [iSend EXCEPT ![m.session] = ReadyToSend(@, m.add)] ELSE iSend
     /\ iHost' = IF "add" \in DOMAIN m \/ ~iHost.open \/ m.session # iHost.opens THEN iHost
                 ELSE IF iHost.pending = <<>> THEN [iHost EXCEPT !.wrong = TRUE]
                 ELSE [iHost EXCEPT !.pending = Tail(@),
                         !.wrong = @ \/ (m.size = FAILED) # m.refused
                                     \/ (m.size # FAILED /\ m.data # Answer(Head(iHost.pending)))]
  /\ UNCHANGED <<iIn, iBoard>>

-----------------------------------------------------------------------------
(* The main loop of the board.                                             *)

\* The session the board is in: the configurations it has not seen are in iIn.
I2cSession == iHost.opens - Cardinality({i \in DOMAIN iIn : "config" \in DOMAIN iIn[i] /\ iIn[i].config})

\* I2CConfigMasterInternal: stop, clear, and open with all of tx_queue to report.
I2CConfigMaster ==
  /\ iIn # <<>> /\ "config" \in DOMAIN Head(iIn) /\ iIn' = Tail(iIn)
  /\ i2c' = IF Head(iIn).config THEN [I2cOff EXCEPT !.on = TRUE, !.report = I2cTx, !.if = TRUE] ELSE I2cOff
  /\ iTx' = <<>> /\ iRx' = <<>> /\ iBus' = Quiet /\ iFailed' = <<>>
  /\ UNCHANGED <<iHostVars, iOut, iLost, iStale>>

\* I2CWriteRead, with the interrupt masked, whether or not the module is open.
I2CWriteRead ==
  /\ iIn # <<>> /\ "request" \in DOMAIN Head(iIn) /\ iIn' = Tail(iIn)
  /\ LET r == Head(iIn).request IN
     iTx' = iTx \o <<IF r.ten THEN 1 ELSE 0, 0, r.write, r.read>> \o [k \in 1..r.write |-> k]
  /\ iLost' = (iLost \/ (i2c.on /\ Len(iTx') > I2cTx))
  /\ iStale' = (iStale \/ (i2c.on /\ Head(iIn).session # I2cSession))
  /\ i2c' = [i2c EXCEPT !.ie = TRUE]
  /\ UNCHANGED <<iHostVars, iOut, iRx, iBus, iFailed>>

\* I2CTasks: the result of one message.  The count goes down before the data is pulled.
I2CTasksResult ==
  /\ i2c.messages > 0
  /\ LET size == IF iRx[1] = FAILED THEN 0 ELSE iRx[1] IN
     /\ iOut' = Append(iOut, [session |-> I2cSession, size |-> iRx[1], data |-> SubSeq(iRx, 2, 1 + size), refused |-> Head(iFailed)])
     /\ iRx' = SubSeq(iRx, 2 + size, Len(iRx))
  /\ i2c' = [i2c EXCEPT !.messages = @ - 1] /\ iFailed' = Tail(iFailed)
  /\ UNCHANGED <<iHostVars, iIn, iTx, iBus, iLost, iStale>>

I2CReportTxStatus ==
  /\ i2c.report > I2cTx \div 2
  /\ iOut' = Append(iOut, [session |-> I2cSession, add |-> i2c.report])
  /\ i2c' = [i2c EXCEPT !.report = 0]
  /\ UNCHANGED <<iHostVars, iIn, iTx, iRx, iBus, iFailed, iLost, iStale>>

-----------------------------------------------------------------------------
(* MI2CInterrupt, one disjunct for each MESSAGE_STATE.                     *)
Interrupt(state) == i2c.ie /\ i2c.if /\ i2c.state = state

\* Start an operation of the bus and go to another state.
Operate(s, next) == i2c' = [s EXCEPT !.state = next, !.if = FALSE] /\ iBus' = [iBus EXCEPT !.busy = TRUE] /\ UNCHANGED iFailed
PushRx(b) == IF Len(iRx) < I2cRx THEN iRx' = Append(iRx, b) /\ UNCHANGED iLost ELSE iLost' = TRUE /\ UNCHANGED iRx

\* "done": the stop bit, and another message if there is one; fail is what the slave did.
Done(s, q, fail) ==
  /\ i2c' = [s EXCEPT !.messages = @ + 1, !.state = "START", !.ie = q # <<>>, !.if = FALSE]
  /\ iBus' = [busy |-> TRUE, nack |-> FALSE] /\ iFailed' = Append(iFailed, fail)

\* "error": the rest of the message leaves tx_queue.
Fail ==
  LET q == SubSeq(iTx, i2c.remaining + 1, Len(iTx)) IN
  /\ iTx' = q /\ PushRx(FAILED)
  /\ Done([i2c EXCEPT !.report = @ + i2c.remaining], q, TRUE)

I2cStart ==
  /\ Interrupt("START")
  /\ iTx' = SubSeq(iTx, 5, Len(iTx))
  /\ Operate([i2c EXCEPT !.ten = iTx[1] = 1, !.write = iTx[3], !.read = iTx[4], !.remaining = iTx[3], !.report = @ + 4],
             IF iTx[3] > 0 THEN "ADDR1_WRITE" ELSE "ADDR_READ")
  /\ UNCHANGED <<iRx, iLost>>

I2cAddr1Write ==
  /\ Interrupt("ADDR1_WRITE")
  /\ Operate(i2c, IF i2c.ten THEN "ADDR2_WRITE" ELSE "WRITE_DATA")
  /\ UNCHANGED <<iTx, iRx, iLost>>

I2cAddr2Write ==
  /\ Interrupt("ADDR2_WRITE")
  /\ IF iBus.nack THEN Fail ELSE Operate(i2c, "WRITE_DATA") /\ UNCHANGED <<iTx, iRx, iLost>>

I2cWriteData ==
  /\ Interrupt("WRITE_DATA")
  /\ IF iBus.nack THEN Fail
     ELSE /\ iTx' = Tail(iTx)
          /\ Operate([i2c EXCEPT !.remaining = @ - 1, !.report = @ + 1],
                     IF i2c.remaining > 1 THEN "WRITE_DATA" ELSE IF i2c.read > 0 THEN "RESTART" ELSE "STOP_WRITE_ONLY")
          /\ UNCHANGED <<iRx, iLost>>

I2cStopWriteOnly ==
  /\ Interrupt("STOP_WRITE_ONLY")
  /\ IF iBus.nack THEN Fail ELSE PushRx(0) /\ Done(i2c, iTx, FALSE) /\ UNCHANGED iTx

\* Whether the last byte written was accepted is not looked at when a read follows.
I2cRestart ==
  /\ Interrupt("RESTART")
  /\ Operate(i2c, "ADDR_READ")
  /\ UNCHANGED <<iTx, iRx, iLost>>

I2cAddrRead ==
  /\ Interrupt("ADDR_READ")
  /\ Operate(i2c, "ACK_ADDR_READ")
  /\ UNCHANGED <<iTx, iRx, iLost>>

I2cAckAddrRead ==
  /\ Interrupt("ACK_ADDR_READ")
  /\ IF iBus.nack THEN Fail
     ELSE PushRx(i2c.read) /\ Operate([i2c EXCEPT !.remaining = i2c.read], "READ_DATA") /\ UNCHANGED iTx

I2cReadData ==
  /\ Interrupt("READ_DATA")
  /\ PushRx(ReadByte(i2c.remaining)) /\ Operate(i2c, "ACK_READ_DATA") /\ UNCHANGED iTx

\* A read of no bytes starts with bytes_remaining 0 and counts down from the largest value.
I2cAckReadData ==
  /\ Interrupt("ACK_READ_DATA")
  /\ LET s == [i2c EXCEPT !.remaining = (@ - 1) % I2cWord] IN
     IF s.remaining = 0 THEN Done(s, iTx, FALSE) ELSE Operate(s, "READ_DATA")
  /\ UNCHANGED <<iTx, iRx, iLost>>

I2cIsr == I2cStart \/ I2cAddr1Write \/ I2cAddr2Write \/ I2cWriteData \/ I2cStopWriteOnly \/ I2cRestart
          \/ I2cAddrRead \/ I2cAckAddrRead \/ I2cReadData \/ I2cAckReadData

\* The bus has finished an operation; after a byte went out, ACKSTAT is the slave's.
I2cBusDone ==
  /\ iBus.busy
  /\ i2c' = [i2c EXCEPT !.if = TRUE]
  /\ \E nack \in IF i2c.state \in {"ADDR2_WRITE", "WRITE_DATA", "STOP_WRITE_ONLY", "RESTART", "ACK_ADDR_READ"} THEN BOOLEAN ELSE {FALSE} :
       iBus' = [iBus EXCEPT !.busy = FALSE, !.nack = nack]
  /\ UNCHANGED <<iHostVars, iWire, iTx, iRx, iFailed, iLost, iStale>>

\* What happens once a request has entered another session, or a queue has overflowed, is not followed.
Followed == ~iStale /\ ~iLost
I2cClient == Followed /\ (openTwiMaster \/ I2cHostCloses \/ I2cHostWrites)
I2cFlush == Followed /\ \E k \in DOMAIN iSend : I2cFlushTake(k) \/ I2cFlushSend(k)
I2cHears == Followed /\ I2cHostReceives
I2cMain == Followed /\ (I2CConfigMaster \/ I2CWriteRead \/ I2CTasksResult \/ I2CReportTxStatus)
I2cInterrupts == Followed /\ I2cIsr /\ UNCHANGED <<iHostVars, iWire, iStale>>
I2cWires == Followed /\ I2cBusDone

I2cNext == I2cClient \/ I2cFlush \/ I2cHears \/ I2cMain \/ I2cInterrupts \/ I2cWires

\* The bus goes on, interrupts are taken, the main loop turns and the library's threads run.
I2cFairness == WF_iVars(I2cInterrupts) /\ WF_iVars(I2cWires) /\ WF_iVars(I2cMain)
               /\ WF_iVars(I2cFlush) /\ WF_iVars(I2cHears)
I2cSpec == I2cInit /\ [][I2cNext]_iVars /\ I2cFairness

-----------------------------------------------------------------------------

\* Unless rx_queue overflows or a packet taken in a session is sent into a later one, every
\* request gets one answer, in order, whichever byte the slave refuses and whenever the module is
\* closed and reopened: the rest of a failed message never becomes the header of the next.
I2cResultsMatch == ~iLost /\ ~iStale => ~iHost.wrong

\* The credit keeps tx_queue from overflowing, failed messages included, also while the thread of
\* a closed session still sends.
I2cTxFits == i2c.on /\ ~iStale => Len(iTx) <= I2cTx

\* An open module answers every request it was given, and the library gets the result of every
\* request it has queued: the room the board reports is always enough for the next packet.
I2cBusy == i2c.on /\ (iTx # <<>> \/ i2c.state # "START")
I2cAwaits == iHost.open /\ iHost.pending # <<>>
I2cWaits == ~iLost /\ ~iStale /\ (I2cBusy \/ I2cAwaits)
I2cFinishes == I2cWaits ~> ~I2cWaits

\* Not so: a request of a closed session is dropped, and the documented request that neither
\* writes nor reads is answered (README, section 6).
I2cNoStaleRequest == ~iStale
I2cEmptyRequestIsAnswered == iLost /\ ~iStale => i2c.write + i2c.read > 0
=============================================================================
