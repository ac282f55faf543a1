--------------------------- MODULE UartStream_proofs ----------------------------
(***************************************************************************)
(* The credit protocol of the UART, proved for every buffer size, packet   *)
(* size and number of sessions.                                            *)
(***************************************************************************)
EXTENDS UartStream, TLAPS

USE SizeAssumption

(***************************************************************************)
(* What the proofs need of the numbering of epochs; sessions and epochs    *)
(* stay opaque otherwise.                                                  *)
(***************************************************************************)
LEMMA EpochFacts ==
    /\ 0 \in Epochs
    /\ \A e \in Epochs : e \in Nat
    /\ \A s \in Sessions : OpenEpoch(s) \in Epochs /\ OpenEpoch(s) + 1 \in Epochs
    /\ \A s \in Sessions : OpenEpoch(s) > 0
    /\ \A s, t \in Sessions : OpenEpoch(s) = OpenEpoch(t) => s = t
    /\ \A s, t \in Sessions : OpenEpoch(s) # OpenEpoch(t) + 1
    /\ \A h \in Epochs, d \in Nat : d <= h => d \in Epochs
  BY DEF Sessions, Epochs, OpenEpoch

(***************************************************************************)
(* Before anything is opened there is no credit anywhere.                  *)
(***************************************************************************)
LEMMA InitIInv == Init => IInv
  BY EpochFacts DEF Init, IInv, TypeOK, EpochOrder, NoEarlyCredit, StaleIsTainted, CreditBound,
     CreditConservation, OverflowOnlyIfTainted

(***************************************************************************)
(* Steps that only touch the application's side of the stream.             *)
(***************************************************************************)
LEMMA LocalStep == ASSUME IInv, NEW s \in Sessions,
                          write(s) \/ FlushExit(s) \/ closeStream(s)
                   PROVE  IInv'
  <1> USE DEF write, FlushExit, closeStream, wireVars, boardVars, IInv
  <1>1. TypeOK'
    <2>1. CASE write(s)
      BY <2>1 DEF TypeOK
    <2>2. CASE FlushExit(s)
      BY <2>2 DEF TypeOK
    <2>3. CASE closeStream(s)
      BY <2>3 DEF TypeOK
    <2>4. QED
      BY <2>1, <2>2, <2>3
  <1>2. EpochOrder' /\ NoEarlyCredit' /\ StaleIsTainted' /\ OverflowOnlyIfTainted'
    BY DEF EpochOrder, NoEarlyCredit, StaleIsTainted, OverflowOnlyIfTainted
  <1>3. CreditBound' /\ CreditConservation'
    BY DEF CreditBound, CreditConservation, Outstanding
  <1>4. QED
    BY <1>1, <1>2, <1>3

(***************************************************************************)
(* Opening and closing only move the host to its next epoch.  A session    *)
(* that has just been opened here is not open at the board yet.            *)
(***************************************************************************)
LEMMA EpochStep == ASSUME IInv, NEW s \in Sessions, openUart(s) \/ uartClose(s)
                   PROVE  IInv'
  <1> USE DEF IInv
  <1>1. /\ hostEpoch' = hostEpoch + 1 /\ hostEpoch' \in Epochs
        /\ UNCHANGED <<readyToSend_, queue_, packet_, closed_, seenEpoch, data, stale,
                       tainted, reports, devEpoch, tx_queue, tx_stale,
                       num_tx_since_last_report, overflowed>>
    BY EpochFacts DEF openUart, uartClose, hostVars, wireVars, boardVars, TypeOK
  <1>2. TypeOK'
    <2>1. running' \subseteq Sessions
      BY DEF openUart, uartClose, hostVars, TypeOK
    <2>2. QED
      BY <1>1, <2>1 DEF TypeOK
  <1>3. EpochOrder' /\ NoEarlyCredit' /\ StaleIsTainted' /\ OverflowOnlyIfTainted'
    BY <1>1, EpochFacts
    DEF EpochOrder, NoEarlyCredit, StaleIsTainted, OverflowOnlyIfTainted, TypeOK
  <1>4. CreditBound'
    BY <1>1 DEF CreditBound, Outstanding
  <1>5. CreditConservation'
    BY <1>1, EpochFacts DEF CreditConservation, EpochOrder, TypeOK
  <1>6. QED
    BY <1>2, <1>3, <1>4, <1>5

(***************************************************************************)
(* The FlushThread turns credit into a packet of the same size.            *)
(***************************************************************************)
LEMMA FlushTakeStep == ASSUME IInv, NEW s \in Sessions, FlushTake(s)
                       PROVE  IInv'
  <1> DEFINE toSend == Least(MaxPacket, Least(readyToSend_[s], queue_[s]))
  <1> USE DEF IInv
  <1>1. /\ toSend \in 1..MaxPacket /\ toSend <= readyToSend_[s] /\ toSend <= queue_[s]
        /\ packet_[s] = 0 /\ readyToSend_[s] # 0
    BY DEF FlushTake, TypeOK, Least
  <1>2. /\ packet_' = [packet_ EXCEPT ![s] = toSend]
        /\ readyToSend_' = [readyToSend_ EXCEPT ![s] = @ - toSend]
        /\ queue_' = [queue_ EXCEPT ![s] = @ - toSend]
        /\ UNCHANGED <<closed_, running, hostEpoch, seenEpoch, data, stale,
                       tainted, reports, devEpoch, tx_queue, tx_stale,
                       num_tx_since_last_report, overflowed>>
    BY DEF FlushTake, wireVars, boardVars
  <1> HIDE DEF toSend
  <1>3. TypeOK'
    BY <1>1, <1>2 DEF TypeOK
  <1>4. EpochOrder' /\ StaleIsTainted' /\ OverflowOnlyIfTainted'
    BY <1>2 DEF EpochOrder, StaleIsTainted, OverflowOnlyIfTainted
  <1>5. NoEarlyCredit'
    BY <1>1, <1>2 DEF NoEarlyCredit, TypeOK
  <1>6. ASSUME NEW t \in Sessions
        PROVE  Outstanding(t)' = Outstanding(t)
    <2>1. readyToSend_'[t] + packet_'[t] = readyToSend_[t] + packet_[t]
      BY <1>1, <1>2 DEF TypeOK
    <2>2. QED
      BY <1>2, <2>1 DEF Outstanding
  <1>7. CreditBound' /\ CreditConservation'
    BY <1>2, <1>6 DEF CreditBound, CreditConservation
  <1>8. QED
    BY <1>3, <1>4, <1>5, <1>7

(***************************************************************************)
(* Sending moves the packet to the wire: as the session's own bytes while  *)
(* its epoch lasts, as stale bytes afterwards.                             *)
(***************************************************************************)
LEMMA FlushSendStep == ASSUME IInv, NEW s \in Sessions, FlushSend(s)
                       PROVE  IInv'
  <1> USE DEF IInv
  <1>1. /\ packet_[s] \in 1..MaxPacket
        /\ packet_' = [packet_ EXCEPT ![s] = 0]
        /\ UNCHANGED <<readyToSend_, queue_, closed_, running, hostEpoch, seenEpoch,
                       reports, devEpoch, tx_queue, tx_stale,
                       num_tx_since_last_report, overflowed>>
    BY DEF FlushSend, boardVars, TypeOK
  <1>2. OpenEpoch(s) <= devEpoch
    BY <1>1, EpochFacts DEF NoEarlyCredit, TypeOK
  <1>3. CASE hostEpoch = OpenEpoch(s)
    <2>1. /\ data' = [data EXCEPT ![s] = @ + packet_[s]]
          /\ UNCHANGED <<stale, tainted>>
      BY <1>3 DEF FlushSend
    <2>2. TypeOK'
      BY <1>1, <2>1 DEF TypeOK
    <2>3. EpochOrder' /\ StaleIsTainted' /\ OverflowOnlyIfTainted' /\ NoEarlyCredit'
      BY <1>1, <1>2, <2>1
      DEF EpochOrder, StaleIsTainted, OverflowOnlyIfTainted, NoEarlyCredit, TypeOK
    <2>4. ASSUME NEW t \in Sessions
          PROVE  Outstanding(t)' = Outstanding(t)
      <3>1. packet_'[t] + data'[t] = packet_[t] + data[t]
        BY <1>1, <2>1 DEF TypeOK
      <3>2. QED
        BY <1>1, <2>1, <3>1 DEF Outstanding, TypeOK
    <2>5. CreditBound' /\ CreditConservation'
      BY <1>1, <2>1, <2>4 DEF CreditBound, CreditConservation
    <2>6. QED
      BY <2>2, <2>3, <2>5
  <1>4. CASE hostEpoch # OpenEpoch(s)
    <2>1. /\ stale' = [stale EXCEPT ![hostEpoch] = @ + packet_[s]]
          /\ tainted' = tainted \union {hostEpoch}
          /\ UNCHANGED data
      BY <1>4 DEF FlushSend
    <2>2. TypeOK'
      BY <1>1, <2>1 DEF TypeOK
    <2>3. EpochOrder' /\ OverflowOnlyIfTainted' /\ NoEarlyCredit'
      BY <1>1, <1>2, <2>1 DEF EpochOrder, OverflowOnlyIfTainted, NoEarlyCredit, TypeOK
    <2>4. StaleIsTainted'
      BY <1>1, <2>1, EpochFacts DEF StaleIsTainted, TypeOK
    <2>5. ASSUME NEW t \in Sessions
          PROVE  /\ Outstanding(t)' \in Nat /\ Outstanding(t) \in Nat
                 /\ Outstanding(t)' <= Outstanding(t)
                 /\ t # s => Outstanding(t)' = Outstanding(t)
      <3>1. OpenEpoch(t) \in Epochs
        BY EpochFacts
      <3>2. packet_'[t] \in Nat /\ packet_'[t] <= packet_[t] /\ (t # s => packet_'[t] = packet_[t])
        BY <1>1 DEF TypeOK
      <3>3. QED
        BY <1>1, <2>1, <3>1, <3>2 DEF Outstanding, TypeOK
    <2>6. CreditBound'
      BY <1>1, <2>1, <2>5 DEF CreditBound
    <2>7. CreditConservation'
      BY <1>1, <1>4, <2>1, <2>5 DEF CreditConservation
    <2>8. QED
      BY <2>2, <2>3, <2>4, <2>6, <2>7
  <1>5. QED
    BY <1>3, <1>4

(***************************************************************************)
(* Credit arrives at the session whose epoch the host is in: the one the   *)
(* board reported for.                                                     *)
(***************************************************************************)
LEMMA ReportStep == ASSUME IInv, NEW n \in 1..reports[seenEpoch],
                           handleUartReportTxStatus(n)
                    PROVE  IInv'
  <1> USE DEF IInv
  <1>1. /\ reports' = [reports EXCEPT ![seenEpoch] = @ - n]
        /\ readyToSend_' = [s \in Sessions |->
                               IF seenEpoch = OpenEpoch(s) THEN readyToSend_[s] + n
                               ELSE readyToSend_[s]]
        /\ UNCHANGED <<queue_, packet_, closed_, running, hostEpoch, seenEpoch, data,
                       stale, tainted, devEpoch, tx_queue, tx_stale,
                       num_tx_since_last_report, overflowed>>
    BY DEF handleUartReportTxStatus, boardVars
  <1>2. n \in Nat /\ n <= reports[seenEpoch] /\ seenEpoch \in Epochs
    BY DEF TypeOK
  <1>3. TypeOK'
    <2>1. readyToSend_' \in [Sessions -> Nat] /\ reports' \in [Epochs -> Nat]
      BY <1>1, <1>2 DEF TypeOK
    <2>2. QED
      BY <1>1, <2>1 DEF TypeOK
  <1>4. EpochOrder' /\ StaleIsTainted' /\ OverflowOnlyIfTainted'
    BY <1>1 DEF EpochOrder, StaleIsTainted, OverflowOnlyIfTainted
  <1>5. NoEarlyCredit'
    BY <1>1, <1>2, EpochFacts DEF NoEarlyCredit, EpochOrder, TypeOK
  <1>6. ASSUME NEW t \in Sessions
        PROVE  Outstanding(t)' = Outstanding(t)
    <2>1. OpenEpoch(t) \in Epochs
      BY EpochFacts
    <2>2. readyToSend_'[t] + reports'[OpenEpoch(t)] = readyToSend_[t] + reports[OpenEpoch(t)]
      BY <1>1, <1>2, <2>1 DEF TypeOK
    <2>3. readyToSend_'[t] \in Nat /\ reports'[OpenEpoch(t)] \in Nat
      BY <1>3, <2>1 DEF TypeOK
    <2>4. QED
      BY <1>1, <2>1, <2>2, <2>3 DEF Outstanding, TypeOK
  <1>7. CreditBound' /\ CreditConservation'
    BY <1>1, <1>6 DEF CreditBound, CreditConservation
  <1>8. QED
    BY <1>3, <1>4, <1>5, <1>7

LEMMA StatusStep == ASSUME IInv, handleUartStatus
                    PROVE  IInv'
  <1> USE DEF IInv
  <1>1. /\ seenEpoch' = seenEpoch + 1 /\ seenEpoch < devEpoch
        /\ UNCHANGED <<readyToSend_, queue_, packet_, closed_, running, hostEpoch, data,
                       stale, tainted, reports, devEpoch, tx_queue, tx_stale,
                       num_tx_since_last_report, overflowed>>
    BY DEF handleUartStatus, hostVars, wireVars, boardVars
  <1>2. seenEpoch' \in Epochs /\ EpochOrder'
    BY <1>1, EpochFacts DEF EpochOrder, TypeOK
  <1>3. TypeOK'
    BY <1>1, <1>2 DEF TypeOK
  <1>4. NoEarlyCredit' /\ StaleIsTainted' /\ OverflowOnlyIfTainted'
    BY <1>1 DEF NoEarlyCredit, StaleIsTainted, OverflowOnlyIfTainted
  <1>5. CreditBound' /\ CreditConservation'
    BY <1>1 DEF CreditBound, CreditConservation, Outstanding
  <1>6. QED
    BY <1>2, <1>3, <1>4, <1>5

(***************************************************************************)
(* The board enters its next epoch with its queue empty.  If that opens a  *)
(* session, the whole buffer is on offer and nobody holds credit yet.      *)
(***************************************************************************)
LEMMA UARTConfigStep == ASSUME IInv, UARTConfig
                        PROVE  IInv'
  <1> USE DEF IInv
  <1>1. /\ devEpoch < hostEpoch /\ devEpoch' = devEpoch + 1
        /\ tx_queue' = 0 /\ tx_stale' = 0
        /\ num_tx_since_last_report' =
              IF \E s \in Sessions : devEpoch + 1 = OpenEpoch(s) THEN TxBuf ELSE 0
        /\ UNCHANGED <<readyToSend_, queue_, packet_, closed_, running, hostEpoch,
                       seenEpoch, data, stale, tainted, reports, overflowed>>
    BY DEF UARTConfig, hostVars, wireVars
  <1>2. devEpoch' \in Epochs /\ EpochOrder'
    BY <1>1, EpochFacts DEF EpochOrder, TypeOK
  <1>3. TypeOK'
    BY <1>1, <1>2 DEF TypeOK
  <1>4. NoEarlyCredit'
    BY <1>1, EpochFacts DEF NoEarlyCredit, TypeOK
  <1>5. StaleIsTainted' /\ OverflowOnlyIfTainted'
    BY <1>1 DEF StaleIsTainted, OverflowOnlyIfTainted
  <1>6. ASSUME NEW t \in Sessions, devEpoch' = OpenEpoch(t)
        PROVE  Outstanding(t)' = TxBuf
    <2>1. devEpoch < OpenEpoch(t)
      BY <1>1, <1>6, EpochFacts DEF TypeOK
    <2>2. /\ readyToSend_[t] = 0 /\ packet_[t] = 0 /\ data[t] = 0
          /\ reports[OpenEpoch(t)] = 0
      BY <2>1 DEF NoEarlyCredit
    <2>3. num_tx_since_last_report' = TxBuf
      BY <1>1, <1>6
    <2>4. QED
      BY <1>1, <2>2, <2>3 DEF Outstanding
  <1>7. CreditBound' /\ CreditConservation'
    BY <1>1, <1>6 DEF CreditBound, CreditConservation
  <1>8. QED
    BY <1>2, <1>3, <1>4, <1>5, <1>7

(***************************************************************************)
(* A packet of the open session fits, unless an older session put bytes    *)
(* into the queue: the credit it was sent on stood for free space.         *)
(***************************************************************************)
LEMMA UARTTransmitStep == ASSUME IInv, NEW s \in Sessions, NEW n \in 1..MaxPacket,
                                 UARTTransmit(s, n)
                          PROVE  IInv'
  <1> USE DEF IInv
  <1>1. /\ devEpoch = OpenEpoch(s) /\ n <= data[s] /\ n \in Nat /\ n > 0
        /\ data' = [data EXCEPT ![s] = @ - n]
        /\ UNCHANGED <<readyToSend_, queue_, packet_, closed_, running, hostEpoch,
                       seenEpoch, stale, tainted, reports, devEpoch, tx_stale,
                       num_tx_since_last_report>>
    BY DEF UARTTransmit, hostVars
  <1>2. OpenEpoch(s) \in Epochs
    BY EpochFacts
  <1>3. OpenEpoch(s) \notin tainted => Fits(n)
    BY <1>1, <1>2 DEF CreditBound, Outstanding, Fits, TypeOK
  <1>4. TypeOK'
    <2>1. tx_queue' \in 0..TxBuf /\ overflowed' \subseteq Epochs
      BY <1>1, <1>2 DEF UARTTransmit, Fits, TypeOK
    <2>2. data' \in [Sessions -> Nat]
      BY <1>1 DEF TypeOK
    <2>3. QED
      BY <1>1, <2>1, <2>2 DEF TypeOK
  <1>5. EpochOrder' /\ StaleIsTainted'
    BY <1>1 DEF EpochOrder, StaleIsTainted
  <1>6. NoEarlyCredit'
    BY <1>1, EpochFacts DEF NoEarlyCredit, TypeOK
  <1>7. OverflowOnlyIfTainted'
    BY <1>1, <1>3 DEF UARTTransmit, OverflowOnlyIfTainted
  <1>8. ASSUME NEW t \in Sessions, devEpoch = OpenEpoch(t), OpenEpoch(t) \notin tainted
        PROVE  Outstanding(t)' = Outstanding(t)
    <2>1. t = s
      BY <1>1, <1>8, EpochFacts
    <2>2. tx_queue' = tx_queue + n
      BY <1>3, <1>8, <2>1 DEF UARTTransmit
    <2>3. data'[s] = data[s] - n
      BY <1>1 DEF TypeOK
    <2>4. QED
      BY <1>1, <1>2, <2>1, <2>2, <2>3 DEF Outstanding, TypeOK
  <1>9. CreditBound' /\ CreditConservation'
    BY <1>1, <1>8 DEF CreditBound, CreditConservation
  <1>10. QED
    BY <1>4, <1>5, <1>6, <1>7, <1>9

LEMMA UARTTransmitStaleStep == ASSUME IInv, NEW n \in 1..MaxPacket, UARTTransmitStale(n)
                               PROVE  IInv'
  <1> USE DEF IInv
  <1>1. /\ n <= stale[devEpoch] /\ n \in Nat /\ n > 0 /\ devEpoch \in Epochs
        /\ stale' = [stale EXCEPT ![devEpoch] = @ - n]
        /\ UNCHANGED <<readyToSend_, queue_, packet_, closed_, running, hostEpoch,
                       seenEpoch, data, tainted, reports, devEpoch, tx_queue,
                       num_tx_since_last_report>>
    BY DEF UARTTransmitStale, hostVars, TypeOK
  <1>2. devEpoch \in tainted
    BY <1>1 DEF StaleIsTainted, TypeOK
  <1>3. TypeOK'
    <2>1. tx_stale' \in 0..TxBuf /\ overflowed' \subseteq Epochs
      BY <1>1 DEF UARTTransmitStale, Fits, TypeOK
    <2>2. stale' \in [Epochs -> Nat]
      BY <1>1 DEF TypeOK
    <2>3. QED
      BY <1>1, <2>1, <2>2 DEF TypeOK
  <1>4. EpochOrder' /\ NoEarlyCredit'
    BY <1>1 DEF EpochOrder, NoEarlyCredit
  <1>5. StaleIsTainted'
    BY <1>1, <1>2 DEF StaleIsTainted, TypeOK
  <1>6. OverflowOnlyIfTainted'
    BY <1>1, <1>2 DEF UARTTransmitStale, OverflowOnlyIfTainted
  <1>7. CreditBound' /\ CreditConservation'
    BY <1>1, <1>2 DEF CreditBound, CreditConservation
  <1>8. QED
    BY <1>3, <1>4, <1>5, <1>6, <1>7

(***************************************************************************)
(* A byte that leaves the queue, and a report, keep the account balanced.  *)
(***************************************************************************)
LEMMA TXInterruptStep == ASSUME IInv, TXInterrupt
                         PROVE  IInv'
  <1> USE DEF IInv
  <1>1. /\ num_tx_since_last_report' = num_tx_since_last_report + 1
        /\ UNCHANGED <<readyToSend_, queue_, packet_, closed_, running, hostEpoch,
                       seenEpoch, data, stale, tainted, reports, devEpoch, overflowed>>
    BY DEF TXInterrupt, hostVars, wireVars
  <1>2. \/ tx_queue # 0 /\ tx_queue' = tx_queue - 1 /\ tx_stale' = tx_stale
        \/ tx_stale # 0 /\ tx_stale' = tx_stale - 1 /\ tx_queue' = tx_queue
    BY DEF TXInterrupt
  <1>3. TypeOK'
    <2>1. tx_queue' \in 0..TxBuf /\ tx_stale' \in 0..TxBuf
      BY <1>2 DEF TypeOK
    <2>2. QED
      BY <1>1, <2>1 DEF TypeOK
  <1>4. EpochOrder' /\ NoEarlyCredit' /\ StaleIsTainted' /\ OverflowOnlyIfTainted'
    BY <1>1 DEF EpochOrder, NoEarlyCredit, StaleIsTainted, OverflowOnlyIfTainted
  <1>5. ASSUME NEW t \in Sessions, devEpoch = OpenEpoch(t), OpenEpoch(t) \notin tainted
        PROVE  tx_stale' = 0 /\ Outstanding(t)' = Outstanding(t)
    <2>1. tx_stale = 0
      BY <1>5 DEF CreditBound
    <2>2. tx_queue' = tx_queue - 1
      BY <1>2, <2>1
    <2>3. OpenEpoch(t) \in Epochs
      BY EpochFacts
    <2>4. tx_stale' = 0
      BY <1>2, <2>1
    <2>5. QED
      BY <1>1, <2>2, <2>3, <2>4 DEF Outstanding, TypeOK
  <1>6. CreditBound' /\ CreditConservation'
    BY <1>1, <1>5 DEF CreditBound, CreditConservation
  <1>7. QED
    BY <1>3, <1>4, <1>6

LEMMA UARTReportStep == ASSUME IInv, UARTReportTxStatus
                        PROVE  IInv'
  <1> USE DEF IInv
  <1>1. /\ reports' = [reports EXCEPT ![devEpoch] = @ + num_tx_since_last_report]
        /\ num_tx_since_last_report' = 0 /\ devEpoch \in Epochs
        /\ UNCHANGED <<readyToSend_, queue_, packet_, closed_, running, hostEpoch,
                       seenEpoch, data, stale, tainted, devEpoch, tx_queue, tx_stale,
                       overflowed>>
    BY DEF UARTReportTxStatus, hostVars, TypeOK
  <1>2. TypeOK'
    <2>1. reports' \in [Epochs -> Nat]
      BY <1>1 DEF TypeOK
    <2>2. QED
      BY <1>1, <2>1 DEF TypeOK
  <1>3. EpochOrder' /\ StaleIsTainted' /\ OverflowOnlyIfTainted'
    BY <1>1 DEF EpochOrder, StaleIsTainted, OverflowOnlyIfTainted
  <1>4. NoEarlyCredit'
    BY <1>1, EpochFacts DEF NoEarlyCredit, TypeOK
  <1>5. ASSUME NEW t \in Sessions, devEpoch = OpenEpoch(t)
        PROVE  Outstanding(t)' = Outstanding(t)
    <2>1. reports'[OpenEpoch(t)] = reports[OpenEpoch(t)] + num_tx_since_last_report
      BY <1>1, <1>5 DEF TypeOK
    <2>2. QED
      BY <1>1, <1>5, <2>1 DEF Outstanding, TypeOK
  <1>6. CreditBound' /\ CreditConservation'
    BY <1>1, <1>5 DEF CreditBound, CreditConservation
  <1>7. QED
    BY <1>2, <1>3, <1>4, <1>6

(***************************************************************************)
(* The invariant is inductive.                                             *)
(***************************************************************************)
LEMMA NextIInv == IInv /\ [Next]_vars => IInv'
  <1> SUFFICES ASSUME IInv, [Next]_vars PROVE IInv'
    OBVIOUS
  <1>1. CASE UNCHANGED vars
    <2>1. UNCHANGED <<readyToSend_, queue_, packet_, closed_, running, hostEpoch,
                      seenEpoch, data, stale, tainted, reports, devEpoch, tx_queue,
                      tx_stale, num_tx_since_last_report, overflowed>>
      BY <1>1 DEF vars, hostVars, wireVars, boardVars
    <2>2. TypeOK' /\ EpochOrder' /\ NoEarlyCredit' /\ StaleIsTainted'
      BY <2>1 DEF IInv, TypeOK, EpochOrder, NoEarlyCredit, StaleIsTainted
    <2>3. CreditBound' /\ CreditConservation' /\ OverflowOnlyIfTainted'
      BY <2>1 DEF IInv, CreditBound, CreditConservation, OverflowOnlyIfTainted, Outstanding
    <2>4. QED
      BY <2>2, <2>3 DEF IInv
  <1>2. CASE Next
    BY <1>2, LocalStep, EpochStep, FlushTakeStep, FlushSendStep, ReportStep, StatusStep,
       UARTConfigStep, UARTTransmitStep, UARTTransmitStaleStep, TXInterruptStep,
       UARTReportStep
    DEF Next
  <1>3. QED
    BY <1>1, <1>2

(***************************************************************************)
(* Type correctness of the UART stream.                                    *)
(***************************************************************************)
THEOREM TypeCorrect == Spec => []TypeOK
  <1>1. IInv => TypeOK
    BY DEF IInv
  <1>2. QED
    BY <1>1, InitIInv, NextIInv, PTL DEF Spec

(***************************************************************************)
(* For every TX_BUF_SIZE, packet size and number of sessions: credit is    *)
(* conserved between FlowControlledOutputStream and uart.c.                *)
(***************************************************************************)
THEOREM CreditIsConserved == Spec => []CreditConservation
  <1>1. IInv => CreditConservation
    BY DEF IInv
  <1>2. QED
    BY <1>1, InitIInv, NextIInv, PTL DEF Spec

(***************************************************************************)
(* UARTTransmit overflows tx_queue only in an epoch that a closed          *)
(* stream's FlushThread sent into.                                         *)
(***************************************************************************)
THEOREM NoOverflowUnlessTainted == Spec => []OverflowOnlyIfTainted
  <1>1. IInv => OverflowOnlyIfTainted
    BY DEF IInv
  <1>2. QED
    BY <1>1, InitIInv, NextIInv, PTL DEF Spec
================================================================================
