----------------------------- MODULE IcspMaster -----------------------------
(***************************************************************************)
(* The ICSP programmer: clients of IcspMasterImpl read words of the target *)
(* (readVisi, waitVisiResult), the board clocks them in and queues them,   *)
(* and the main loop sends them with credit for the queue.  The target's   *)
(* k-th word is k.                                                         *)
(***************************************************************************)
EXTENDS Integers, Sequences

CONSTANTS IcspRx,        \* RX_BUF_SIZE
          IcspMaxReads,  \* bound: words read in a session
          IcspMaxOpens   \* bound: sessions

ASSUME IcspAssumption == {IcspRx, IcspMaxReads, IcspMaxOpens} \subseteq Nat \ {0}

VARIABLES cHost,   \* IcspMasterImpl: session, open, rxRemaining_, readVisi calls, results; and IncomingState's listeners
          cIn,     \* messages to the board
          cOut,    \* messages to the host
          cRx,     \* rx_queue, in bytes
          cBoard   \* enabled, num_rx_since_last_report, words of the target so far

cVars == <<cHost, cIn, cOut, cRx, cBoard>>

\* The bytes of a word, least significant first.
LowByte == 0
HighByte == 1
Word(k) == <<<<k, LowByte>>, <<k, HighByte>>>>

IcspInit ==
  /\ cHost = [opens |-> 0, on |-> FALSE, remaining |-> 0, reads |-> 0, results |-> <<>>, listeners |-> 0, open |-> FALSE]
  /\ cIn = <<>> /\ cOut = <<>> /\ cRx = <<>>
  /\ cBoard = [on |-> FALSE, since_report |-> 0, words |-> 0]

\* openIcspMaster and close.
IcspHostOpens ==
  /\ ~cHost.on /\ cHost.opens < IcspMaxOpens
  /\ cHost' = [cHost EXCEPT !.opens = @ + 1, !.on = TRUE, !.remaining = 0, !.reads = 0, !.results = <<>>, !.listeners = @ + 1]
  /\ cIn' = Append(cIn, "open")
  /\ UNCHANGED <<cOut, cRx, cBoard>>

IcspHostCloses ==
  /\ cHost.on
  /\ cHost' = [cHost EXCEPT !.on = FALSE]
  /\ cIn' = Append(cIn, "close")
  /\ UNCHANGED <<cOut, cRx, cBoard>>

\* readVisi, once there is room for its answer.
readVisi ==
  /\ cHost.on /\ cHost.remaining >= 2 /\ cHost.reads < IcspMaxReads
  /\ cHost' = [cHost EXCEPT !.remaining = @ - 2, !.reads = @ + 1]
  /\ cIn' = Append(cIn, "ICSP_REGOUT")
  /\ UNCHANGED <<cOut, cRx, cBoard>>

\* IncomingState: the echoes open and close listeners; all else is for the current one.
IcspHostReceives ==
  /\ cOut # <<>>
  /\ cOut' = Tail(cOut)
  /\ LET m == Head(cOut)
         mine == cHost.open /\ cHost.listeners = 1 /\ cHost.on
     IN cHost' = CASE m.type = "open" -> [cHost EXCEPT !.open = @ \/ cHost.listeners > 0]
                   [] m.type = "close" -> [cHost EXCEPT !.open = FALSE, !.listeners = IF cHost.open THEN @ - 1 ELSE @]
                   [] m.type = "result" /\ mine -> [cHost EXCEPT !.results = Append(@, m.data)]
                   [] m.type = "report" /\ mine -> [cHost EXCEPT !.remaining = @ + m.add]
                   [] OTHER -> cHost
  /\ UNCHANGED <<cIn, cRx, cBoard>>

\* ICSPConfigure, with the echo before an opening and after a close.  A close leaves the queue as it is.
ICSPConfigure ==
  /\ cIn # <<>> /\ Head(cIn) \in {"open", "close"}
  /\ cOut' = Append(cOut, [type |-> Head(cIn)])
  /\ IF Head(cIn) = "open"
     THEN cRx' = <<>> /\ cBoard' = [on |-> TRUE, since_report |-> IcspRx, words |-> 0]
     ELSE cRx' = cRx /\ cBoard' = [cBoard EXCEPT !.on = FALSE]
  /\ cIn' = Tail(cIn)
  /\ UNCHANGED cHost

\* ICSPRegout: the target's next word, byte by byte; ByteQueuePushByte drops what does not fit.
ICSPRegout ==
  /\ cIn # <<>> /\ Head(cIn) = "ICSP_REGOUT"
  /\ LET all == cRx \o Word(cBoard.words + 1) IN
     cRx' = SubSeq(all, 1, IF Len(all) <= IcspRx THEN Len(all) ELSE IcspRx)
  /\ cBoard' = [cBoard EXCEPT !.words = @ + 1]
  /\ cIn' = Tail(cIn)
  /\ UNCHANGED <<cHost, cOut>>

\* ICSPTasks: all words of the queue, then a report once more than half of it has been freed.
ICSPTasks ==
  /\ cRx # <<>> \/ cBoard.since_report > IcspRx \div 2
  /\ LET since == cBoard.since_report + Len(cRx)
         results == [i \in 1..(Len(cRx) \div 2) |-> [type |-> "result", data |-> <<cRx[2 * i - 1], cRx[2 * i]>>]]
         reports == IF since > IcspRx \div 2 THEN <<[type |-> "report", add |-> since]>> ELSE <<>>
     IN  /\ cOut' = cOut \o results \o reports
         /\ cBoard' = [cBoard EXCEPT !.since_report = IF reports # <<>> THEN 0 ELSE since]
  /\ cRx' = <<>>
  /\ UNCHANGED <<cHost, cIn>>

IcspNext ==
  \/ IcspHostOpens \/ IcspHostCloses \/ readVisi \/ IcspHostReceives
  \/ ICSPConfigure \/ ICSPRegout \/ ICSPTasks

IcspBoard == ICSPConfigure \/ ICSPRegout \/ ICSPTasks
IcspFairness == WF_cVars(IcspBoard) /\ WF_cVars(IcspHostReceives)
IcspSpec == IcspInit /\ [][IcspNext]_cVars /\ IcspFairness

-----------------------------------------------------------------------------
\* waitVisiResult returns the words of the target in the order of the reads, none lost to a full queue and
\* none of an earlier session, although a close does not empty the board's queue.
VisiResultsInOrder == \A i \in DOMAIN cHost.results : cHost.results[i] = Word(i)

\* A client that keeps the module open is never left waiting: each read gets its word.
VisiWaits == cHost.on /\ cHost.reads > Len(cHost.results)
VisiIsAnswered == VisiWaits ~> ~VisiWaits
=============================================================================
