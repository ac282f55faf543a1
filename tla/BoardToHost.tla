---------------------------- MODULE BoardToHost ----------------------------
(***************************************************************************)
(* The stream of messages from the board to the host library: structs and  *)
(* variable arguments pushed piece by piece into tx_queue, packets of any  *)
(* size taken from it, and IncomingThread of IOIOProtocol.java reading     *)
(* byte by byte.  The host knows the length of an analog report only from  *)
(* the last REPORT_ANALOG_IN_FORMAT, and nothing marks the end of a        *)
(* message: a push that does not fit loses one piece of it.                *)
(***************************************************************************)
EXTENDS Integers, Sequences, SequencesExt, Functions, FiniteSets

CONSTANTS TxQueueSize,     \* QUEUE_SIZE: capacity of tx_queue, in bytes
          I2cReadSizes,    \* sizes of the I2C reads that succeed
          MaxPackets       \* sizes of a packet the connection takes at once

ASSUME BoardToHostAssumption ==
  TxQueueSize \in Nat /\ I2cReadSizes \subseteq 0..255 /\ MaxPackets \subseteq Nat \ {0}

VARIABLES bMeant,   \* messages sent and not yet heard by the host
          bTx,      \* tx_queue
          bCut,     \* a push found no room
          bFrame,   \* pins in the board's last analog format
          bWire,    \* bytes at the host
          hFrame,   \* analogFramePins_
          hAgrees   \* so far the host has heard what was meant

bhVars == <<bMeant, bTx, bCut, bFrame, bWire, hFrame, hAgrees>>

-----------------------------------------------------------------------------
(* The board.                                                              *)

\* A struct from its fields, each <<value, width>>, least significant bit first.
\* Fields fill 8 or 16 bits.
Pack8(fields) == FoldLeft(LAMBDA acc, f : <<acc[1] + f[1] * 2^acc[2], acc[2] + f[2]>>, <<0, 0>>, fields)[1]
Pack16(fields) == LET v == Pack8(fields) IN <<v % 256, v \div 256>>

\* Mutant: SPI_DATA is sent without the byte that names the slave.
outgoing_arg_size_spi == <<28, 0, 1, 0, 1, 0, 1, 2, 0, 0, 0, 0, 1, 1, 1, 2, 1, 1, 2, 1, 2, 2, 2, 2, 0, 0, 1, 1, 1, 0, 2, 1, 1, 0, 0, 0, 0, 0>>

\* outgoing_arg_size, by message type: the sizes of the packed structs.
outgoing_arg_size == <<28, 0, 1, 0, 1, 0, 1, 2, 0, 0, 0, 0, 1, 1, 1, 2, 1, 2, 2, 1, 2, 2, 2, 2, 0, 0, 1, 1, 1, 0, 2, 1, 1, 0, 0, 0, 0, 0>>
OutgoingMessageLength(header) == 1 + outgoing_arg_size[header[1] + 1]

\* A message: what the host should make of it, the pieces pushed, and the pins of the analog format after it, -1 if the same.
Out(event, msg, var) ==
  [event |-> event, pieces |-> <<SubSeq(msg, 1, OutgoingMessageLength(msg))>> \o var, frame |-> -1]
Pieces1(data) == IF data = <<>> THEN <<>> ELSE <<data>>
\* ByteQueuePeekMax hands out the data in two parts where the queue wraps.
Split(data, k) == IF k >= Len(data) THEN Pieces1(data) ELSE <<SubSeq(data, 1, k), SubSeq(data, k + 1, Len(data))>>
Fill(n) == [i \in 1..n |-> (91 * i) % 256]
Bool == {0, 1}

\* Messages without variable arguments: status, flow control, digital inputs, ICSP, capacitive sensing.
FixedMessages ==
  {Out(<<"establish", Fill(8), Fill(8), Fill(8)>>, <<0, 73, 79, 73, 79>> \o Fill(8) \o Fill(8) \o Fill(8), <<>>),
   [Out(<<"soft_reset">>, <<1>>, <<>>) EXCEPT !.frame = 0], Out(<<"sync">>, <<35>>, <<>>)}
  \cup {Out(<<"check_interface", s>>, <<2, Pack8(<<<<s, 1>>, <<0, 7>>>>)>>, <<>>) : s \in Bool}
  \cup {Out(<<"digital_in", p, l>>, <<4, Pack8(<<<<l, 1>>, <<0, 1>>, <<p, 6>>>>)>>, <<>>) : p \in {0, 46}, l \in Bool}
  \cup {Out(<<"change_notify", p, c>>, <<6, Pack8(<<<<c, 1>>, <<0, 1>>, <<p, 6>>>>)>>, <<>>) : p \in {0, 46}, c \in Bool}
  \cup {Out(<<"status", t, n, e>>, <<t, Pack8(<<<<n, 2>>, <<0, 5>>, <<e, 1>>>>)>>, <<>>) : t \in {13, 16, 19}, n \in {0, 2}, e \in Bool}
  \cup {Out(<<"tx_status", t, n, b>>, <<t>> \o Pack16(<<<<n, 2>>, <<b, 14>>>>), <<>>) : t \in {15, 18, 21}, n \in {0, 2}, b \in {1, 256}}
  \cup {Out(<<"icsp_rx", b>>, <<22>> \o Pack16(<<<<b, 16>>>>), <<>>) : b \in {1, 256}}
  \cup {Out(<<"icsp_result", Fill(2)>>, <<23>> \o Fill(2), <<>>)}
  \cup {Out(<<"icsp_config", e>>, <<26, Pack8(<<<<e, 1>>>>)>>, <<>>) : e \in Bool}
  \cup {Out(<<"incap_status", n, e>>, <<27, Pack8(<<<<n, 4>>, <<0, 3>>, <<e, 1>>>>)>>, <<>>) : n \in {0, 8}, e \in Bool}
  \cup {Out(<<"capsense", p, v>>, <<30>> \o Pack16(<<<<p, 6>>, <<v, 10>>>>), <<>>) : p \in {31, 46}, v \in {0, 1023}}
  \cup {Out(<<"capsense_sampling", p, e>>, <<31, Pack8(<<<<p, 6>>, <<0, 1>>, <<e, 1>>>>)>>, <<>>) : p \in {31, 46}, e \in Bool}

\* UART and SPI data, I2C results, capture reports and sequencer events.
DataMessages ==
  {Out(<<"uart", n, Fill(s)>>, <<14, Pack8(<<<<s - 1, 6>>, <<n, 2>>>>)>>, Split(Fill(s), k)) : n \in {0, 3}, s \in {1, 2}, k \in {1}}
  \cup {Out(<<"spi", n, ss, Fill(s)>>, <<17, Pack8(<<<<s - 1, 6>>, <<n, 2>>>>), Pack8(<<<<ss, 6>>, <<0, 2>>>>)>>, Split(Fill(s), k)) :
          n \in {0, 2}, ss \in {46}, s \in {1, 3}, k \in {1, 2}}
  \cup {Out(<<"i2c", n, Fill(s)>>, <<20, Pack8(<<<<n, 2>>, <<0, 6>>>>), s>>, Split(Fill(s), 1)) : n \in {0, 2}, s \in I2cReadSizes}
  \cup {Out(<<"i2c_failed", n>>, <<20, Pack8(<<<<n, 2>>, <<0, 6>>>>), 255>>, <<>>) : n \in {0, 2}}
  \cup {Out(<<"incap", n, Fill(s)>>, <<28, Pack8(<<<<n, 4>>, <<0, 2>>, <<s % 4, 2>>>>)>>, <<Fill(s)>>) : n \in {0, 8}, s \in 1..4}
  \cup {Out(<<"sequencer", e, 0>>, <<32, e>>, <<>>) : e \in {0, 1, 3, 5}}
  \cup {Out(<<"sequencer", e, n>>, <<32, e>>, <<<<n>>>>) : e \in {2, 4}, n \in {0, 32}}

\* ReportAnalogInStatus: groups of four values, their low bits in a byte before them.
AnalogValue(i) == (417 * i) % 1024
ReportAnalogInStatus(n) ==
  LET Group(g) == LET is == 4 * g + 1 .. IF 4 * g + 4 < n THEN 4 * g + 4 ELSE n IN
        <<SumFunction([i \in is |-> (AnalogValue(i) % 4) * 2^(2 * ((i - 1) % 4))])>>
        \o [k \in 1..(Cardinality(is)) |-> AnalogValue(4 * g + k) \div 4]
      var == FlattenSeq([g \in 1..((n + 3) \div 4) |-> Group(g - 1)])
  IN  Out(<<"analog", [i \in 1..n |-> AnalogValue(i)]>>, <<11>>, Pieces1(var))

ReportAnalogInFormat(n) == [Out(<<"format", [i \in 1..n |-> 30 + i]>>, <<12, n>>, Pieces1([i \in 1..n |-> 30 + i])) EXCEPT !.frame = n]

AnalogMessages == {ReportAnalogInFormat(n) : n \in {0, 1, 5}} \cup {ReportAnalogInStatus(bFrame)}

\* What the board may send behind a message the host has not read (a bound).
ShortOut == {Out(<<"sync">>, <<35>>, <<>>), Out(<<"sequencer", 2, 32>>, <<32, 2>>, <<<<32>>>>)}

\* ByteQueuePushBuffer: all of a piece or nothing.
PushBuffer(q, piece) == IF Len(q[1]) + Len(piece) > TxQueueSize THEN <<q[1], TRUE>> ELSE <<q[1] \o piece, q[2]>>

\* AppProtocolSendMessage and its variants.
SendMessage(m) ==
  LET q == FoldLeft(PushBuffer, <<bTx, bCut>>, m.pieces) IN bTx' = q[1] /\ bCut' = q[2]

-----------------------------------------------------------------------------
(* The host: IncomingThread.run.  Rd(b, n) is what it reads of a message   *)
(* that takes n bytes, NotYet when they have not all arrived.              *)
NotYet == [n |-> 0]
Rd(b, n, event) == IF Len(b) < n THEN NotYet ELSE [n |-> n, event |-> event]
Slice(b, i, n) == SubSeq(b, i, i + n - 1)
At(b, i) == IF i <= Len(b) THEN b[i] ELSE 0

\* Cases with a fixed number of bytes.
ReadFixed(b) ==
  LET t == b[1]  a == At(b, 2)  c == At(b, 3) IN
  CASE t = 0 -> Rd(b, 29, <<"establish", Slice(b, 6, 8), Slice(b, 14, 8), Slice(b, 22, 8)>>)
    [] t = 1 -> Rd(b, 1, <<"soft_reset">>)
    [] t = 35 -> Rd(b, 1, <<"sync">>)
    [] t = 2 -> Rd(b, 2, <<"check_interface", a % 2>>)
    [] t = 4 -> Rd(b, 2, <<"digital_in", a \div 4, a % 2>>)
    [] t = 6 -> Rd(b, 2, <<"change_notify", a \div 4, a % 2>>)
    [] t \in {13, 16, 19} -> Rd(b, 2, <<"status", t, a % 4, a \div 128>>)
    [] t \in {15, 18, 21} -> Rd(b, 3, <<"tx_status", t, a % 4, (a \div 4) + c * 64>>)
    [] t = 22 -> Rd(b, 3, <<"icsp_rx", a + c * 256>>)
    [] t = 23 -> Rd(b, 3, <<"icsp_result", Slice(b, 2, 2)>>)
    [] t = 26 -> Rd(b, 2, <<"icsp_config", a % 2>>)
    [] t = 27 -> Rd(b, 2, <<"incap_status", a % 16, a \div 128>>)
    [] t = 30 -> Rd(b, 3, <<"capsense", a % 64, (a \div 64) + c * 4>>)
    [] t = 31 -> Rd(b, 2, <<"capsense_sampling", a % 64, a \div 128>>)

\* REPORT_ANALOG_IN_STATUS, with the pins of the last format.
ReadAnalogStatus(b) ==
  LET n == Len(hFrame)
      Pos(i) == 2 + (i - 1) + ((i - 1) \div 4) + 1            \* of value i, after its header
      Header(i) == Pos(i) - ((i - 1) % 4) - 1
  IN  IF Len(b) < 1 + n + ((n + 3) \div 4) THEN NotYet
      ELSE [n |-> 1 + n + ((n + 3) \div 4),
            event |-> <<"analog", [i \in 1..n |-> b[Pos(i)] * 4 + ((b[Header(i)] \div 2^(2 * ((i - 1) % 4))) % 4)]>>]

\* Cases whose length is in the message.
ReadData(b) ==
  LET t == b[1]  a == At(b, 2)  c == At(b, 3)
      size == (a % 64) + 1
      capture == IF a \div 64 = 0 THEN 4 ELSE a \div 64
  IN CASE t = 14 -> Rd(b, 2 + size, <<"uart", a \div 64, Slice(b, 3, size)>>)
       [] t = 17 -> Rd(b, 3 + size, <<"spi", a \div 64, c % 64, Slice(b, 4, size)>>)
       [] t = 20 -> IF Len(b) < 3 THEN NotYet
                    ELSE IF c = 255 THEN Rd(b, 3, <<"i2c_failed", a % 4>>)
                    ELSE Rd(b, 3 + c, <<"i2c", a % 4, Slice(b, 4, c)>>)
       [] t = 28 -> Rd(b, 2 + capture, <<"incap", a % 16, Slice(b, 3, capture)>>)
       [] t = 32 -> IF a \in {2, 4} THEN Rd(b, 3, <<"sequencer", a, c>>) ELSE Rd(b, 2, <<"sequencer", a, 0>>)
       [] t = 12 -> Rd(b, 2 + a, <<"format", Slice(b, 3, a)>>)
       [] t = 11 -> ReadAnalogStatus(b)

DataTypes == {11, 12, 14, 17, 20, 28, 32}
FixedTypes == {0, 1, 2, 4, 6, 13, 15, 16, 18, 19, 21, 22, 23, 26, 27, 30, 31, 35}

\* Any other byte is a ProtocolError, and the connection is given up.
ReadMessage(b) ==
  IF b[1] \in DataTypes THEN ReadData(b)
  ELSE IF b[1] \in FixedTypes THEN ReadFixed(b) ELSE Rd(b, 1, <<"unexpected command">>)

-----------------------------------------------------------------------------
BHInit ==
  /\ bMeant = <<>> /\ bTx = <<>> /\ bCut = FALSE /\ bFrame = 0
  /\ bWire = <<>> /\ hFrame = <<>> /\ hAgrees = TRUE

\* A module of the board sends a message.  After a cut message the model stops: the
\* host then reads bytes of one message as another.
BoardSends ==
  /\ ~bCut /\ Len(bMeant) < 2
  /\ \E m \in AnalogMessages \cup (IF bMeant = <<>> THEN FixedMessages \cup DataMessages ELSE ShortOut) :
       /\ SendMessage(m)
       /\ bMeant' = Append(bMeant, m.event)
       /\ bFrame' = IF m.frame = -1 THEN bFrame ELSE m.frame
  /\ UNCHANGED <<bWire, hFrame, hAgrees>>

\* AppProtocolTasks hands a packet to the connection, which delivers it.
BoardTransmits ==
  /\ bTx # <<>>
  /\ \E n \in MaxPackets : LET k == IF n < Len(bTx) THEN n ELSE Len(bTx) IN
       bWire' = bWire \o SubSeq(bTx, 1, k) /\ bTx' = SubSeq(bTx, k + 1, Len(bTx))
  /\ UNCHANGED <<bMeant, bCut, bFrame, hFrame, hAgrees>>

\* IncomingThread has read a whole message; calculateAnalogFrameDelta adopts a new format.
HostReads ==
  /\ ~bCut /\ bWire # <<>> /\ hAgrees
  /\ LET r == ReadMessage(bWire) IN
     /\ r # NotYet
     /\ hAgrees' = (bMeant # <<>> /\ r.event = Head(bMeant))
     /\ bMeant' = IF bMeant = <<>> THEN <<>> ELSE Tail(bMeant)
     /\ bWire' = SubSeq(bWire, r.n + 1, Len(bWire))
     /\ hFrame' = IF r.event[1] = "format" THEN r.event[2] ELSE IF r.event = <<"soft_reset">> THEN <<>> ELSE hFrame
  /\ UNCHANGED <<bTx, bCut, bFrame>>

BHNext == BoardSends \/ BoardTransmits \/ HostReads
BHSpec == BHInit /\ [][BHNext]_bhVars

-----------------------------------------------------------------------------

\* However the connection cuts the stream, and until a full tx_queue has cost a
\* piece of a message, the host hears exactly the messages the board sent, in
\* order: outgoing_arg_size, the packed structs and the sizes in the messages agree
\* with what IncomingThread reads, analog values included, and no message is left
\* unread for lack of bytes.
HostHearsBoard ==
  /\ hAgrees
  /\ (~bCut /\ bTx = <<>> /\ bMeant # <<>> /\ bWire # <<>>) => ReadMessage(bWire) # NotYet
  /\ (~bCut /\ bTx = <<>> /\ bWire = <<>>) => bMeant = <<>>
=============================================================================
