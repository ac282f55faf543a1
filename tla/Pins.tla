-------------------------------- MODULE Pins --------------------------------
(***************************************************************************)
(* The pins: the tables from pin numbers to ports and back for the three   *)
(* layouts of the hardware, the mode a pin is put in, and digital inputs   *)
(* with their change notification, as far as the value a client of the     *)
(* host library reads.  Two pins are watched: any one, and its neighbour.  *)
(***************************************************************************)
EXTENDS Integers, Sequences

CONSTANTS PinsHardware,   \* layouts: 0 (IOIO0000), 1 (IOIO0001 to IOIO0003), 4 (IOIO0004)
          PinsWatched,    \* the pins that may be watched
          PinsUses,       \* what the host uses pins for
          PinsBusy,       \* those of PinsWatched that are opened
          PinsMaxOpens,   \* bound: this many times, and others once
          PinsMaxReports  \* bound: no level changes while more messages are on their way to the host

ASSUME PinsAssumption ==
  /\ PinsHardware \subseteq {0, 1, 4} /\ PinsWatched \subseteq Nat /\ PinsBusy \subseteq PinsWatched /\ {PinsMaxOpens, PinsMaxReports} \subseteq Nat
  /\ PinsUses \subseteq {"in", "out", "analog", "capsense", "pwm", "uart", "spi"}

-----------------------------------------------------------------------------
(* Tables.  MCLR has neither port nor bit; its change notification is 0.   *)

Port(name, bits) == [i \in DOMAIN bits |-> <<name, bits[i]>>]
MCLR == <<"none", 0>>
Ports == <<"B", "C", "D", "E", "F", "G">>

port_info(hw) ==
  (IF hw = 4 THEN Port("C", <<12>>) \o Port("F", <<4, 5>>) ELSE Port("F", <<3>>) \o Port("C", <<12, 15>>))
  \o Port("D", <<8, 9, 10, 11, 0>>) \o Port("C", <<13, 14>>) \o Port("D", <<1, 2, 3, 4, 5, 6, 7>>)
  \o Port("F", <<0, 1>>) \o Port("E", <<0, 1, 2, 3, 4, 5, 6, 7>>) \o Port("G", <<6, 7, 8>>)
  \o (IF hw = 0 THEN <<MCLR>> ELSE <<>>)
  \o Port("G", <<9>>) \o Port("B", <<5, 4, 3, 2, 1, 0, 6, 7, 8, 9, 10, 11, 12, 13, 14, 15>>)
  \o (IF hw # 4 THEN Port("F", <<4, 5>>) ELSE <<>>)

NUM_PINS(hw) == CASE hw = 0 -> 50 [] hw = 1 -> 49 [] hw = 4 -> 47

\* CNENn, CNPUn, CNPDn: register n and bit of each pin.
cn_info(hw) ==
  (IF hw = 4 THEN <<<<2, 7>>, <<2, 1>>, <<2, 2>>>> ELSE <<<<5, 7>>, <<2, 7>>, <<2, 6>>>>)
  \o Port(4, <<5, 6, 7, 8, 1>>) \o Port(1, <<1, 0>>) \o Port(4, <<2, 3, 4>>) \o Port(1, <<13, 14, 15>>)
  \o Port(2, <<0>>) \o Port(5, <<4, 5>>) \o Port(4, <<10, 11, 12, 13, 14, 15>>) \o Port(5, <<0, 1>>)
  \o Port(1, <<8, 9, 10>>) \o (IF hw = 0 THEN Port(0, <<0>>) ELSE <<>>)
  \o Port(1, <<11, 7, 6, 5, 4, 3, 2>>) \o Port(2, <<8, 9, 10, 11, 12, 13, 14, 15>>)
  \o Port(3, <<0>>) \o Port(1, <<12>>) \o (IF hw # 4 THEN Port(2, <<1, 2>>) ELSE <<>>)

pin_to_rpin(hw) ==
  (IF hw = 4 THEN <<-1, 10, 17>> ELSE <<16, -1, -1>>)
  \o <<2, 4, 3, 12, 11, -1, 37, 24, 23, 22, 25, 20, -1, -1, -1, -1, -1, -1, -1, -1, -1, -1, -1, -1, 21, 26, 19>>
  \o (IF hw = 0 THEN <<-1>> ELSE <<>>)
  \o <<27, 18, 28, -1, 13, 1, 0, 6, 7, 8, 9, -1, -1, -1, -1, 14, 29>>
  \o (IF hw # 4 THEN <<10, 17>> ELSE <<>>)

\* The output register of a pin; 0 in the table, here -1, for a pin that has none.
pin_to_rpor(hw) ==
  (IF hw = 4 THEN <<-1, 10, 17>> ELSE <<16, -1, -1>>)
  \o <<2, 4, 3, 12, 11, -1, -1, 24, 23, 22, 25, 20, -1, -1, -1, -1, -1, -1, -1, -1, -1, -1, -1, -1, 21, 26, 19>>
  \o (IF hw = 0 THEN <<-1>> ELSE <<>>)
  \o <<27, 18, 28, -1, 13, 1, 0, 6, 7, 8, 9, -1, -1, -1, -1, 14, 29>>
  \o (IF hw # 4 THEN <<10, 17>> ELSE <<>>)

Unused(n) == [i \in 1..n |-> -1]

port_to_pin(hw) ==
  [B |-> IF hw = 0 THEN <<37, 36, 35, 34, 33, 32, 38, 39, 40, 41, 42, 43, 44, 45, 46, 47>>
         ELSE <<36, 35, 34, 33, 32, 31, 37, 38, 39, 40, 41, 42, 43, 44, 45, 46>>,
   C |-> Unused(12) \o IF hw = 4 THEN <<0, 8, 9, -1>> ELSE <<1, 8, 9, 2>>,
   D |-> <<7, 10, 11, 12, 13, 14, 15, 16, 3, 4, 5, 6>> \o Unused(4),
   E |-> <<19, 20, 21, 22, 23, 24, 25, 26>> \o Unused(8),
   F |-> (CASE hw = 0 -> <<17, 18, -1, 0, 48, 49>> [] hw = 1 -> <<17, 18, -1, 0, 47, 48>>
            [] hw = 4 -> <<17, 18, -1, -1, 1, 2>>) \o Unused(10),
   G |-> Unused(6) \o <<27, 28, 29, IF hw = 0 THEN 31 ELSE 30>> \o Unused(6)]

PinFromPort(hw, port, bit) == port_to_pin(hw)[port][bit + 1]

MIN_ANALOG_PIN(hw) == IF hw = 0 THEN 32 ELSE 31
pin_to_analog == <<5, 4, 3, 2, 1, 0, 6, 7, 8, 9, 10, 11, 12, 13, 14, 15>>
PinToAnalogChannel(hw, pin) ==
  IF pin < MIN_ANALOG_PIN(hw) \/ pin - MIN_ANALOG_PIN(hw) >= 16 THEN -1 ELSE pin_to_analog[pin - MIN_ANALOG_PIN(hw) + 1]
PinFromAnalogChannel(hw, channel) == port_to_pin(hw).B[channel + 1]

\* The tables agree in every layout: they have an entry per pin, a port and a bit of it, PinFromPort and PinFromAnalogChannel
\* take back what port_info and PinToAnalogChannel say, the analog pins are those of port B, no two
\* pins share a change-notification bit, and a pin that can be remapped as an output can be as an
\* input, under the same number.
ASSUME TablesAgree ==
  \A hw \in PinsHardware : LET P == 0 .. NUM_PINS(hw) - 1 IN
    /\ {Len(port_info(hw)), Len(cn_info(hw)), Len(pin_to_rpin(hw)), Len(pin_to_rpor(hw))} = {NUM_PINS(hw)}
    /\ \A p \in P : port_info(hw)[p + 1] # MCLR =>
         /\ port_info(hw)[p + 1] \in {Ports[i] : i \in DOMAIN Ports} \X (0 .. 15)
         /\ PinFromPort(hw, port_info(hw)[p + 1][1], port_info(hw)[p + 1][2]) = p
    /\ \A p \in P : PinToAnalogChannel(hw, p) # -1 => PinFromAnalogChannel(hw, PinToAnalogChannel(hw, p)) = p
    /\ \A p \in P : PinToAnalogChannel(hw, p) # -1 <=> port_info(hw)[p + 1][1] = "B"
    /\ \A p, q \in P : p # q => cn_info(hw)[p + 1] # cn_info(hw)[q + 1]
    /\ \A p \in P : pin_to_rpor(hw)[p + 1] # -1 => pin_to_rpin(hw)[p + 1] = pin_to_rpor(hw)[p + 1]

-----------------------------------------------------------------------------
VARIABLES pHw,      \* the layout
          pPins,    \* the pins watched
          pCfg,     \* per pin: ansel, rpor, cnpu, cnpd, lat, odc, tris and the peripheral input it feeds
          pLevel,   \* per pin: its level
          pCn,      \* per pin: enabled (CNEN), forced (CNFORCE), CNBACKUP
          pInt,     \* CNIE, CNIF and the ports, by their places in Ports, the handler has still to look at
          pIn,      \* messages on their way to the board
          pOut,     \* messages on their way to the host
          pHost,    \* per pin: its mode for the host, listeners, first listener open, the value it has
          pStray,   \* a report named a pin that is not watched
          pCount

pVars == <<pHw, pPins, pCfg, pLevel, pCn, pInt, pIn, pOut, pHost, pStray, pCount>>

PortOf(p) == port_info(pHw)[p + 1][1]
BitOf(p) == port_info(pHw)[p + 1][2]

Floating == [ansel |-> FALSE, rpor |-> 0, cnpu |-> FALSE, cnpd |-> FALSE, lat |-> 0, odc |-> FALSE, tris |-> TRUE]

PinsInit ==
  /\ pHw \in PinsHardware
  /\ \E p \in PinsWatched :
       /\ p + 1 < NUM_PINS(pHw) /\ {port_info(pHw)[p + 1], port_info(pHw)[p + 2]} \cap {MCLR} = {}
       /\ pPins = {p, p + 1}
  /\ pCfg = [p \in pPins |-> IF p = 0 THEN [Floating EXCEPT !.lat = 1, !.odc = TRUE, !.tris = FALSE] ELSE Floating]
  /\ pLevel = [p \in pPins |-> 0]
  /\ pCn = [p \in pPins |-> [enabled |-> FALSE, forced |-> FALSE, backup |-> 0]]
  /\ pInt = [CNIE |-> TRUE, CNIF |-> FALSE, ports |-> {}]
  /\ pIn = <<>> /\ pOut = <<>> /\ pStray = FALSE /\ pCount = 0
  /\ pHost = [p \in pPins |-> [mode |-> "closed", listeners |-> 0, open |-> FALSE, value |-> -1]]

-----------------------------------------------------------------------------
(* Pin modes.                                                              *)

PinSetRpor(c, p, per) == [c EXCEPT !.rpor = IF pin_to_rpor(pHw)[p + 1] # -1 THEN per ELSE @]

SetPinDigitalOut(c, p, value, open_drain) ==
  [PinSetRpor(c, p, 0) EXCEPT !.ansel = FALSE, !.cnpu = FALSE, !.cnpd = FALSE, !.lat = value,
                              !.odc = open_drain \/ p = 0, !.tris = FALSE]
\* Mutant: a pull-up, once on, stays.
SetPinDigitalInKeepsPull(c, p, pull) ==
  [PinSetRpor(c, p, 0) EXCEPT !.ansel = FALSE, !.cnpu = @ \/ pull = 1, !.cnpd = (pull = 2), !.tris = TRUE]
SetPinDigitalIn(c, p, pull) ==
  [PinSetRpor(c, p, 0) EXCEPT !.ansel = FALSE, !.cnpu = (pull = 1), !.cnpd = (pull = 2), !.tris = TRUE]
SetPinAnalogIn(c, p) ==
  [PinSetRpor(c, p, 0) EXCEPT !.cnpu = FALSE, !.cnpd = FALSE, !.ansel = TRUE, !.tris = TRUE]
SetPinCapSense(c, p) == [SetPinAnalogIn(c, p) EXCEPT !.lat = 0]

\* The output functions of PWM, UART transmit, SPI data and SPI clock.
SetPinPwm(c, p, pwm_num, enable) ==
  PinSetRpor(c, p, IF ~enable THEN 0 ELSE IF pwm_num = 8 THEN 35 ELSE 18 + pwm_num)
SetPinUartTx(c, p, uart_num, enable) == PinSetRpor(c, p, IF enable THEN <<3, 5, 28, 30>>[uart_num + 1] ELSE 0)
SetPinSpi(c, p, spi_num, mode, enable) ==
  PinSetRpor(c, p, IF ~enable THEN 0 ELSE (IF mode = 0 THEN <<7, 10, 32>> ELSE <<8, 11, 33>>)[spi_num + 1])

\* What the board does to the pin's registers for a message; all but change notification and the level
\* of an output.
PinMode(c, p, m) ==
  CASE m.type = "SET_PIN_DIGITAL_OUT" -> SetPinDigitalOut(c, p, 1, FALSE)
    [] m.type = "SET_PIN_DIGITAL_IN" -> SetPinDigitalIn(c, p, m.arg)
    [] m.type = "SET_PIN_ANALOG_IN" -> SetPinAnalogIn(c, p)
    [] m.type = "SET_PIN_CAPSENSE" -> SetPinCapSense(c, p)
    [] m.type = "SET_PIN_PWM" -> SetPinPwm(c, p, 8, m.arg = 1)
    [] m.type = "SET_PIN_UART" -> SetPinUartTx(c, p, 2, m.arg = 1)
    [] m.type = "SET_PIN_SPI" -> SetPinSpi(c, p, 1, 2, m.arg = 1)
    [] OTHER -> c

\* All mode changes but PWM, UART and SPI end change notification.
EndsNotify(m) == m.type \in {"SET_PIN_DIGITAL_OUT", "SET_PIN_DIGITAL_IN", "SET_PIN_ANALOG_IN", "SET_PIN_CAPSENSE"}

-----------------------------------------------------------------------------
(* The host library.                                                       *)

Msg(type, p, arg) == [type |-> type, pin |-> p, arg |-> arg]

\* The messages of an open and of a close, of each kind of use.
Opening(mode, p) ==
  CASE mode = "in" -> <<Msg("SET_PIN_DIGITAL_IN", p, 1), Msg("SET_CHANGE_NOTIFY", p, 1)>>
    [] mode = "out" -> <<Msg("SET_PIN_DIGITAL_OUT", p, 0)>>
    [] mode = "analog" -> <<Msg("SET_PIN_ANALOG_IN", p, 0)>>
    [] mode = "capsense" -> <<Msg("SET_PIN_CAPSENSE", p, 0)>>
    [] mode = "pwm" -> <<Msg("SET_PIN_DIGITAL_OUT", p, 0), Msg("SET_PIN_PWM", p, 1)>>
    [] mode = "uart" -> <<Msg("SET_PIN_DIGITAL_OUT", p, 0), Msg("SET_PIN_UART", p, 1)>>
    [] mode = "spi" -> <<Msg("SET_PIN_DIGITAL_OUT", p, 0), Msg("SET_PIN_SPI", p, 1)>>
Closing(mode, p) ==
  (CASE mode = "in" -> <<Msg("SET_CHANGE_NOTIFY", p, 0)>>
     [] mode = "pwm" -> <<Msg("SET_PIN_PWM", p, 0)>>
     [] mode = "uart" -> <<Msg("SET_PIN_UART", p, 0)>>
     [] mode = "spi" -> <<Msg("SET_PIN_SPI", p, 0)>>
     [] OTHER -> <<>>) \o <<Msg("SET_PIN_DIGITAL_IN", p, 0)>>
PinsHostOpens(p, mode) ==
  /\ pHost[p].mode = "closed" /\ pCount < (IF pPins \cap PinsBusy # {} THEN PinsMaxOpens ELSE 1)
  /\ pIn' = pIn \o Opening(mode, p) /\ pCount' = pCount + 1
  /\ pHost' = [pHost EXCEPT ![p].mode = mode, ![p].value = -1, ![p].listeners = IF mode = "in" THEN @ + 1 ELSE @]
  /\ UNCHANGED <<pHw, pPins, pCfg, pLevel, pCn, pInt, pOut, pStray>>

PinsHostCloses(p) ==
  /\ pHost[p].mode # "closed"
  /\ pIn' = pIn \o Closing(pHost[p].mode, p)
  /\ pHost' = [pHost EXCEPT ![p].mode = "closed"]
  /\ UNCHANGED <<pHw, pPins, pCfg, pLevel, pCn, pInt, pOut, pStray, pCount>>

\* IncomingState: an echo opens the next listener or closes the current one; a value goes to the
\* current one, and reaches the client if no other listener is before its own.
PinsHostReceives ==
  /\ pOut # <<>>
  /\ pOut' = Tail(pOut)
  /\ LET m == Head(pOut) h == pHost[m.pin] IN
     pHost' = IF m.pin \notin pPins THEN pHost ELSE [pHost EXCEPT ![m.pin] =
       IF m.type = "echo"
       THEN IF m.arg = 1 THEN [h EXCEPT !.open = h.listeners > 0]
            ELSE [h EXCEPT !.open = FALSE, !.listeners = IF h.open THEN @ - 1 ELSE @]
       ELSE IF h.open /\ h.listeners = 1 /\ h.mode = "in" THEN [h EXCEPT !.value = m.arg] ELSE h]
  /\ UNCHANGED <<pHw, pPins, pCfg, pLevel, pCn, pInt, pIn, pStray, pCount>>

-----------------------------------------------------------------------------
(* The board.                                                              *)

Idle == pInt.ports = {}
SendsEcho(m) == pOut' = Append(pOut, Msg("echo", m.pin, m.arg))

\* Messages other than SET_CHANGE_NOTIFY.
BoardSetsMode ==
  /\ pIn # <<>> /\ Idle
  /\ LET m == Head(pIn) IN
     /\ m.type # "SET_CHANGE_NOTIFY"
     /\ pCfg' = [pCfg EXCEPT ![m.pin] = PinMode(@, m.pin, m)]
     /\ pCn' = IF EndsNotify(m) THEN [pCn EXCEPT ![m.pin].enabled = FALSE] ELSE pCn
  /\ pIn' = Tail(pIn)
  /\ UNCHANGED <<pHw, pPins, pLevel, pInt, pOut, pHost, pStray, pCount>>

\* Mutant: no report is forced.
NotifyOnUnforced ==
  /\ pIn # <<>> /\ Idle
  /\ LET m == Head(pIn) IN
     /\ m.type = "SET_CHANGE_NOTIFY" /\ m.arg = 1
     /\ SendsEcho(m)
     /\ pCn' = [pCn EXCEPT ![m.pin].enabled = TRUE]
     /\ pInt' = [pInt EXCEPT !.CNIF = TRUE]
  /\ pIn' = Tail(pIn)
  /\ UNCHANGED <<pHw, pPins, pCfg, pLevel, pHost, pStray, pCount>>

\* SET_CHANGE_NOTIFY on: the echo goes first, then a report is forced.
NotifyOn ==
  /\ pIn # <<>> /\ Idle
  /\ LET m == Head(pIn) IN
     /\ m.type = "SET_CHANGE_NOTIFY" /\ m.arg = 1
     /\ SendsEcho(m)
     /\ pCn' = [pCn EXCEPT ![m.pin].enabled = TRUE, ![m.pin].forced = TRUE]
     /\ pInt' = [pInt EXCEPT !.CNIF = TRUE]
  /\ pIn' = Tail(pIn)
  /\ UNCHANGED <<pHw, pPins, pCfg, pLevel, pHost, pStray, pCount>>

NotifyOff ==
  /\ pIn # <<>> /\ Idle
  /\ LET m == Head(pIn) IN
     /\ m.type = "SET_CHANGE_NOTIFY" /\ m.arg = 0
     /\ SendsEcho(m)
     /\ pCn' = [pCn EXCEPT ![m.pin].enabled = FALSE]
  /\ pIn' = Tail(pIn)
  /\ UNCHANGED <<pHw, pPins, pCfg, pLevel, pInt, pHost, pStray, pCount>>

\* _CNInterrupt: the flag is cleared before the first port is read.  Ports without a watched pin are skipped.
CNInterrupt ==
  /\ pInt.CNIE /\ pInt.CNIF /\ Idle
  /\ pInt' = [pInt EXCEPT !.CNIF = FALSE, !.ports = {i \in DOMAIN Ports : \E p \in pPins : PortOf(p) = Ports[i]}]
  /\ UNCHANGED <<pHw, pPins, pCfg, pLevel, pCn, pIn, pOut, pHost, pStray, pCount>>

\* CHECK_PORT_CHANGE: pins forced or changed since the last look, of those enabled, are reported by
\* the number their bit has in port_to_pin, lowest bit first.
ChangedPins(i) == {p \in pPins : PortOf(p) = Ports[i] /\ pCn[p].enabled /\ (pCn[p].forced \/ pLevel[p] # pCn[p].backup)}
ReportOf(p) == Msg("report", PinFromPort(pHw, PortOf(p), BitOf(p)), pLevel[p])
Reports(changed) ==
  LET low == CHOOSE p \in changed : \A q \in changed : BitOf(p) <= BitOf(q)
  IN  IF changed = {} THEN <<>>
      ELSE IF changed = {low} THEN <<ReportOf(low)>>
      ELSE <<ReportOf(low), ReportOf(CHOOSE p \in changed : p # low)>>

CheckPortChange ==
  \E i \in pInt.ports :
    /\ \A j \in pInt.ports : i <= j
    /\ pOut' = pOut \o Reports(ChangedPins(i))
    /\ pStray' = (pStray \/ \E p \in ChangedPins(i) : ReportOf(p).pin \notin pPins)
    /\ pCn' = [p \in pPins |-> IF PortOf(p) = Ports[i] THEN [pCn[p] EXCEPT !.forced = FALSE, !.backup = pLevel[p]] ELSE pCn[p]]
    /\ pInt' = [pInt EXCEPT !.ports = @ \ {i}]
    /\ UNCHANGED <<pHw, pPins, pCfg, pLevel, pIn, pHost, pCount>>

\* A watched input changes level, which raises the flag.  (The level of a pin that is not watched is
\* read by nobody before the report that NotifyOn forces.)
LevelChanges(p) ==
  /\ pCn[p].enabled /\ Len(pOut) < PinsMaxReports
  /\ pLevel' = [pLevel EXCEPT ![p] = 1 - @]
  /\ pInt' = [pInt EXCEPT !.CNIF = TRUE]
  /\ UNCHANGED <<pHw, pPins, pCfg, pCn, pIn, pOut, pHost, pStray, pCount>>

PinsNext ==
  \/ \E p \in pPins : \/ \E mode \in PinsUses : PinsHostOpens(p, mode)
                      \/ PinsHostCloses(p) \/ LevelChanges(p)
  \/ PinsHostReceives
  \/ BoardSetsMode \/ NotifyOn \/ NotifyOff \/ CNInterrupt \/ CheckPortChange

PinsSpec == PinsInit /\ [][PinsNext]_pVars

-----------------------------------------------------------------------------
\* Everything sent has arrived and been handled, and no change is pending.
Settled == pIn = <<>> /\ pOut = <<>> /\ ~pInt.CNIF /\ Idle

\* A client of an open digital input reads the level of its pin once all is quiet: also after quick
\* closing and reopening, and with the pin next to it on the same port changing while the handler
\* runs.  Every change report names a pin whose change is watched, in all three layouts of the board.
ClientReadsLevel ==
  /\ ~pStray
  /\ Settled => \A p \in pPins : pHost[p].mode = "in" => pHost[p].value = pLevel[p]

\* Whatever a pin was used for and in whatever order, once closed it floats (the LED apart): no peripheral and no latch
\* drives it, nothing pulls it, and it is not watched for changes.
ClosedPinFloats ==
  pIn = <<>> => \A p \in pPins :
    pHost[p].mode = "closed" /\ p # 0 =>
      pCfg[p].tris /\ pCfg[p].rpor = 0 /\ ~pCfg[p].cnpu /\ ~pCfg[p].cnpd /\ ~pCfg[p].ansel /\ ~pCn[p].enabled
=============================================================================
