---------------------------- MODULE HostToBoard ----------------------------
(***************************************************************************)
(* The stream of messages from the host library to the board: the writers  *)
(* of IOIOProtocol.java on one side, the parser of protocol.c on the other.*)
(* The writers shift and mask by hand, the board overlays packed structs;  *)
(* nothing in the stream marks where a message ends.  Bytes are numbers,   *)
(* the connection cuts the stream anywhere.  A message is followed from    *)
(* the call in the library to the call the board makes for it.             *)
(***************************************************************************)
EXTENDS Integers, Sequences, SequencesExt, Functions, FiniteSets

CONSTANTS NumPins, NumPwm, NumUart, NumSpi, NumI2c, NumIncap,
          I2cWriteSizes,   \* sizes of I2C writes the host asks for, 252 the largest it has credit for
          MaxChunk         \* bound: bytes handed over at once, unless all that there are

ASSUME HostToBoardAssumption ==
  /\ {NumPins, NumPwm, NumUart, NumSpi, NumI2c, NumIncap} \subseteq 1..64
  /\ I2cWriteSizes \subseteq 0..255 /\ MaxChunk \in Nat

VARIABLES hMeant,   \* calls made in the library that the board has not made yet
          hHeard,   \* so far the board has made the calls that were meant
          hCue,     \* size of a cue of the sequencer the host has open, 0 if none
          hWire,    \* bytes on their way
          rx        \* the board's parser, and the calls it has made

hbVars == <<hMeant, hHeard, hCue, hWire, rx>>

-----------------------------------------------------------------------------
(* Packed structs: fields from the least significant bit up.               *)
Pad(w) == <<"pad", w>>
Bytes(n) == [i \in 1..n |-> <<i, 8>>]

\* The argument structs of digital pins and PWM, and of the messages about the connection.
PinArgs ==
  [HARD_RESET |-> Bytes(4), CHECK_INTERFACE |-> Bytes(8),
   SET_PIN_DIGITAL_OUT |-> <<<<"open_drain", 1>>, <<"value", 1>>, <<"pin", 6>>>>,
   SET_DIGITAL_OUT_LEVEL |-> <<<<"value", 1>>, Pad(1), <<"pin", 6>>>>,
   SET_PIN_DIGITAL_IN |-> <<<<"pull", 2>>, <<"pin", 6>>>>,
   SET_CHANGE_NOTIFY |-> <<<<"cn", 1>>, Pad(1), <<"pin", 6>>>>,
   REGISTER_PERIODIC_DIGITAL_SAMPLING |-> <<<<"pin", 6>>, Pad(2), <<"freq_scale", 8>>>>,
   SET_PIN_PWM |-> <<<<"pin", 6>>, Pad(2), <<"pwm_num", 4>>, Pad(3), <<"enable", 1>>>>,
   SET_PWM_DUTY_CYCLE |-> <<<<"fraction", 2>>, <<"pwm_num", 4>>, Pad(2), <<"dc", 16>>>>,
   SET_PWM_PERIOD |-> <<<<"scale_l", 1>>, <<"pwm_num", 4>>, Pad(2), <<"scale_h", 1>>, <<"period", 16>>>>,
   SET_PIN_ANALOG_IN |-> <<<<"pin", 8>>>>]

\* The argument structs of UART, SPI and I2C.
BusArgs ==
  [UART_DATA |-> <<<<"size", 6>>, <<"uart_num", 2>>>>,
   UART_CONFIG |-> <<<<"parity", 2>>, <<"two_stop_bits", 1>>, <<"speed4x", 1>>, Pad(2), <<"uart_num", 2>>, <<"rate", 16>>>>,
   SET_PIN_UART |-> <<<<"pin", 6>>, Pad(2), <<"uart_num", 2>>, Pad(4), <<"dir", 1>>, <<"enable", 1>>>>,
   SPI_MASTER_REQUEST |-> <<<<"ss_pin", 6>>, <<"spi_num", 2>>, <<"total_size", 6>>, <<"res_size_neq_total", 1>>,
                            <<"data_size_neq_total", 1>>, <<"data_size", 8>>>>,
   SPI_CONFIGURE_MASTER |-> <<<<"div", 3>>, <<"scale", 2>>, <<"spi_num", 2>>, Pad(1),
                              <<"clk_pol", 1>>, <<"clk_edge", 1>>, <<"smp_end", 1>>, Pad(5)>>,
   SET_PIN_SPI |-> <<<<"pin", 6>>, Pad(2), <<"spi_num", 2>>, <<"mode", 2>>, <<"enable", 1>>, Pad(3)>>,
   I2C_CONFIGURE_MASTER |-> <<<<"i2c_num", 2>>, Pad(3), <<"rate", 2>>, <<"smbus_levels", 1>>>>,
   I2C_WRITE_READ |-> <<<<"i2c_num", 2>>, Pad(3), <<"ten_bit_addr", 1>>, <<"addr_msb", 2>>, <<"addr_lsb", 8>>,
                        <<"write_size", 8>>, <<"read_size", 8>>>>]

\* The argument structs of the other peripherals.
OtherArgs ==
  [SET_ANALOG_IN_SAMPLING |-> <<<<"pin", 6>>, Pad(1), <<"enable", 1>>>>,
   SET_ANALOG_IN_SAMPLE_RATE |-> <<<<"samples_per_second", 16>>>>,
   ICSP_SIX |-> <<<<"inst", 24>>>>, ICSP_CONFIG |-> <<<<"enable", 1>>>>,
   INCAP_CONFIG |-> <<<<"incap_num", 4>>, Pad(4), <<"clock", 2>>, Pad(1), <<"mode", 3>>, Pad(1), <<"double_prec", 1>>>>,
   SET_PIN_INCAP |-> <<<<"pin", 6>>, Pad(2), <<"incap_num", 4>>, Pad(3), <<"enable", 1>>>>,
   SET_PRESERVE_OUTPUTS |-> <<<<"preserve", 1>>, Pad(7)>>,
   SET_PIN_CAPSENSE |-> <<<<"pin", 6>>, Pad(2)>>,
   SET_CAPSENSE_SAMPLING |-> <<<<"pin", 6>>, Pad(1), <<"enable", 1>>>>,
   SEQUENCER_CONFIGURE |-> <<<<"size", 8>>>>, SEQUENCER_PUSH |-> <<<<"time", 16>>>>,
   SEQUENCER_CONTROL |-> <<<<"cmd", 8>>>>]

\* The message types in the order of their numbers, from 0.
MESSAGE_TYPE == <<"HARD_RESET", "SOFT_RESET", "CHECK_INTERFACE", "SET_PIN_DIGITAL_OUT", "SET_DIGITAL_OUT_LEVEL",
  "SET_PIN_DIGITAL_IN", "SET_CHANGE_NOTIFY", "REGISTER_PERIODIC_DIGITAL_SAMPLING", "SET_PIN_PWM",
  "SET_PWM_DUTY_CYCLE", "SET_PWM_PERIOD", "SET_PIN_ANALOG_IN", "SET_ANALOG_IN_SAMPLING", "UART_CONFIG", "UART_DATA",
  "SET_PIN_UART", "SPI_CONFIGURE_MASTER", "SPI_MASTER_REQUEST", "SET_PIN_SPI", "I2C_CONFIGURE_MASTER",
  "I2C_WRITE_READ", "RESERVED", "ICSP_SIX", "ICSP_REGOUT", "ICSP_PROG_ENTER", "ICSP_PROG_EXIT", "ICSP_CONFIG",
  "INCAP_CONFIG", "SET_PIN_INCAP", "SOFT_CLOSE", "SET_PIN_CAPSENSE", "SET_CAPSENSE_SAMPLING",
  "SEQUENCER_CONFIGURE", "SEQUENCER_PUSH", "SEQUENCER_CONTROL", "SYNC", "SET_PRESERVE_OUTPUTS",
  "SET_ANALOG_IN_SAMPLE_RATE">>

\* The struct of a message; the types without arguments have an empty one.
Struct(t) ==
  IF t \in DOMAIN PinArgs THEN PinArgs[t]
  ELSE IF t \in DOMAIN BusArgs THEN BusArgs[t]
  ELSE IF t \in DOMAIN OtherArgs THEN OtherArgs[t] ELSE <<>>

Widths(s) == [i \in DOMAIN s |-> s[i][2]]
sizeof(s) == (SumFunction(Widths(s)) + 7) \div 8

\* incoming_arg_size, by message type.
incoming_arg_size == [i \in DOMAIN MESSAGE_TYPE |-> sizeof(Struct(MESSAGE_TYPE[i]))]

\* Where the fields of each struct are: the offset in bits, and the width.
FieldsOf(s) ==
  LET Index(f) == CHOOSE i \in DOMAIN s : s[i][1] = f IN
  [f \in {s[i][1] : i \in DOMAIN s} |-> <<SumFunctionOnSet(Widths(s), 1..(Index(f) - 1)), s[Index(f)][2]>>]
Fields == [i \in DOMAIN MESSAGE_TYPE |-> FieldsOf(Struct(MESSAGE_TYPE[i]))]

\* The struct of a message laid over its bytes: rx_msg.args.  No field spans more than three bytes.
Overlay(buf) ==
  LET fields == Fields[buf[1] + 1]
      Byte(k) == IF k <= Len(buf) THEN buf[k] ELSE 0
      At(off, w) == LET k == 2 + (off \div 8) IN
        ((Byte(k) + 256 * Byte(k + 1) + 65536 * Byte(k + 2)) \div 2^(off % 8)) % 2^w
  IN  [f \in DOMAIN fields |-> At(fields[f][1], fields[f][2])]

-----------------------------------------------------------------------------
(* The board.                                                              *)

\* Bytes of settings and of a cue, by type of sequencer channel.
ChannelSize == [type \in 0..4 |-> CASE type \in {0, 1} -> [settings |-> 6, cue |-> 2]
                                    [] type = 2 -> [settings |-> 4, cue |-> 2]
                                    [] type = 3 -> [settings |-> 2, cue |-> 5]
                                    [] type = 4 -> [settings |-> 2, cue |-> 1]]

\* expected_cue_size after a configuration.
Configure(settings) ==
  LET n == Len(settings)
      From[i \in 1..(n + 6)] == IF i > n THEN 0
                                ELSE LET c == ChannelSize[settings[i] % 16] IN c.cue + From[i + c.settings]
  IN  From[1]

\* Mutant: the last byte of an I2C write is not waited for.
IncomingVarArgSizeShort(t, a, cue) ==
  CASE t = "UART_DATA" -> a.size + 1
    [] t = "SPI_MASTER_REQUEST" ->
         (IF a.data_size_neq_total = 1 THEN a.data_size ELSE a.total_size) + a.res_size_neq_total
    [] t = "I2C_WRITE_READ" -> IF a.write_size = 0 THEN 0 ELSE a.write_size - 1
    [] t = "SEQUENCER_CONFIGURE" -> a.size
    [] t = "SEQUENCER_PUSH" -> cue
    [] t = "SEQUENCER_CONTROL" -> IF a.cmd = 3 THEN cue ELSE 0
    [] OTHER -> 0

\* The bytes that follow the struct, with expected_cue_size = cue.
IncomingVarArgSize(t, a, cue) ==
  CASE t = "UART_DATA" -> a.size + 1
    [] t = "SPI_MASTER_REQUEST" ->
         (IF a.data_size_neq_total = 1 THEN a.data_size ELSE a.total_size) + a.res_size_neq_total
    [] t = "I2C_WRITE_READ" -> a.write_size
    [] t = "SEQUENCER_CONFIGURE" -> a.size
    [] t = "SEQUENCER_PUSH" -> cue
    [] t = "SEQUENCER_CONTROL" -> IF a.cmd = 3 THEN cue ELSE 0
    [] OTHER -> 0

FALSE_RESULT == <<"FALSE">>
Check(cond, call) == IF cond THEN call ELSE FALSE_RESULT

\* MessageDone for pins, PWM, analog inputs and capacitive sensing.
PinCall(t, a) ==
  CASE t = "SET_PIN_DIGITAL_OUT" -> Check(a.pin < NumPins, <<"SetPinDigitalOut", a.pin, a.value, a.open_drain>>)
    [] t = "SET_DIGITAL_OUT_LEVEL" -> Check(a.pin < NumPins, <<"SetDigitalOutLevel", a.pin, a.value>>)
    [] t = "SET_PIN_DIGITAL_IN" -> Check(a.pin < NumPins /\ a.pull < 3, <<"SetPinDigitalIn", a.pin, a.pull>>)
    [] t = "SET_CHANGE_NOTIFY" -> Check(a.pin < NumPins, <<"SetChangeNotify", a.pin, a.cn>>)
    [] t = "SET_PIN_PWM" -> Check(a.pin < NumPins /\ a.pwm_num < NumPwm, <<"SetPinPwm", a.pin, a.pwm_num, a.enable>>)
    [] t = "SET_PWM_DUTY_CYCLE" -> Check(a.pwm_num < NumPwm, <<"SetPwmDutyCycle", a.pwm_num, a.dc, a.fraction>>)
    [] t = "SET_PWM_PERIOD" -> Check(a.pwm_num < NumPwm, <<"SetPwmPeriod", a.pwm_num, a.period, a.scale_l + 2 * a.scale_h>>)
    [] t = "SET_PIN_ANALOG_IN" -> Check(a.pin < NumPins, <<"SetPinAnalogIn", a.pin>>)
    [] t = "SET_ANALOG_IN_SAMPLING" -> Check(a.pin < NumPins, <<"ADCSetScan", a.pin, a.enable>>)
    [] t = "SET_PIN_CAPSENSE" -> Check(a.pin < NumPins, <<"SetPinCapSense", a.pin>>)
    [] t = "SET_CAPSENSE_SAMPLING" -> Check(a.pin < NumPins, <<"ADCSetCapSense", a.pin, a.enable>>)
    [] t = "SET_ANALOG_IN_SAMPLE_RATE" -> Check(a.samples_per_second \in 1..1000, <<"ADCSetSampleRate", a.samples_per_second>>)

\* MessageDone for UART and SPI; v holds the bytes after the struct.
SerialCall(t, a, v) ==
  CASE t = "UART_DATA" -> Check(a.uart_num < NumUart, <<"UARTTransmit", a.uart_num, SubSeq(v, 1, a.size + 1)>>)
    [] t = "UART_CONFIG" -> Check(a.uart_num < NumUart /\ a.parity < 3,
                                  <<"UARTConfig", a.uart_num, a.rate, a.speed4x, a.two_stop_bits, a.parity>>)
    [] t = "SET_PIN_UART" -> Check(a.pin < NumPins /\ a.uart_num < NumUart, <<"SetPinUart", a.pin, a.uart_num, a.dir, a.enable>>)
    [] t = "SPI_MASTER_REQUEST" ->
         LET vararg == <<a.data_size>> \o v
             total == a.total_size + 1
             data == IF a.data_size_neq_total = 1 THEN a.data_size ELSE total
             res == IF a.res_size_neq_total = 1 THEN vararg[a.data_size_neq_total + 1] ELSE total
             from == a.data_size_neq_total + a.res_size_neq_total
         IN  Check(a.spi_num < NumSpi /\ a.ss_pin < NumPins,
                   <<"SPITransmit", a.spi_num, a.ss_pin, SubSeq(vararg, from + 1, from + data), total, total - res>>)
    [] t = "SPI_CONFIGURE_MASTER" -> Check(a.spi_num < NumSpi,
         <<"SPIConfigMaster", a.spi_num, a.scale, a.div, a.smp_end, a.clk_edge, a.clk_pol>>)
    [] t = "SET_PIN_SPI" ->
         Check(/\ a.mode < 3
               /\ (a.enable = 0 /\ a.mode = 1) \/ a.pin < NumPins
               /\ (a.enable = 0 /\ a.mode # 1) \/ a.spi_num < NumSpi,
               <<"SetPinSpi", a.pin, a.spi_num, a.mode, a.enable>>)

\* MessageDone for I2C: the address as it goes on the bus.
I2cCall(t, a, v) ==
  CASE t = "I2C_CONFIGURE_MASTER" -> Check(a.i2c_num < NumI2c, <<"I2CConfigMaster", a.i2c_num, a.rate, a.smbus_levels>>)
    [] t = "I2C_WRITE_READ" ->
         Check(/\ a.i2c_num < NumI2c
               /\ a.ten_bit_addr = 0 => a.addr_msb = 0 /\ a.addr_lsb < 128 /\ a.addr_lsb \div 4 # 30,
               <<"I2CWriteRead", a.i2c_num,
                 IF a.ten_bit_addr = 1 THEN a.addr_lsb * 256 + a.addr_msb * 2 + 240 ELSE a.addr_lsb * 2,
                 v, a.read_size>>)

\* MessageDone for ICSP, input capture, the sequencer and the connection.
OtherCall(t, a, v) ==
  CASE t = "HARD_RESET" -> Check(a = <<73, 79, 73, 79>>, <<"HardReset">>)
    [] t = "CHECK_INTERFACE" -> <<"CheckInterface", a>>
    [] t = "ICSP_SIX" -> <<"ICSPSix", a.inst>>
    [] t = "ICSP_CONFIG" -> <<"ICSPConfigure", a.enable>>
    [] t = "INCAP_CONFIG" ->
         Check(/\ a.incap_num < NumIncap /\ a.mode < 6 /\ a.clock < 4
               /\ a.double_prec = 1 => a.incap_num % 2 = 0,
               <<"InCapConfig", a.incap_num, a.double_prec, a.mode, a.clock>>)
    [] t = "SET_PIN_INCAP" -> Check(a.incap_num < NumIncap /\ (a.enable = 1 => a.pin < NumPins),
                                    <<"SetPinInCap", a.pin, a.incap_num, a.enable>>)
    [] t = "SEQUENCER_CONFIGURE" -> IF a.size > 0 THEN <<"SequencerOpen", v>> ELSE <<"SequencerClose">>
    [] t = "SEQUENCER_PUSH" -> <<"SequencerPush", v, a.time>>
    [] t = "SEQUENCER_CONTROL" -> <<"SequencerCommand", a.cmd, v>>
    [] t = "SET_PRESERVE_OUTPUTS" -> <<"SetPreserveOutputs", a.preserve>>
    [] t \in {"SOFT_RESET", "ICSP_REGOUT", "ICSP_PROG_ENTER", "ICSP_PROG_EXIT", "SOFT_CLOSE", "SYNC"} -> <<t>>
    [] OTHER -> FALSE_RESULT

PinTypes == {"SET_PIN_DIGITAL_OUT", "SET_DIGITAL_OUT_LEVEL", "SET_PIN_DIGITAL_IN", "SET_CHANGE_NOTIFY", "SET_PIN_PWM",
  "SET_PWM_DUTY_CYCLE", "SET_PWM_PERIOD", "SET_PIN_ANALOG_IN", "SET_ANALOG_IN_SAMPLING", "SET_PIN_CAPSENSE",
  "SET_CAPSENSE_SAMPLING", "SET_ANALOG_IN_SAMPLE_RATE"}
SerialTypes == {"UART_DATA", "UART_CONFIG", "SET_PIN_UART", "SPI_MASTER_REQUEST", "SPI_CONFIGURE_MASTER", "SET_PIN_SPI"}

\* The call MessageDone makes; FALSE_RESULT drops the connection.
Call(t, a, v) ==
  IF t \in PinTypes THEN PinCall(t, a)
  ELSE IF t \in SerialTypes THEN SerialCall(t, a, v)
  ELSE IF t \in {"I2C_CONFIGURE_MASTER", "I2C_WRITE_READ"} THEN I2cCall(t, a, v) ELSE OtherCall(t, a, v)

\* SequencerOpen and SequencerClose leave the size of a cue for the next messages.
CueSize(t, a, v, cue) ==
  IF t = "SEQUENCER_CONFIGURE" /\ a.size > 0 THEN Configure(v) ELSE cue

MessageDone(r) ==
  LET t == MESSAGE_TYPE[r.buf[1] + 1]
      n == incoming_arg_size[r.buf[1] + 1]
      a == Overlay(r.buf)
      v == SubSeq(r.buf, n + 2, Len(r.buf))
      c == Call(t, a, v)
  IN  [r EXCEPT !.state = "WAIT_TYPE", !.remaining = 1, !.buf = <<>>, !.cue = CueSize(t, a, v, r.cue),
                !.calls = Append(@, c), !.ok = c # FALSE_RESULT]

\* The switch at the end of the loop, once the part waited for is complete.  The library writes no
\* type beyond the table, which the code does not check: the model stops there.
ChangeState(r) ==
  IF r.buf[1] >= Len(MESSAGE_TYPE) THEN [r EXCEPT !.calls = Append(@, FALSE_RESULT), !.ok = FALSE] ELSE
  LET t == MESSAGE_TYPE[r.buf[1] + 1]
      n == incoming_arg_size[r.buf[1] + 1]
      v == IncomingVarArgSize(t, Overlay(r.buf), r.cue) % 256
  IN  IF r.state = "WAIT_TYPE" /\ n > 0 THEN [r EXCEPT !.state = "WAIT_ARGS", !.remaining = n]
      ELSE IF r.state # "WAIT_VAR_ARGS" /\ v > 0 THEN [r EXCEPT !.state = "WAIT_VAR_ARGS", !.remaining = v]
      ELSE MessageDone(r)

\* The bytes of INCOMING_MESSAGE: type, the largest struct and __vabuf.
RxMsgSize == 1 + 8 + 72

\* One byte into rx_msg: the loop copies as many at once as it can, to the same end.  It does not
\* look where rx_msg ends: a byte past it has overwritten something else, and the model stops.
RxByte(r, b) ==
  IF ~r.ok THEN r
  ELSE IF Len(r.buf) = RxMsgSize THEN [r EXCEPT !.over = TRUE, !.ok = FALSE]
  ELSE LET s == [r EXCEPT !.buf = Append(@, b), !.remaining = @ - 1]
       IN  IF s.remaining = 0 THEN ChangeState(s) ELSE s

AppProtocolHandleIncoming(r, data) == FoldLeft(RxByte, r, data)

-----------------------------------------------------------------------------
(* The host: each writer with the bytes it writes and the call it is for.  *)
ToBoard(bytes, call) == [bytes |-> bytes, call |-> call, cue |-> -1]
TwoBytes(i) == <<i % 256, i \div 256>>
Flag(b, bit) == IF b = 1 THEN bit ELSE 0
Num == {0, 1}
PinNumbers == {0, NumPins - 1}
Data(n) == [i \in 1..n |-> (37 * i) % 256]

\* hardReset to setPwmPeriod, and the analog and capacitive inputs.
PinMessages ==
  {ToBoard(<<0, 73, 79, 73, 79>>, <<"HardReset">>), ToBoard(<<1>>, <<"SOFT_RESET">>), ToBoard(<<35>>, <<"SYNC">>),
   ToBoard(<<29>>, <<"SOFT_CLOSE">>), ToBoard(<<2>> \o Data(8), <<"CheckInterface", Data(8)>>)}
  \cup {ToBoard(<<36, p>>, <<"SetPreserveOutputs", p>>) : p \in Num}
  \cup {ToBoard(<<4, pin * 4 + l>>, <<"SetDigitalOutLevel", pin, l>>) : pin \in PinNumbers, l \in Num}
  \cup {ToBoard(<<3, pin * 4 + od + 2 * l>>, <<"SetPinDigitalOut", pin, l, od>>) : pin \in PinNumbers, l \in Num, od \in Num}
  \cup {ToBoard(<<5, pin * 4 + pull>>, <<"SetPinDigitalIn", pin, pull>>) : pin \in PinNumbers, pull \in 0..2}
  \cup {ToBoard(<<6, pin * 4 + cn>>, <<"SetChangeNotify", pin, cn>>) : pin \in PinNumbers, cn \in Num}
  \cup {ToBoard(<<8, pin, Flag(e, 128) + n>>, <<"SetPinPwm", pin, n, e>>) : pin \in PinNumbers, n \in {0, NumPwm - 1}, e \in Num}
  \cup {ToBoard(<<9, n * 4 + f>> \o TwoBytes(dc), <<"SetPwmDutyCycle", n, dc, f>>) : n \in {0, NumPwm - 1}, dc \in {1, 65535}, f \in 0..3}
  \cup {ToBoard(<<10, (sc \div 2) * 128 + n * 2 + (sc % 2)>> \o TwoBytes(p), <<"SetPwmPeriod", n, p, sc>>) :
          n \in {0, NumPwm - 1}, p \in {1, 65535}, sc \in 0..3}
  \cup {ToBoard(<<11, pin>>, <<"SetPinAnalogIn", pin>>) : pin \in PinNumbers}
  \cup {ToBoard(<<12, Flag(e, 128) + pin>>, <<"ADCSetScan", pin, e>>) : pin \in PinNumbers, e \in Num}
  \cup {ToBoard(<<37>> \o TwoBytes(r), <<"ADCSetSampleRate", r>>) : r \in {1, 1000}}
  \cup {ToBoard(<<30, pin>>, <<"SetPinCapSense", pin>>) : pin \in PinNumbers}
  \cup {ToBoard(<<31, pin + Flag(e, 128)>>, <<"ADCSetCapSense", pin, e>>) : pin \in PinNumbers, e \in Num}

\* setPinIncap to incapConfigure, i2cWriteRead, uartData to i2cClose, icspOpen to icspRegout.
BusMessages ==
  {ToBoard(<<28, pin, n + Flag(e, 128)>>, <<"SetPinInCap", pin, n, e>>) : pin \in PinNumbers, n \in {0, NumIncap - 1}, e \in Num}
  \cup {ToBoard(<<27, n, d * 128 + m * 8 + c>>, <<"InCapConfig", n, d, m, c>>) : n \in {0, 2}, d \in Num, m \in 0..5, c \in 0..3}
  \cup {ToBoard(<<20, (addr \div 256) * 64 + n, addr % 256, w, 5>> \o Data(w), <<"I2CWriteRead", n, addr * 2, Data(w), 5>>) :
          n \in {NumI2c - 1}, addr \in {8, 119}, w \in I2cWriteSizes}
  \cup {ToBoard(<<20, (addr \div 256) * 64 + 32 + n, addr % 256, w, 5>> \o Data(w),
            <<"I2CWriteRead", n, (addr % 256) * 256 + 240 + (addr \div 256) * 2, Data(w), 5>>) :
          n \in {0}, addr \in {0, 1023}, w \in I2cWriteSizes}
  \cup {ToBoard(<<14, n - 1 + u * 64>> \o Data(n), <<"UARTTransmit", u, Data(n)>>) : u \in {0, NumUart - 1}, n \in {1, 64}}
  \cup {ToBoard(<<13, u * 64 + 8 * s + 4 * two + p>> \o TwoBytes(r), <<"UARTConfig", u, r, s, two, p>>) :
          u \in {0, NumUart - 1}, r \in {0, 65535}, s \in Num, two \in Num, p \in 0..2}
  \cup {ToBoard(<<15, pin, Flag(e, 128) + Flag(tx, 64) + u>>, <<"SetPinUart", pin, u, tx, e>>) :
          pin \in PinNumbers, u \in {0, NumUart - 1}, tx \in Num, e \in Num}
  \cup {ToBoard(<<16, n * 32 + sd, 2 * edge + inv>>, <<"SPIConfigMaster", n, sd \div 8, sd % 8, 0, edge, inv>>) :
          n \in {0, NumSpi - 1}, sd \in {0, 1, 15, 31}, edge \in Num, inv \in Num}
  \cup {ToBoard(<<18, pin, 16 + m * 4 + n>>, <<"SetPinSpi", pin, n, m, 1>>) : pin \in PinNumbers, m \in 0..2, n \in {0, NumSpi - 1}}
  \cup {ToBoard(<<17, n * 64 + ss, Flag(IF d # t THEN 1 ELSE 0, 128) + Flag(IF r # t THEN 1 ELSE 0, 64) + t - 1>>
             \o (IF d # t THEN <<d>> ELSE <<>>) \o (IF r # t THEN <<r>> ELSE <<>>) \o Data(d),
            <<"SPITransmit", n, ss, Data(d), t, t - r>>) :
          n \in {0, NumSpi - 1}, ss \in PinNumbers, t \in {2, 64}, d \in {0, 1, 2}, r \in {0, 2}}
  \cup {ToBoard(<<19, Flag(smb, 128) + rate * 32 + n>>, <<"I2CConfigMaster", n, rate, smb>>) :
          n \in {0, NumI2c - 1}, rate \in 0..3, smb \in Num}
  \cup {ToBoard(<<26, e>>, <<"ICSPConfigure", e>>) : e \in Num}
  \cup {ToBoard(<<24>>, <<"ICSP_PROG_ENTER">>), ToBoard(<<25>>, <<"ICSP_PROG_EXIT">>), ToBoard(<<23>>, <<"ICSP_REGOUT">>)}
  \cup {ToBoard(<<22, i % 256, (i \div 256) % 256, i \div 65536>>, <<"ICSPSix", i>>) : i \in {1, 16777215}}

\* sequencerOpen to sequencerManualStop: the library knows the size of its cues.
SequencerMessages(cue) ==
  {[ToBoard(<<32, Len(c)>> \o c, <<"SequencerOpen", c>>) EXCEPT !.cue = Configure(c)] :
     c \in {<<4, 7>>, <<3, 1, 0, 17, 1, 0, 1, 0, 2, 18, 9, 9>>}}
  \cup {[ToBoard(<<32, 0>>, <<"SequencerClose">>) EXCEPT !.cue = 0]}
  \cup (IF cue = 0 THEN {} ELSE
         {ToBoard(<<33>> \o TwoBytes(d) \o Data(cue), <<"SequencerPush", Data(cue), d>>) : d \in {1, 65535}}
         \cup {ToBoard(<<34, k>>, <<"SequencerCommand", k, <<>>>>) : k \in {0, 1, 2, 4}}
         \cup {ToBoard(<<34, 3>> \o Data(cue), <<"SequencerCommand", 3, Data(cue)>>)})

\* What the host may send while a message is still on its way (a bound).
ShortMessages == {ToBoard(<<35>>, <<"SYNC">>), ToBoard(<<14, 64, 9>>, <<"UARTTransmit", 1, <<9>>>>)}

\* AppProtocolInit, for the parser.
RxInit == [state |-> "WAIT_TYPE", remaining |-> 1, buf |-> <<>>, cue |-> 0, calls |-> <<>>, ok |-> TRUE, over |-> FALSE]

HBInit ==
  /\ hMeant = <<>> /\ hHeard = TRUE /\ hCue = 0 /\ hWire = <<>>
  /\ rx = RxInit

\* A thread of the application calls the library.
HostSends ==
  /\ Len(hMeant) < 2
  /\ \E m \in SequencerMessages(hCue) \cup (IF hWire = <<>> THEN PinMessages \cup BusMessages ELSE ShortMessages) :
       /\ hMeant' = Append(hMeant, m.call)
       /\ hWire' = hWire \o m.bytes
       /\ hCue' = IF m.cue = -1 THEN hCue ELSE m.cue
  /\ UNCHANGED <<hHeard, rx>>

\* The connection hands some of the bytes to the board.
BoardReceives ==
  /\ rx.ok
  /\ \E n \in 1..Len(hWire) :
       /\ n <= MaxChunk \/ n = Len(hWire)
       /\ LET r == AppProtocolHandleIncoming(rx, SubSeq(hWire, 1, n)) IN
          /\ rx' = [r EXCEPT !.calls = <<>>]
          /\ hHeard' = (hHeard /\ IsPrefix(r.calls, hMeant))
          /\ hMeant' = SubSeq(hMeant, Len(r.calls) + 1, Len(hMeant))
       /\ hWire' = SubSeq(hWire, n + 1, Len(hWire))
  /\ UNCHANGED hCue

HBNext == HostSends \/ BoardReceives
HBSpec == HBInit /\ [][HBNext]_hbVars

-----------------------------------------------------------------------------
\* Wherever the connection cuts the stream, the board makes exactly the calls the
\* library meant, in order and with the same arguments: the packed structs,
\* incoming_arg_size and IncomingVarArgSize agree with every writer, no CHECK
\* refuses what the library may send, and a cue has the length of the
\* configuration in force when it arrives.  Over any sequence of messages, the one being
\* assembled stays within rx_msg, but for an I2C write of more bytes than fit behind its header.
BoardHearsHost ==
  /\ hHeard
  /\ rx.over => Head(hMeant)[1] = "I2CWriteRead" /\ Len(Head(hMeant)[4]) > RxMsgSize - 5
  /\ hWire = <<>> /\ ~rx.over => hMeant = <<>> /\ rx.state = "WAIT_TYPE"

\* Not so (README, section 6): the message being assembled stays within rx_msg for every write of TwiMaster.java:97, "The number
\* of bytes to write. Valid value are 0-255", that the credit of FlowControlledPacketSender lets
\* through: AppProtocolHandleIncoming copies as many bytes as write_size says.
TwiWritesFit == ~rx.over
=============================================================================
