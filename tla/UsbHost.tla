------------------------------ MODULE UsbHost ------------------------------
(***************************************************************************)
(* The state machine of the USB host, USBHostTasks of usb_host.c, and the  *)
(* client drivers it starts and stops (usb_host_android.c and              *)
(* usb_host_bluetooth.c).  Every operator is a step of the program on the  *)
(* record s that holds its variables and the interrupt enables of the USB  *)
(* module.  A control transfer is one request with an answer: UsbXfer has  *)
(* the transactions it is made of.  UsbOtg composes the steps with the     *)
(* interrupt handler, the OTG layer, cables and devices.                   *)
(***************************************************************************)
EXTENDS Integers, Sequences, FiniteSets, SequencesExt

CONSTANTS NUM_COMMAND_TRIES, NUM_ENUMERATION_TRIES,
          UhStrings   \* accessory strings, six in the code

ASSUME UhAssumption == {NUM_COMMAND_TRIES, NUM_ENUMERATION_TRIES, UhStrings} \subseteq Nat \ {0}

NoDevice == [hub |-> FALSE, drv |-> "none", acc |-> FALSE, confs |-> <<>>]
NoAndroid == [addr |-> 0, ifs |-> {}]
NoDongle == [addr |-> 0, init |-> FALSE]

\* usbHostState, usbOverrideHostState and usbDeviceInfo; t1, attIE and detIE are the enables of
\* the timer, attach and detach interrupts, irq that of all of them.
UhInit ==
  [step |-> "INITIALIZE", ph |-> 0, ovr |-> "none", cmds |-> 0, tries |-> 0, ticks |-> 0, t1 |-> FALSE, attIE |-> FALSE, detIE |-> FALSE,
   irq |-> FALSE, addr |-> 0, tok |-> 0, req |-> "none", dd |-> NoDevice, count |-> 0, cfgs |-> <<>>, node |-> 0, cur |-> 0,
   list |-> <<>>, drv |-> "none", otgDone |-> FALSE, allowHnp |-> FALSE, desc |-> 0, err |-> "none", abort |-> FALSE,
   and |-> NoAndroid, bt |-> NoDongle, btUp |-> FALSE, hnpEn |-> FALSE, hnpAct |-> FALSE, endIF |-> FALSE, resIE |-> FALSE]

-----------------------------------------------------------------------------
(* The order of the states.                                                *)

Detached == <<"INITIALIZE", "WAIT_FOR_POWER", "TURN_ON_POWER", "WAIT_FOR_DEVICE">>
Attached == <<"SETTLE", "RESET_DEVICE", "GET_DEVICE_DESCRIPTOR_SIZE", "GET_DEVICE_DESCRIPTOR", "VALIDATE_VID_PID", "SET_DEVICE_ADDRESS">>
Configuring == <<"INIT_CONFIGURATION", "GET_CONFIG_DESCRIPTOR_SIZE", "GET_CONFIG_DESCRIPTOR", "SELECT_CONFIGURATION", "ENABLE_ACCESSORY",
                 "SET_CONFIGURATION", "NORMAL_RUN">>
Steps == Detached \o Attached \o Configuring \o <<"HOLD_INIT", "HOLD">>

\* _USB_SetNextSubState and _USB_SetNextState, _USB_SetNextSubSubState and _USB_SetPreviousSubSubState
GoTo(s, step) == [s EXCEPT !.step = step, !.ph = 0]
NextStep(s) == GoTo(s, Steps[1 + CHOOSE i \in 1 .. Len(Steps) - 1 : Steps[i] = s.step])
Phase(s, d) == [s EXCEPT !.ph = @ + d]

\* _USB_SetErrorCode and _USB_SetHoldState, _USB_InitErrorCounters
HoldFor(s, e) == GoTo([s EXCEPT !.err = e], "HOLD_INIT")
Counters(s) == [s EXCEPT !.cmds = NUM_COMMAND_TRIES]

\* A countdown of the millisecond timer, and a request of the control endpoint
Wait(s) == Phase([s EXCEPT !.ticks = 1, !.t1 = TRUE], 1)
Ask(s) == Phase([s EXCEPT !.req = "busy"], 1)

\* _USB_CheckCommandAndEnumerationAttempts: the command again, the enumeration again, or the end
CheckCommand(s) ==
  CASE s.cmds # 1 -> [s EXCEPT !.cmds = @ - 1, !.ph = 0]
    [] s.cmds = 1 /\ s.tries # 1 -> GoTo([s EXCEPT !.cmds = 0, !.tries = @ - 1], "RESET_DEVICE")
    [] s.cmds = 1 /\ s.tries = 1 -> HoldFor([s EXCEPT !.cmds = 0, !.tries = 0], "CANNOT_ENUMERATE")
Answered(s, done) == IF s.req = "ok" THEN done ELSE IF s.req = "bad" THEN CheckCommand(s) ELSE s

-----------------------------------------------------------------------------
(* Client drivers.  An interface is [n, cls, eps]: its number, its class,  *)
(* and whether its endpoints are those the client wants ("ok"), others     *)
(* ("odd") or fewer than it says ("short").                                *)

\* USBHostAndroidInitInterface: the table of drivers names the interface of a class driver, a
\* device driver goes by the number, 0 or 1 (the code asserts it).
InterfaceId(s, i) == IF s.drv = "android" THEN (IF i.n = 0 THEN "acc" ELSE "adb") ELSE "adb"
\* Mutant: an interface takes the place of the one before it.
AndroidInterfaceOne(s, i) ==
  IF i.eps = "ok" THEN [s EXCEPT !.and = [addr |-> s.addr, ifs |-> {InterfaceId(s, i)}]] ELSE s
AndroidInterface(s, i) ==
  IF i.eps = "ok" THEN [s EXCEPT !.and = [addr |-> s.addr, ifs |-> @.ifs \cup {InterfaceId(s, i)}]] ELSE s

\* USBHostAndroidInitDevice
AndroidDevice(s) == FoldLeft(AndroidInterface, [s EXCEPT !.and = NoAndroid], s.list)

\* USBHostBluetoothInit keeps the address whether it finds an interface or not.
DongleFits(s) == \E j \in DOMAIN s.list : s.list[j].cls = "bt" /\ s.list[j].eps = "ok"
BluetoothInit(s) ==
  [s EXCEPT !.bt = [addr |-> s.addr, init |-> DongleFits(s)], !.btUp = @ \/ DongleFits(s)]

\* SUBSUBSTATE_INIT_CLIENT_DRIVERS: for a class driver once for every interface
InitEach(s) == FoldLeft(AndroidInterface, s, s.list)
InitClients(s) ==
  CASE s.drv = "android" -> NextStep(AndroidDevice(s))
    [] s.drv = "bt" -> IF DongleFits(s) THEN NextStep(BluetoothInit(s)) ELSE HoldFor(BluetoothInit(s), "CLIENT_INIT_ERROR")
    [] OTHER -> IF \E j \in DOMAIN s.list : s.list[j].eps # "ok" THEN HoldFor(InitEach(s), "CLIENT_INIT_ERROR") ELSE NextStep(InitEach(s))

\* EVENT_DETACH: USBHostAndroidEventHandler and USBHostBluetoothEventHandler, which tells the stack
AndroidDetach(s) == IF s.and.addr = s.addr THEN [s EXCEPT !.and = NoAndroid] ELSE s
BluetoothDetach(s) == IF s.bt.addr = s.addr THEN [s EXCEPT !.bt = NoDongle, !.btUp = FALSE] ELSE s

\* _USB_NotifyClients(EVENT_DETACH) goes through the interfaces.
NotifyClients(s) ==
  IF s.list = <<>> THEN s ELSE IF s.drv = "bt" THEN BluetoothDetach(s) ELSE AndroidDetach(s)

-----------------------------------------------------------------------------
(* Starting over.                                                          *)

\* The descriptors of the device and the interfaces of its configuration
FreeConfigMemory(s) == [s EXCEPT !.list = <<>>]
FreeMemory(s) == FreeConfigMemory([s EXCEPT !.cfgs = <<>>, !.dd = NoDevice])

\* USBHostShutdown and USBHostInit, which frees all this and drops a pending change of state.
Shutdown(s) ==
  [FreeMemory(IF ~s.hnpAct /\ s.addr # 0 THEN NotifyClients(s) ELSE s) EXCEPT !.ovr = "none", !.tok = 0, !.addr = 0]

\* U1IE = 0, U1OTGIE &= 0x8C, U1OTGIR = 0x7D
MaskInterrupts(s) == [s EXCEPT !.attIE = FALSE, !.detIE = FALSE, !.resIE = FALSE, !.t1 = FALSE, !.endIF = FALSE]

Initialize(s) ==
  NextStep(GoTo(MaskInterrupts([Shutdown(s) EXCEPT !.req = "none", !.tries = NUM_ENUMERATION_TRIES, !.cur = 0, !.drv = "none",
                                                   !.otgDone = FALSE, !.allowHnp = FALSE]), "INITIALIZE"))

\* USBHostResetDevice, for the client at address a
ResetDevice(s, a) == IF a # s.addr \/ s.step \in Range(Detached) THEN s ELSE GoTo(s, "INITIALIZE")

-----------------------------------------------------------------------------
(* A device is reset and described.  mem says whether there is memory.     *)

Settle(s) == CASE s.ph = 0 -> Wait([s EXCEPT !.detIE = TRUE]) [] s.ph = 1 -> s [] OTHER -> NextStep(s)

Reset(s, mem) ==
  CASE s.ph = 0 -> IF ~mem THEN HoldFor(s, "OUT_OF_MEMORY")
                   ELSE Wait(Counters([s EXCEPT !.cur = 0, !.drv = "none", !.otgDone = FALSE, !.allowHnp = FALSE, !.tok = 0,
                                                !.hnpEn = FALSE, !.hnpAct = FALSE]))
    [] s.ph = 2 -> Wait(s)
    [] s.ph = 4 -> NextStep([s EXCEPT !.attIE = FALSE, !.detIE = TRUE])
    [] OTHER -> s

DescriptorSize(s, mem) ==
  CASE s.ph = 0 -> Ask(s)
    [] s.ph = 1 -> Answered(s, IF s.dd.hub THEN HoldFor(s, "UNSUPPORTED_HUB") ELSE Phase(s, 1))
    [] OTHER -> IF mem THEN NextStep(Counters(s)) ELSE HoldFor(s, "OUT_OF_MEMORY")

Descriptor(s) == CASE s.ph = 0 -> Ask(s) [] s.ph = 1 -> Answered(s, Phase(s, 1)) [] OTHER -> NextStep(Counters(s))

\* _USB_FindDeviceLevelClientDriver: dd.drv stands for the class, the vendor and the product.
FindDeviceLevelClientDriver(s) == [s EXCEPT !.drv = s.dd.drv]

SetAddress(s) ==
  CASE s.ph = 0 -> Ask([s EXCEPT !.addr = 1])
    [] s.ph = 1 -> Answered(s, Phase(s, 1))
    [] OTHER -> NextStep(Counters([s EXCEPT !.tok = s.addr]))

\* Configurations are read from the last to the first: the list has the first in front.
InitConfiguration(s) == NextStep([s EXCEPT !.count = Len(s.dd.confs), !.cfgs = <<>>])

ConfigSize(s, mem) ==
  CASE s.ph = 0 -> Ask(s)
    [] s.ph = 1 -> Answered(s, Phase(s, 1))
    [] OTHER -> IF ~mem THEN HoldFor(s, "OUT_OF_MEMORY")
                ELSE NextStep(Counters([s EXCEPT !.cfgs = <<[no |-> s.count, otg |-> "none", ifs |-> <<>>]>> \o @]))

Config(s) ==
  CASE s.ph = 0 -> Ask(s)
    [] s.ph = 1 -> Answered(s, Phase(s, 1))
    [] OTHER -> IF s.count # 1 THEN GoTo(Counters([s EXCEPT !.count = @ - 1]), "GET_CONFIG_DESCRIPTOR_SIZE")
                ELSE NextStep(Counters([s EXCEPT !.count = 0]))

-----------------------------------------------------------------------------
(* A configuration is chosen.                                              *)

\* _USB_FindClassDriver
FindClassDriver(i) == i.cls = "adb"

\* _USB_ParseConfigurationDescriptor: interfaces go to the front of the list.  An interface with
\* too few endpoints, no interface or no memory is an error.
Supported(s, c) == Reverse(IF s.drv # "none" THEN c.ifs ELSE SelectSeq(c.ifs, FindClassDriver))
Parses(s, c, mem) == mem /\ Supported(s, c) # <<>> /\ \A j \in DOMAIN Supported(s, c) : Supported(s, c)[j].eps # "short"

\* Which of the list: the first that parses, or the one selected before.  The flags are those of
\* the last one looked at; otg is the OTG descriptor of a configuration.
Candidates(s) == {i \in DOMAIN s.cfgs : s.cur = 0 \/ s.cfgs[i].no = s.cur}
Fitting(s, mem) == {i \in Candidates(s) : Parses(s, s.cfgs[i], mem)}
Looked(s, c) == [s EXCEPT !.otgDone = c.otg # "hnp", !.allowHnp = c.otg # "srp"]
Chosen(s, c) == [Looked(s, c) EXCEPT !.node = c.no, !.cur = c.no, !.list = Supported(s, c)]
Select(s, fit) ==
  IF fit = {} THEN [Looked(s, s.cfgs[Max(Candidates(s))]) EXCEPT !.node = 0, !.list = <<>>] ELSE Chosen(s, s.cfgs[Min(fit)])
Selected(s) == IF s.otgDone /\ s.node = 0 THEN NextStep(s) ELSE Phase(s, 1)

\* SUBSTATE_SELECT_CONFIGURATION with the SET FEATURE for an OTG device
SelectConfiguration(s, mem) ==
  CASE s.ph = 0 -> Selected(Select(s, Fitting(s, mem)))
    [] s.ph = 1 -> IF s.otgDone THEN NextStep(s) ELSE Ask([s EXCEPT !.otgDone = TRUE])
    [] s.ph = 2 -> Answered([s EXCEPT !.hnpEn = IF s.req = "bad" THEN FALSE ELSE @],
                            Phase([s EXCEPT !.hnpEn = @ \/ s.allowHnp], 1))
    [] OTHER -> NextStep(Counters(s))

\* The last resort: start the device as an accessory.  dd.acc is its answer to GET_PROTOCOL.
Either(s, ok) == IF s.req = "ok" THEN ok ELSE IF s.req = "bad" THEN NextStep(s) ELSE s
EnableAccessory(s) ==
  IF s.node # 0 THEN NextStep(s)
  ELSE CASE s.ph \in {0, 2, 4} -> Ask(s)
         [] s.ph = 1 -> Either(s, IF s.dd.acc THEN Phase([s EXCEPT !.desc = 0], 1) ELSE NextStep(s))
         [] s.ph = 3 -> Either(s, Phase([s EXCEPT !.desc = @ + 1], IF s.desc + 1 = UhStrings THEN 1 ELSE -1))
         [] OTHER -> Either(s, GoTo(s, "HOLD_INIT"))

SetConfiguration(s) ==
  IF s.node = 0 THEN HoldFor(s, "UNSUPPORTED_DEVICE")
  ELSE CASE s.ph = 0 -> Ask(s)
         [] s.ph = 1 -> Answered(s, Phase(s, 1))
         [] s.ph = 2 -> Phase(Counters(s), 1)
         [] OTHER -> InitClients(s)

\* SUBSTATE_HOLD_INIT: OTG_EVENT_HNP_ABORT is for the OTG layer, which abort asks for.
HoldInit(s) == NextStep([MaskInterrupts(s) EXCEPT !.detIE = TRUE, !.abort = s.err = "UNSUPPORTED_DEVICE"])

-----------------------------------------------------------------------------
(* USBHostTasks                                                            *)

Overridden(s) == IF s.ovr = "none" THEN s ELSE GoTo([s EXCEPT !.ovr = "none"], s.ovr)

HostStep(s, mem) ==
  CASE s.step = "INITIALIZE" -> Initialize(s)
    [] s.step = "WAIT_FOR_POWER" -> NextStep(s)
    [] s.step = "TURN_ON_POWER" -> NextStep([s EXCEPT !.irq = TRUE, !.attIE = TRUE])
    [] s.step = "WAIT_FOR_DEVICE" -> [s EXCEPT !.attIE = TRUE]
    [] s.step = "SETTLE" -> Settle(s)
    [] s.step = "RESET_DEVICE" -> Reset(s, mem)
    [] s.step = "GET_DEVICE_DESCRIPTOR_SIZE" -> DescriptorSize(s, mem)
    [] s.step = "GET_DEVICE_DESCRIPTOR" -> Descriptor(s)
    [] s.step = "VALIDATE_VID_PID" -> NextStep(FindDeviceLevelClientDriver(s))
    [] s.step = "SET_DEVICE_ADDRESS" -> SetAddress(s)
    [] s.step = "INIT_CONFIGURATION" -> InitConfiguration(s)
    [] s.step = "GET_CONFIG_DESCRIPTOR_SIZE" -> ConfigSize(s, mem)
    [] s.step = "GET_CONFIG_DESCRIPTOR" -> Config(s)
    [] s.step = "SELECT_CONFIGURATION" -> SelectConfiguration(s, mem)
    [] s.step = "ENABLE_ACCESSORY" -> EnableAccessory(s)
    [] s.step = "SET_CONFIGURATION" -> SetConfiguration(s)
    [] s.step = "HOLD_INIT" -> HoldInit(s)
    [] OTHER -> s

\* The steps that allocate memory
Allocates(s) == s.step \in {"RESET_DEVICE", "GET_DEVICE_DESCRIPTOR_SIZE", "GET_CONFIG_DESCRIPTOR_SIZE", "SELECT_CONFIGURATION"}
=============================================================================
