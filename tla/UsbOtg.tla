------------------------------- MODULE UsbOtg -------------------------------
(***************************************************************************)
(* The OTG layer (usb_otg.c) over the host's state machine, the parts of   *)
(* the interrupt handler and of USBDeviceTasks that change roles, and      *)
(* USBTasks (libusb/usb.c), which runs one stack or the other.  Around     *)
(* them: a micro-AB socket with a cable and a device or a computer.        *)
(*                                                                         *)
(* Hardware, as the code uses it: the attach interrupt is raised while the *)
(* other side pulls D+ up and the detach interrupt while it does not; the  *)
(* ID pin keeps a flag; a device that loses VBUS forgets its address.  A   *)
(* countdown of any length is one tick.                                    *)
(***************************************************************************)
EXTENDS UsbHost

CONSTANTS UoDevices,   \* devices that may be plugged in
          UoAccessory, \* what a phone becomes when it is started as an accessory
          UoBudgets    \* bounds: plugs, faults of requests, failed allocations, moves of HNP and SRP, resets by the application

ASSUME UoAssumption == UoBudgets \subseteq [{"plug", "fault", "oom", "otg", "app"} -> Nat]

VARIABLES uo,      \* the firmware: UsbHost's record with the fields of OtgFields
          uoBus,   \* the cable and what is at its end
          uoLeft   \* what is left of one of UoBudgets

uoVars == <<uo, uoBus, uoLeft>>

\* Role and flags of usb_otg.c, VBUS, the enables of its interrupts, USBDeviceState, and the flags
\* of a reset and of an idle bus
OtgFields ==
  [role |-> "HOST", dflt |-> "HOST", vbus |-> FALSE, hnpTo |-> FALSE, srpTo |-> FALSE, srpReady |-> FALSE, srpAct |-> FALSE,
   svdIE |-> FALSE, dev |-> "DETACHED", rstIF |-> FALSE, idleIF |-> FALSE]

\* A device is on the A side of a cable, a computer on the B side.  on: it is there, or ("soon")
\* about to come back; da is its address; peer: whether it acts as a device or as a host; bad: requests
\* that have failed since it is there, up to as many as an enumeration is tried.
NoPlug == [cable |-> "none", dev |-> NoDevice, on |-> "no", da |-> 0, peer |-> "dev", idIF |-> FALSE, bad |-> 0]
Hurt(b) == [b EXCEPT !.bad = Min({@ + 1, NUM_ENUMERATION_TRIES})]

-----------------------------------------------------------------------------
(* Flags and timers.                                                       *)

\* USBOTGCurrentRoleIs and USBOTGDefaultRoleIs
ActsAsHost(s) == s.role = "HOST"
OnSideA(s) == s.dflt = "HOST"

\* Whether HNP may take place, and whether it does
HnpIsEnabled(s) == s.hnpEn
HnpIsActive(s) == s.hnpAct
EnableHnp(s) == [s EXCEPT !.hnpEn = TRUE]
DisableHnp(s) == [s EXCEPT !.hnpEn = FALSE]
ActivateHnp(s) == [s EXCEPT !.hnpAct = TRUE]
DeactivateHnp(s) == [s EXCEPT !.hnpAct = FALSE]
NoHnp(s) == DeactivateHnp(DisableHnp(s))
\* Between the pulse of D+ and that of VBUS
SrpIsActive(s) == s.srpAct
ActivateSrp(s) == [s EXCEPT !.srpAct = TRUE]
DeactivateSrp(s) == [s EXCEPT !.srpAct = FALSE]

\* The waits: for the other side to connect after SRP, and to answer HNP.  The counts of milliseconds are left out: a
\* tick that does not end one changes nothing.
SrpIsReady(s) == s.srpReady
SrpTimeOutFlag(s) == s.srpTo
HnpTimeOutFlag(s) == s.hnpTo
ClearSrpTimeOut(s) == [s EXCEPT !.srpTo = FALSE]
ClearSrpReady(s) == [s EXCEPT !.srpReady = FALSE]
NoTimeouts(s) == [s EXCEPT !.t1 = FALSE, !.hnpTo = FALSE, !.srpTo = FALSE, !.srpReady = FALSE]
HnpTimer(s) == [s EXCEPT !.hnpTo = TRUE, !.t1 = TRUE]
SrpTimer(s) == [s EXCEPT !.srpTo = TRUE, !.t1 = TRUE]
HnpTimeOutExpired(s) == [s EXCEPT !.hnpTo = FALSE, !.t1 = FALSE]
SrpTimeOutExpired(s) == [s EXCEPT !.srpTo = FALSE, !.t1 = FALSE]
DisableInterrupts(s) == [MaskInterrupts(s) EXCEPT !.irq = FALSE, !.rstIF = FALSE, !.idleIF = FALSE]

\* USB_BUS_SENSE and USBOTGGetSessionStatus: VBUS, of the board or of the computer
Sense(s, b) == s.vbus \/ (b.cable = "B" /\ b.on = "yes")

-----------------------------------------------------------------------------
(* The two stacks.                                                         *)

\* USBOTGSession: VBUS is turned on, and off again when it does not rise because the device takes too much.
StartSession(s, b) == [s EXCEPT !.vbus = b.dev.drv # "heavy"]
EndSession(s) == [s EXCEPT !.vbus = FALSE]

\* The other side has connected in time, and the wait of SRP is over; or it has not.
OnSrpConnect(s) == IF SrpIsReady(s) THEN ClearSrpReady(ClearSrpTimeOut(s)) ELSE s
OnSrpFailed(s) == IF OnSideA(s) THEN EndSession(ClearSrpReady(s)) ELSE ClearSrpReady(s)

\* USBDeviceTasks as far as the bus is sensed: without VBUS the device is detached.
DeviceSense(s, b) ==
  IF ~Sense(s, b) THEN NoHnp([s EXCEPT !.dev = "DETACHED"])
  ELSE [OnSrpConnect(s) EXCEPT !.dev = IF @ \in {"DETACHED", "ATTACHED"} THEN "POWERED" ELSE @]

\* USBOTGInitializeDeviceStack, with USBDeviceInit and a first USBDeviceTasks
InitializeDeviceStack(s, b) ==
  NoHnp(DeviceSense([NoTimeouts(DisableInterrupts(s)) EXCEPT !.role = "DEVICE", !.dev = "DETACHED"], b))

\* USBOTGInitializeHostStack: on the B side the host goes through its first states at once.
Override(s, step) == HostStep(Overridden([s EXCEPT !.ovr = step]), TRUE)
AtOnce(s) == IF OnSideA(s) THEN s ELSE Override(Override(s, "TURN_ON_POWER"), "RESET_DEVICE")
InitializeHostStack(s) == NoHnp(AtOnce(Override([NoTimeouts(s) EXCEPT !.role = "HOST"], "INITIALIZE")))

\* USBOTGInitialize
PowerOff(s) == NoHnp([NoTimeouts(s) EXCEPT !.vbus = FALSE, !.endIF = FALSE])
OtgInitialize(s, b) ==
  IF b.cable = "A" THEN StartSession(InitializeHostStack([PowerOff(s) EXCEPT !.dflt = "HOST"]), b)
  ELSE InitializeDeviceStack([PowerOff(s) EXCEPT !.dflt = "DEVICE"], b)

-----------------------------------------------------------------------------
(* USBOTGSelectRole and the events of USB_OTGEventHandler.                 *)

SelectDevice(s, b) ==
  IF HnpIsEnabled(s) /\ ActsAsHost(s) /\ Sense(s, b)
  THEN LET t == DisableInterrupts(s)
           u == IF OnSideA(s) THEN [HnpTimer(t) EXCEPT !.resIE = TRUE] ELSE t
       IN [ActivateHnp(u) EXCEPT !.detIE = TRUE, !.irq = TRUE, !.ovr = "SUSPEND"]
  ELSE s

SelectHost(s) ==
  CASE HnpIsEnabled(s) /\ ~ActsAsHost(s) /\ ~OnSideA(s) ->
         [ActivateHnp(HnpTimer(DisableInterrupts(s))) EXCEPT !.attIE = TRUE, !.irq = TRUE]
    [] ~ActsAsHost(s) /\ OnSideA(s) -> InitializeHostStack(DisableInterrupts(s))
    [] OTHER -> s

OnConnect(s) == IF ~ActsAsHost(s) /\ HnpIsActive(s) THEN InitializeHostStack(s) ELSE s
OnDisconnect(s, b) == IF ActsAsHost(s) /\ HnpIsActive(s) THEN InitializeDeviceStack(s, b) ELSE s
OnHnpAbort(s, b) ==
  IF ~HnpIsEnabled(s) THEN s ELSE IF OnSideA(s) THEN SelectDevice(s, b) ELSE InitializeDeviceStack(s, b)
OnHnpFailed(s, b) ==
  IF OnSideA(s) THEN EndSession(InitializeHostStack(s)) ELSE InitializeDeviceStack(s, b)
OnSrpDplusHigh(s, b, full) ==
  IF OnSideA(s) /\ ~Sense(s, b) THEN (IF full THEN [ActivateSrp(s) EXCEPT !.svdIE = TRUE] ELSE DeactivateSrp(s)) ELSE s
OnSrpVbusLow(s, b) ==
  IF SrpIsActive(s) THEN StartSession([SrpTimer(DeactivateSrp(s)) EXCEPT !.svdIE = FALSE, !.srpReady = TRUE], b) ELSE s
OnResume(s) == [DeactivateHnp(NoTimeouts(s)) EXCEPT !.ovr = "RESET_DEVICE", !.resIE = FALSE]

-----------------------------------------------------------------------------
(* The interrupt handler (_USB1Interrupt) outside transfers.               *)

TimerInterrupt(s, b) ==
  CASE SrpTimeOutFlag(s) -> OnSrpFailed(SrpTimeOutExpired(s))
    [] ~SrpTimeOutFlag(s) /\ HnpTimeOutFlag(s) -> OnHnpFailed(HnpTimeOutExpired(s), b)
    [] ~SrpTimeOutFlag(s) /\ ~HnpTimeOutFlag(s) /\ s.ticks # 0 -> Phase([s EXCEPT !.ticks = 0, !.t1 = FALSE], 1)
    [] OTHER -> s

\* full: D+ is up and stable
AttachInterrupt(s, b, full) ==
  OnSrpConnect(OnSrpDplusHigh(OnConnect([s EXCEPT !.attIE = FALSE, !.ovr = IF s.step = "WAIT_FOR_DEVICE" THEN "SETTLE" ELSE @]), b, full))

\* Mutant: the handler does not leave a note for USBHostTasks.
DetachInterruptDropped(s, b) == DisableHnp(OnDisconnect([s EXCEPT !.detIE = FALSE], b))

DetachInterrupt(s, b) == DisableHnp(OnDisconnect([s EXCEPT !.detIE = FALSE, !.ovr = "INITIALIZE"], b))

SessionEndInterrupt(s, b) ==
  IF b.cable # "A" /\ ActsAsHost(s) THEN OtgInitialize(s, b) ELSE [s EXCEPT !.endIF = FALSE]
SessionValidInterrupt(s, b) == IF OnSideA(s) /\ SrpIsActive(s) THEN OnSrpVbusLow(s, b) ELSE s

\* One call of the handler sees to all flags that are set, in this order: f is what the hardware tells, whether a
\* millisecond has passed that ends a wait, D+ is up and stable, a pulse of VBUS is over, and the bus is resumed.
Flags(tick, up) == [tick |-> tick, up |-> up, full |-> TRUE, pulse |-> FALSE, resume |-> FALSE]
TimerFlag(s, b, f) == IF f.tick /\ s.t1 THEN TimerInterrupt(s, b) ELSE s
AttachFlag(s, b, f) == IF f.up /\ s.attIE THEN AttachInterrupt(s, b, f.full) ELSE s
DetachFlag(s, b, f) == IF ~f.up /\ s.detIE THEN DetachInterrupt(s, b) ELSE s
IdFlag(s, b) == IF b.idIF THEN OtgInitialize(s, b) ELSE s
SessionEndFlag(s, b) == IF s.endIF THEN SessionEndInterrupt(s, b) ELSE s
SessionValidFlag(s, b, f) == IF f.pulse /\ s.svdIE THEN SessionValidInterrupt(s, b) ELSE s
ResumeFlag(s, f) == IF f.resume /\ s.resIE THEN OnResume(s) ELSE s
USB1Interrupt(s, b, f) ==
  ResumeFlag(SessionValidFlag(SessionEndFlag(IdFlag(DetachFlag(AttachFlag(TimerFlag(s, b, f), b, f), b, f), b), b), b, f), f)

-----------------------------------------------------------------------------
(* USBTasks                                                                *)

\* USBDeviceTasks as far as it is about roles: the wait of SRP, the bus, the ID pin, a reset by the host and an idle bus
SrpTick(s) == IF SrpIsReady(s) /\ s.t1 /\ SrpTimeOutFlag(s) THEN OnSrpFailed(SrpTimeOutExpired(s)) ELSE s
BusReset(s) == IF s.rstIF THEN NoHnp([s EXCEPT !.dev = "DEFAULT", !.rstIF = FALSE]) ELSE s
IdleNoticed(s) == IF s.idleIF THEN SelectHost([s EXCEPT !.idleIF = FALSE]) ELSE s
Sensed(s, sense) == IF sense THEN IdleNoticed(BusReset(s)) ELSE s
DeviceTasks(s, b) == Sensed(IdFlag(DeviceSense(SrpTick(s), b), b), Sense(SrpTick(s), b))

\* USBStdFeatureReqHandler for OTG_FEATURE_B_HNP_ENABLE
HnpFeature(s, set) == IF set THEN EnableHnp(s) ELSE DisableHnp(s)

Aborted(s, b) == IF s.abort THEN OnHnpAbort([s EXCEPT !.abort = FALSE], b) ELSE s
HostTasks(s, b, mem) == Aborted(HostStep(Overridden(s), mem), b)

HostRole(s, b, mem) == IF ActsAsHost(s) THEN HostTasks(s, b, mem) ELSE s
UsbTasks(s, b, mem) ==
  IF HnpIsActive(s) THEN s ELSE HostRole(IF ActsAsHost(s) THEN s ELSE DeviceTasks(s, b), b, mem)

-----------------------------------------------------------------------------
(* Actions of the firmware.                                                *)

SpendUo(what) == uoLeft[what] > 0 /\ uoLeft' = [uoLeft EXCEPT ![what] = @ - 1]

\* What a step does to the other end: a device that loses VBUS, or whose bus is reset, is at address 0.
Effect(t, b, off) ==
  LET lost == b.cable = "A" /\ (off \/ ~t.vbus)
      reset == t.step = "RESET_DEVICE" /\ t.ph = 1
  IN [b EXCEPT !.da = IF lost \/ reset THEN 0 ELSE @, !.peer = IF lost THEN "dev" ELSE @]
Does(t) == uo' = t /\ uoBus' = Effect(t, uoBus, FALSE)
Reinitializes(t) == uo' = t /\ uoBus' = [Effect(t, uoBus, TRUE) EXCEPT !.idIF = FALSE]

Runs(t) == IF uo.role = "DEVICE" /\ ~uo.hnpAct /\ uoBus.idIF THEN Reinitializes(t) ELSE t # uo /\ Does(t)
Tasks == Runs(UsbTasks(uo, uoBus, TRUE)) /\ UNCHANGED uoLeft
TasksOutOfMemory ==
  /\ ~uo.hnpAct /\ uo.role = "HOST" /\ Allocates(Overridden(uo)) /\ SpendUo("oom")
  /\ HostTasks(uo, uoBus, FALSE) # HostTasks(uo, uoBus, TRUE) 
  /\ uo' = HostTasks(uo, uoBus, FALSE) /\ uoBus' = [Effect(uo', uoBus, FALSE) EXCEPT !.bad = NUM_ENUMERATION_TRIES]

\* The other side pulls D+ up.
PulledUp == uoBus.on = "yes" /\ uoBus.peer = "dev" /\ uoBus.dev.drv # "heavy" /\ (uoBus.cable = "A" => uo.vbus)

InterruptDoes(t) == IF uoBus.idIF THEN Reinitializes(t) ELSE t # uo /\ Does(t)
Interrupted(f) == uo.irq /\ InterruptDoes(USB1Interrupt(uo, uoBus, f))
Interrupt == \E tick \in BOOLEAN : Interrupted(Flags(tick, PulledUp)) /\ UNCHANGED uoLeft

\* USBHostAndroidReset, which the accessory connection calls when a write has failed
AndroidReset ==
  /\ uo.and.addr # 0 /\ SpendUo("app")
  /\ Does([ResetDevice(uo, uo.and.addr) EXCEPT !.and = NoAndroid])

-----------------------------------------------------------------------------
(* A request is answered.  A failed one may have been carried out.         *)

Reads(s, d) ==
  CASE s.step \in {"GET_DEVICE_DESCRIPTOR_SIZE", "GET_DEVICE_DESCRIPTOR"} -> [s EXCEPT !.dd = d]
    [] s.step = "GET_CONFIG_DESCRIPTOR" -> [s EXCEPT !.cfgs[1] = d.confs[s.count] @@ [no |-> s.count]]
    [] OTHER -> s
Obeys(s, b) ==
  CASE s.step = "SET_DEVICE_ADDRESS" -> [b EXCEPT !.da = 1]
    [] s.step = "ENABLE_ACCESSORY" /\ s.ph = 5 -> [b EXCEPT !.on = "soon", !.dev = UoAccessory]
    [] OTHER -> b

Hears == PulledUp /\ uoBus.da = uo.tok
RequestAnswered ==
  /\ uo.req = "busy" /\ Hears
  /\ uo' = [Reads(uo, uoBus.dev) EXCEPT !.req = "ok"] /\ uoBus' = Obeys(uo, uoBus) /\ UNCHANGED uoLeft
RequestUnheard == uo.req = "busy" /\ ~Hears /\ uo' = [uo EXCEPT !.req = "bad"] /\ UNCHANGED <<uoBus, uoLeft>>
RequestFails ==
  /\ uo.req = "busy" /\ Hears /\ uo' = [uo EXCEPT !.req = "bad"] /\ uoBus' \in {Hurt(uoBus), Hurt(Obeys(uo, uoBus))} /\ SpendUo("fault")

-----------------------------------------------------------------------------
(* Cables, devices and computers.                                          *)

\* The interrupt handler runs long before something else can be plugged in.
Noticed == uo.irq => ~uo.detIE /\ ~uoBus.idIF /\ ~uo.endIF

PlugA(d) ==
  /\ uoBus.cable = "none" /\ Noticed /\ SpendUo("plug") /\ UNCHANGED uo
  /\ uoBus' = [NoPlug EXCEPT !.cable = "A", !.dev = d, !.on = "yes", !.idIF = TRUE]
PlugB ==
  /\ uoBus.cable = "none" /\ Noticed /\ SpendUo("plug") /\ UNCHANGED uo
  /\ uoBus' = [NoPlug EXCEPT !.cable = "B", !.on = "yes", !.peer = "host", !.idIF = uoBus.idIF]
DeviceArrives(d) ==
  /\ uoBus.cable = "A" /\ uoBus.on = "no" /\ Noticed /\ SpendUo("plug") /\ UNCHANGED uo
  /\ uoBus' = [uoBus EXCEPT !.dev = d, !.on = "yes", !.da = 0, !.peer = "dev", !.bad = 0]
DeviceLeaves ==
  /\ uoBus.cable = "A" /\ uoBus.on = "yes" /\ UNCHANGED <<uo, uoLeft>>
  /\ uoBus' = [uoBus EXCEPT !.on = "no", !.da = 0, !.dev = NoDevice, !.bad = 0]
AccessoryReturns == uoBus.on = "soon" /\ Noticed /\ uoBus' = [uoBus EXCEPT !.on = "yes", !.da = 0, !.bad = 0] /\ UNCHANGED <<uo, uoLeft>>
CableLeaves ==
  /\ uoBus.cable # "none" /\ UNCHANGED uoLeft
  /\ uoBus' = [NoPlug EXCEPT !.idIF = uoBus.cable = "A" \/ uoBus.idIF]
  /\ uo' = [uo EXCEPT !.endIF = TRUE]

\* The other side answers the offer of the bus, or takes it back.
PeerTakesBus == uo.role = "HOST" /\ uo.hnpAct /\ PulledUp /\ SpendUo("otg") /\ uoBus' = [uoBus EXCEPT !.peer = "host"] /\ UNCHANGED uo
PeerResumes == uo.resIE /\ PulledUp /\ SpendUo("otg") /\ Interrupted([Flags(FALSE, TRUE) EXCEPT !.resume = TRUE])
PeerGivesUp ==
  /\ uo.role = "DEVICE" /\ uo.hnpAct /\ uoBus.cable = "B" /\ uoBus.peer = "host" /\ SpendUo("otg")
  /\ \E d \in UoDevices : uoBus' = [uoBus EXCEPT !.peer = "dev", !.dev = d]
  /\ UNCHANGED uo

\* The board as a device: the host resets it, lets it become host, and leaves the bus idle.
Hosted == uo.role = "DEVICE" /\ ~uo.hnpAct /\ uoBus.on = "yes" /\ uoBus.peer = "host"
HostResets == Hosted /\ uo.dev = "POWERED" /\ ~uo.rstIF /\ uo' = [uo EXCEPT !.rstIF = TRUE] /\ UNCHANGED <<uoBus, uoLeft>>
HostSetsHnp ==
  /\ Hosted /\ uo.dev = "DEFAULT" /\ SpendUo("otg") /\ UNCHANGED uoBus
  /\ \E set \in BOOLEAN : uo' = HnpFeature(uo, set) /\ uo' # uo
BusIdle ==
  /\ uo.role = "DEVICE" /\ ~uo.hnpAct /\ uo.dev # "DETACHED" /\ ~uo.idleIF
  /\ uo' = [uo EXCEPT !.idleIF = TRUE]
  /\ \/ uoBus.cable = "A" /\ uoBus' = [uoBus EXCEPT !.peer = "dev"] /\ UNCHANGED uoLeft
     \/ uoBus.cable = "B" /\ SpendUo("otg") /\ UNCHANGED uoBus

\* Session request: a device without VBUS pulses D+ and then VBUS.
DevicePulses ==
  /\ uoBus.cable = "A" /\ uoBus.on = "yes" /\ ~uo.vbus /\ uo.attIE /\ SpendUo("otg")
  /\ \E full \in BOOLEAN : Interrupted([Flags(FALSE, TRUE) EXCEPT !.full = full])
VbusPulses ==
  /\ uoBus.cable = "A" /\ uoBus.on = "yes" /\ ~uo.vbus /\ uo.svdIE /\ UNCHANGED uoLeft
  /\ Interrupted([Flags(FALSE, FALSE) EXCEPT !.pulse = TRUE])

-----------------------------------------------------------------------------
UoInit == uoBus = NoPlug /\ uo = OtgInitialize(UhInit @@ OtgFields, NoPlug) /\ uoLeft \in UoBudgets

UoFirmware == Tasks \/ TasksOutOfMemory \/ Interrupt \/ AndroidReset
UoRequests == RequestAnswered \/ RequestUnheard \/ RequestFails
UoPlugs ==
  \/ \E d \in UoDevices : PlugA(d) \/ DeviceArrives(d)
  \/ PlugB \/ DeviceLeaves \/ AccessoryReturns \/ CableLeaves
UoPeer ==
  PeerTakesBus \/ PeerResumes \/ PeerGivesUp \/ HostResets \/ HostSetsHnp \/ BusIdle \/ DevicePulses \/ VbusPulses
UoNext == UoFirmware \/ UoRequests \/ UoPlugs \/ UoPeer

-----------------------------------------------------------------------------
(* Nothing is left to do for the firmware, nor for the bus.                *)
UoSettled ==
  /\ UsbTasks(uo, uoBus, TRUE) = uo /\ uo.req # "busy" /\ uoBus.on # "soon"
  /\ uo.irq => ~uoBus.idIF /\ USB1Interrupt(uo, uoBus, Flags(TRUE, PulledUp)) = uo
  /\ ~(uo.role = "DEVICE" /\ uoBus.cable = "A" /\ uoBus.peer = "dev")

\* The interfaces of the first configuration that fits are what the clients serve.
Offered(d) ==
  LET fit(c) == IF d.drv # "none" THEN c.ifs ELSE SelectSeq(c.ifs, FindClassDriver)
      i == CHOOSE n \in DOMAIN d.confs : fit(d.confs[n]) # <<>> /\ \A m \in 1 .. n - 1 : fit(d.confs[m]) = <<>>
  IN {fit(d.confs[i])[j].n : j \in DOMAIN fit(d.confs[i])}

\* A client wants the device: the first configuration that parses has the interfaces it asks for.
Wanted(d) ==
  LET c == SelectSeq(d.confs, LAMBDA x : Parses(d, x, TRUE))
  IN /\ ~d.hub /\ c # <<>>
     /\ CASE d.drv = "android" -> TRUE
          [] d.drv = "bt" -> \E j \in DOMAIN c[1].ifs : c[1].ifs[j].cls = "bt" /\ c[1].ifs[j].eps = "ok"
          [] OTHER -> \A j \in DOMAIN Supported(d, c[1]) : Supported(d, c[1])[j].eps = "ok"

\* When everything has settled nobody waits for the bus any more; with an A plug the board is host,
\* serves no device that is gone and runs the one there is.  It holds back from a device only if
\* no client wants it and it is no accessory, or after failures: one request that fails
\* never keeps out a device a client wants.  Without a cable it is a detached device, or still the
\* host of the bus a computer had handed over.
UoServed ==
  UoSettled =>
    /\ ~uo.hnpAct
    /\ uoBus.cable = "none" => IF uo.role = "DEVICE" THEN uo.dev = "DETACHED" ELSE uo.dflt = "DEVICE" /\ uo.step = "WAIT_FOR_DEVICE"
    /\ uoBus.cable = "A" /\ uo.role = "HOST" =>
         IF PulledUp
         THEN \/ uo.step = "NORMAL_RUN"
              \/ uo.step = "HOLD" /\ CASE Wanted(uoBus.dev) -> uoBus.bad = NUM_ENUMERATION_TRIES
                                       [] ~Wanted(uoBus.dev) -> uoBus.dev.acc /\ ~uoBus.dev.hub => uoBus.bad > 0
         ELSE uo.step = "WAIT_FOR_DEVICE" /\ uo.and.addr = 0 /\ uo.bt.addr = 0 /\ ~uo.btUp
    /\ uoBus.cable = "A" /\ uo.role = "DEVICE" => uoBus.peer = "host"

\* A device that runs is addressed as it should be, and its clients are those of what it offers.
UoClientsMatch ==
  UoSettled /\ uoBus.cable = "A" /\ PulledUp /\ uo.step = "NORMAL_RUN" =>
    /\ uoBus.da = uo.tok /\ uo.tok = 1
    /\ IF uoBus.dev.drv = "bt" THEN uo.bt.init /\ uo.btUp
       ELSE uo.and.addr = 1 /\ uo.and.ifs = {IF uoBus.dev.drv = "android" /\ n = 0 THEN "acc" ELSE "adb" : n \in Offered(uoBus.dev)}
=============================================================================
