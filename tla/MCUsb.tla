------------------------------- MODULE MCUsb -------------------------------
(* Small instances of the USB stacks: transfers of the host with the packets of *)
(* the Android client, enumeration and roles, and the board as a device.  Each *)
(* is followed over the interface of the others, so a behaviour follows one.   *)
EXTENDS AdbPacket, UsbOtg, UsbDevice

VARIABLE part

mcVars == <<xfVars, adbVars, uoVars, udVars, part>>

MCXfBudgets ==
  {[fault |-> 1, nak |-> 0, stall |-> 1, ask |-> 0, adb |-> 2], [fault |-> 2, nak |-> 2, stall |-> 1, ask |-> 1, adb |-> 0],
   [fault |-> 0, nak |-> 1, stall |-> 0, ask |-> 1, adb |-> 1], [fault |-> 2, nak |-> 0, stall |-> 0, ask |-> 0, adb |-> 1]}

If(n, cls, eps) == [n |-> n, cls |-> cls, eps |-> eps]
Conf(otg, ifs) == [otg |-> otg, ifs |-> ifs]
Dev(hub, drv, acc, confs) == [hub |-> hub, drv |-> drv, acc |-> acc, confs |-> confs]
MCAccessory == Dev(FALSE, "android", TRUE, <<Conf("none", <<If(0, "other", "ok"), If(1, "adb", "ok")>>)>>)
MCDevices ==
  {MCAccessory, Dev(FALSE, "none", TRUE, <<Conf("none", <<If(0, "other", "ok")>>), Conf("none", <<If(1, "adb", "ok")>>)>>),
   Dev(FALSE, "none", TRUE, <<Conf("hnp", <<If(0, "other", "ok")>>)>>),
   Dev(FALSE, "none", FALSE, <<Conf("hnp", <<If(0, "other", "ok")>>)>>),
   Dev(FALSE, "bt", FALSE, <<Conf("srp", <<If(0, "bt", "ok"), If(1, "bt", "odd")>>)>>),
   Dev(TRUE, "none", FALSE, <<Conf("none", <<If(0, "other", "ok")>>)>>),
   Dev(FALSE, "bt", FALSE, <<Conf("none", <<If(0, "bt", "odd")>>)>>),
   Dev(FALSE, "none", FALSE, <<Conf("none", <<If(0, "adb", "short")>>)>>), Dev(FALSE, "heavy", FALSE, <<>>)}
MCUoBudgets ==
  {[plug |-> 2, fault |-> 1, oom |-> 0, otg |-> 0, app |-> 0], [plug |-> 2, fault |-> 0, oom |-> 0, otg |-> 0, app |-> 1],
   [plug |-> 1, fault |-> 3, oom |-> 1, otg |-> 0, app |-> 0], [plug |-> 2, fault |-> 0, oom |-> 0, otg |-> 1, app |-> 0],
   [plug |-> 1, fault |-> 0, oom |-> 0, otg |-> 4, app |-> 0]}

Req(n, d, l, s, v, e) == [name |-> n, dir |-> d, len |-> l, size |-> s, val |-> v, e |-> e]
Up == {Req("SET_CONFIGURATION", "out", 0, 0, 1, "none"), Req("SET_CONTROL_LINE_STATE", "out", 0, 0, 1, "none")}
Down == {Req("SET_CONFIGURATION", "out", 0, 0, 0, "none"), Req("SET_CONTROL_LINE_STATE", "out", 0, 0, 0, "none")}
Gets == {Req("GET_DESCRIPTOR", "in", l, s, 0, "none") : l \in {0, 3, 4}, s \in {2, 3, 4}}
Others == {Req("SET_ADDRESS", "out", 0, 0, 1, "none"), Req("SET_LINE_CODING", "out", 3, 0, 0, "none"),
           Req("unknown", "in", 2, 0, 0, "none"), Req("unknown", "out", 2, 0, 0, "none")}
Class == {Req("SET_INTERFACE", "out", 0, 0, 0, "none"), Req("SET_FEATURE", "out", 0, 0, 0, "none"),
          Req("SEND_ENCAPSULATED_COMMAND", "out", 3, 0, 0, "none"), Req("GET_ENCAPSULATED_RESPONSE", "in", 3, 0, 0, "none"),
          Req("GET_LINE_CODING", "in", 7, 0, 0, "none"), Req("GET_STATUS", "in", 2, 0, 0, "none"),
          Req("GET_CONFIGURATION", "in", 1, 0, 0, "none"), Req("GET_DESCRIPTOR", "in", 2, 0, 0, "none")}
Halts == {Req(n, "out", 0, 0, 0, e) : n \in {"SET_FEATURE", "CLEAR_FEATURE"}, e \in {"out2", "in2"}}
Bounds(ask, lose, quit, reset, plug, out, put, reqs) ==
  [ask |-> ask, lose |-> lose, quit |-> quit, reset |-> reset, plug |-> plug, out |-> out, put |-> put, reqs |-> reqs]
MCUdBudgets ==
  {Bounds(2, 2, 2, 2, 0, 0, 0, Gets \cup Others \cup Up \cup Down), Bounds(3, 1, 1, 1, 0, 0, 0, Gets \cup Others \cup Up),
   Bounds(2, 1, 1, 2, 1, 0, 0, Class \cup Up), Bounds(3, 0, 0, 2, 1, 1, 1, Up),
   Bounds(2, 1, 0, 1, 0, 3, 2, Up), Bounds(4, 0, 0, 1, 0, 1, 1, Up \cup Halts), Bounds(3, 0, 0, 2, 0, 1, 1, Up \cup Halts \cup Down)}

MCInit ==
  \/ part = "transfers" /\ XfInit /\ AdbInit /\ uo = <<>> /\ uoBus = <<>> /\ uoLeft = <<>> /\ ud = <<>> /\ pc = <<>>
  \/ part = "roles" /\ UoInit /\ xf = <<>> /\ xfDev = <<>> /\ xfLeft = <<>> /\ adb = <<>> /\ adbLog = <<>> /\ ud = <<>> /\ pc = <<>>
  \/ part = "device" /\ UdInit /\ xf = <<>> /\ xfDev = <<>> /\ xfLeft = <<>> /\ adb = <<>> /\ adbLog = <<>>
     /\ uo = <<>> /\ uoBus = <<>> /\ uoLeft = <<>>

MCNext ==
  \/ part = "transfers" /\ AdbNext /\ UNCHANGED <<uoVars, udVars, part>>
  \/ part = "roles" /\ UoNext /\ UNCHANGED <<xfVars, adbVars, udVars, part>>
  \/ part = "device" /\ UdNext /\ UNCHANGED <<xfVars, adbVars, uoVars, part>>

MCSpec == MCInit /\ [][MCNext]_mcVars
MCDeviceSpec == (MCInit /\ part = "device") /\ [][MCNext]_mcVars

\* Transfers move exactly the bytes they report, in both stacks, whatever packets and handshakes the
\* bus loses: control transfers of the host and of the device, ADB packets and the serial port.
UsbDataExact ==
  /\ part = "transfers" => XfControlExact /\ AdbPacketsWhole
  /\ part = "device" => UdControlExact /\ CdcExact

\* Nobody waits for ever: an endpoint that was refused is served in a later frame, cables,
\* detaches and failed negotiations always leave the board in a role that fits the plug, and the
\* board as a device can always take the next SETUP and the next packet.
UsbServed ==
  /\ part = "transfers" => XfServed
  /\ part = "roles" => UoServed
  /\ part = "device" => UdServed /\ CdcAligned

\* The clients of the host are those of the device that is plugged in.
UsbClientsTracked == part = "roles" => UoClientsMatch
=============================================================================
