---------------------------- MODULE MCBluetooth ----------------------------
(* Small instances of the layers of the Bluetooth stack.  Each layer is followed *)
(* over the interface of the one below it, so a behaviour follows one of them.  *)
EXTENDS Rfcomm, L2cap, Hci, Sdp

LOCAL INSTANCE TLC

VARIABLE layer

mcVars == <<rfVars, l2Vars, hciVars, sdpVars, layer>>

MCL2Budget == [asks |-> 2, queries |-> 1, cmds |-> 1, drops |-> 1]
MCHciBudget == [attach |-> 2, page |-> 3, data |-> 2]
MCSdpRecords ==
  <<[handle |-> 11, uuids |-> {"spp", "l2cap"}, attrs |-> <<[id |-> 0, len |-> 5], [id |-> 1, len |-> 2], [id |-> 4, len |-> 7]>>],
    [handle |-> 12, uuids |-> {"l2cap"}, attrs |-> <<[id |-> 0, len |-> 5], [id |-> 4, len |-> 1]>>],
    [handle |-> 13, uuids |-> {"l2cap"}, attrs |-> <<[id |-> 0, len |-> 3]>>]>>
MCSdpWanted == {{0, 1, 4}, {4}, {9}}

\* The phone's channel ids are interchangeable.
MCSymmetry == Permutations(L2Phone)

MCInit == layer \in {"rfcomm", "l2cap", "hci", "sdp"} /\ RfInit /\ L2Init /\ HciInit /\ SdpInit

MCNext ==
  \/ layer = "rfcomm" /\ RfNext /\ UNCHANGED <<l2Vars, hciVars, sdpVars, layer>>
  \/ layer = "l2cap" /\ L2Next /\ UNCHANGED <<rfVars, hciVars, sdpVars, layer>>
  \/ layer = "hci" /\ HciNext /\ UNCHANGED <<rfVars, l2Vars, sdpVars, layer>>
  \/ layer = "sdp" /\ SdpNext /\ UNCHANGED <<rfVars, l2Vars, hciVars, layer>>

MCSpec == MCInit /\ [][MCNext]_mcVars

\* In each layer the two ends agree on what has been granted, opened and sent: credits of RFCOMM
\* and HCI are conserved, channels of L2CAP carry data only when open, packets and answers of
\* SDP that were cut into parts arrive whole.
LinksAgree == RfCreditsConserved /\ L2Agrees /\ HciCredits /\ HciPacketsWhole /\ SdpAnswersWhole

\* In each layer, when nothing is on its way, nobody waits: what could not be sent for want of an
\* endpoint, a buffer or a credit has been sent by a later call.
LinksSettle == RfPhoneIsServed /\ L2RequestsEnd /\ HciServes /\ SdpResponds
=============================================================================
