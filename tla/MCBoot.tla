------------------------------- MODULE MCBoot -------------------------------
(* Small instances of the two bootloaders and of the authentication of the   *)
(* manager.  A behaviour follows one of them.                                *)
EXTENDS PhoneBoot, PcBoot, XmlAuth

VARIABLE part

MCImages == [v \in 1 .. 4 |-> <<<<0, 1, 2>>, <<0, 2>>, <<0>>, <<0, 4>>>>[v]]
MCPhones ==
  [new  |-> [path |-> "found", files |-> TRUE, version |-> 2, authentic |-> TRUE],
   same |-> [path |-> "found", files |-> TRUE, version |-> 1, authentic |-> TRUE],
   fake |-> [path |-> "found", files |-> TRUE, version |-> 3, authentic |-> FALSE],
   bad  |-> [path |-> "found", files |-> TRUE, version |-> 4, authentic |-> TRUE],
   bare |-> [path |-> "found", files |-> FALSE, version |-> 2, authentic |-> TRUE],
   lost |-> [path |-> "none", files |-> TRUE, version |-> 2, authentic |-> TRUE],
   long |-> [path |-> "long", files |-> TRUE, version |-> 2, authentic |-> TRUE]]
MCName == <<"m", "m">>
MCKey == <<"k", "y">>
MCNames == {<<"m", "m">>, <<"m", "m", "m">>, <<"m", "x">>}
MCKeys == {<<"k", "y">>, <<"k">>, <<"k", "y", "y">>}

phoneVars == <<pm, conn, peer, chan, file, pkt, out, faults>>
pcVars == <<dm, rxd, ioTx, wire, dude, count>>
mcVars == <<fVars, phoneVars, pcVars, xVars, part>>

Parked == doc = <<>> /\ text = <<>> /\ xml = XmlStart /\ au = AuthStart
MCInit == /\ part \in {"phone", "pc", "xml"} /\ PhoneBootInit /\ PcBootInit
          /\ IF part = "xml" THEN XmlInit ELSE Parked

MCNext ==
  \/ part = "phone" /\ PhoneBootNext /\ UNCHANGED <<pcVars, xVars, part>>
  \/ part = "pc" /\ PcBootNext /\ UNCHANGED <<phoneVars, xVars, part>>
  \/ part = "xml" /\ XmlNext /\ UNCHANGED <<fVars, phoneVars, pcVars, part>>

\* The phone and its loop; the other parts make no promise about time.
MCFairness ==
  /\ WF_mcVars(part = "phone" /\ LoopStep /\ UNCHANGED <<pcVars, xVars, part>>)
  /\ SF_mcVars(part = "phone" /\ Packets /\ UNCHANGED <<pcVars, xVars, part>>)
  /\ SF_mcVars(part = "phone" /\ ConnHello /\ conn' = "CONNECTED" /\ UNCHANGED <<pcVars, xVars, part>>)

MCSpec == MCInit /\ [][MCNext]_mcVars /\ MCFairness

\* The verdict on the manager, where there is a document.
DocumentVerdict == part = "xml" => VerdictIsRight
=============================================================================
