----------------------------- MODULE MCBoardIO -----------------------------
(* Small instances of the two message streams, input capture, the analog       *)
(* inputs and the pins.  They share nothing, so a behaviour follows one of them. *)
EXTENDS HostToBoard, BoardToHost, InCap, AnalogIn, Pins

VARIABLE part

mcVars == <<hbVars, bhVars, icVars, anVars, pVars, part>>

MCIcOpenings ==
  {[k |-> 0, double |-> TRUE, mode |-> 1], [k |-> 0, double |-> TRUE, mode |-> 3], [k |-> 2, double |-> FALSE, mode |-> 2]}
MCPinsWatched == 0..48

MCInit ==
  /\ part \in {"to board", "to host", "incap", "analog", "pins"}
  /\ HBInit /\ BHInit /\ IcInit /\ AnInit /\ PinsInit
  /\ part # "pins" => pHw = 4 /\ pPins = {8, 9}

MCNext ==
  \/ part = "to board" /\ HBNext /\ UNCHANGED <<bhVars, icVars, anVars, pVars, part>>
  \/ part = "to host" /\ BHNext /\ UNCHANGED <<hbVars, icVars, anVars, pVars, part>>
  \/ part = "incap" /\ IcNext /\ UNCHANGED <<hbVars, bhVars, anVars, pVars, part>>
  \/ part = "analog" /\ AnNext /\ UNCHANGED <<hbVars, bhVars, icVars, pVars, part>>
  \/ part = "pins" /\ PinsNext /\ UNCHANGED <<hbVars, bhVars, icVars, anVars, part>>

MCSpec == MCInit /\ [][MCNext]_mcVars
=============================================================================
