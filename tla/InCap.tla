------------------------------- MODULE InCap -------------------------------
(***************************************************************************)
(* Input capture: InCapConfig and InCapInit of the main loop, step by step *)
(* against the capture interrupts and the 200 Hz timer that starts the     *)
(* modules marked in armed.  A capture handler is one step: handlers of    *)
(* priority 1 do not interrupt one another and the one of priority 6       *)
(* touches only its own module.                                            *)
(***************************************************************************)
EXTENDS Integers, Sequences

Span(k, double) == IF double THEN {k, k + 1} ELSE {k}

CONSTANTS IcNum,        \* NUM_INCAP_MODULES
          IcOpenings,   \* what the host may open: [k, double, mode]
          IcMaxConfigs  \* bound: configurations and resets handled

ASSUME IcAssumption ==
  /\ IcNum \in Nat \ {0} /\ IcMaxConfigs \in Nat
  /\ IcOpenings \subseteq [k : 0..(IcNum - 1), double : BOOLEAN, mode : 1..5]
  /\ \A o \in IcOpenings : o.double => o.k + 1 < IcNum
  \* The hardware's layout makes a module one half of a pair, always with the same other half, or single.
  /\ \A o, p \in IcOpenings : (o.k = p.k /\ o.double = p.double) \/ Span(o.k, o.double) \cap Span(p.k, p.double) = {}

Modules == 0..(IcNum - 1)
FifoDepth == 4

VARIABLES icReg,    \* per module: con1, con2, the capture FIFO, IE and IF
          icState,  \* per module: edge_states, flip, con1_vals
          armed,    \* the modules the next timer interrupt turns on
          T5IE,
          icPin,    \* level of each module's pin
          icMain,   \* the main loop: where it is, the copy of armed it works on, the configuration
          icHost,   \* the openings in force, as the host sees them
          icEcho,   \* per module, the last INCAP_STATUS sent
          icFault,  \* reports from an empty FIFO, reports while closed
          icCount   \* configurations handled

icVars == <<icReg, icState, armed, T5IE, icPin, icMain, icHost, icEcho, icFault, icCount>>

\* ICM: which edges are captured (con1 ^= flip changes one to the other); ICI: captures per interrupt.
Rising == "rising"  Falling == "falling"  Off == "off"
FLIPS(mode) == mode \in {1, 2}
ICM(mode) == IF mode = 2 THEN Falling ELSE Rising
PerInterrupt(mode) == IF FLIPS(mode) THEN 1 ELSE 2
Flipped(icm) == CASE icm = Rising -> Falling [] icm = Falling -> Rising [] OTHER -> icm

\* The second halves of pairs, which have no pin of their own.
Seconds == {o.k + 1 : o \in {p \in IcOpenings : p.double}}

IcInit ==
  /\ icReg = [k \in Modules |-> [icm |-> Off, ici |-> 1, double |-> FALSE, fifo |-> <<>>, ie |-> FALSE, if |-> FALSE]]
  /\ icState = [k \in Modules |-> [edge |-> "LEADING", flip |-> FALSE, mode |-> 1]]
  /\ armed = {} /\ T5IE = TRUE /\ icPin = [k \in Modules |-> 0]
  /\ icMain = [pc |-> "idle", tmp |-> {}, cfg |-> [k |-> 0, double |-> FALSE, mode |-> 0]]
  /\ icHost = {} /\ icEcho = [k \in Modules |-> FALSE]
  /\ icFault = {} /\ icCount = 0

-----------------------------------------------------------------------------
(* Messages of the host.                                                   *)

TurnOff(reg, span) == [k \in Modules |-> IF k \in span THEN [reg[k] EXCEPT !.icm = Off, !.fifo = <<>>] ELSE reg[k]]

\* SET_PIN_INCAP and INCAP_CONFIG of an opening whose modules are free, or of a close.
IcHostConfigures ==
  /\ icMain.pc = "idle" /\ icCount < IcMaxConfigs
  /\ \/ \E o \in IcOpenings :
          /\ \A p \in icHost : Span(p.k, p.double) \cap Span(o.k, o.double) = {}
          /\ icHost' = icHost \cup {o}
          /\ icMain' = [icMain EXCEPT !.pc = "disarm", !.cfg = o]
     \/ \E o \in icHost :
          /\ icHost' = icHost \ {o}
          /\ icMain' = [icMain EXCEPT !.pc = "disarm", !.cfg = [o EXCEPT !.mode = 0]]
  /\ icCount' = icCount + 1
  /\ UNCHANGED <<icReg, icState, armed, T5IE, icPin, icEcho, icFault>>

\* InCapInit: every module is configured off, within a reset that masks all interrupts.
InCapInit ==
  /\ icMain.pc = "idle" /\ icCount < IcMaxConfigs
  /\ icReg' = [k \in Modules |-> [TurnOff(icReg, Modules)[k] EXCEPT !.ie = FALSE]]
  /\ armed' = {} /\ T5IE' = TRUE
  /\ icHost' = {} /\ icEcho' = [k \in Modules |-> FALSE]
  /\ icCount' = icCount + 1
  /\ UNCHANGED <<icState, icPin, icMain, icFault>>

-----------------------------------------------------------------------------
(* InCapConfigInternal.                                                    *)

Cfg == icMain.cfg
CfgSpan == Span(Cfg.k, Cfg.double)

\* armed |= and armed &= load the word, change it and store it: an interrupt may come in between.
InCapDisarm ==
  \/ /\ icMain.pc = "disarm"
     /\ T5IE' = FALSE
     /\ icMain' = [icMain EXCEPT !.pc = "disarm_store", !.tmp = armed \ CfgSpan]
     /\ UNCHANGED armed
  \/ /\ icMain.pc = "disarm_store"
     /\ armed' = icMain.tmp /\ T5IE' = TRUE
     /\ icMain' = [icMain EXCEPT !.pc = "disable", !.tmp = {}]

InCapArm ==
  \/ /\ icMain.pc = "arm"
     /\ T5IE' = FALSE
     /\ icMain' = [icMain EXCEPT !.pc = "arm_store", !.tmp = armed \cup CfgSpan]
     /\ UNCHANGED armed
  \/ /\ icMain.pc = "arm_store"
     /\ armed' = icMain.tmp /\ T5IE' = TRUE
     /\ icMain' = [icMain EXCEPT !.pc = "idle", !.tmp = {}]

IcArming == (InCapDisarm \/ InCapArm) /\ UNCHANGED <<icReg, icState, icPin, icHost, icEcho, icFault, icCount>>

\* Mutant: the capture interrupt stays enabled.
IcDisableNothing ==
  /\ icMain.pc = "disable"
  /\ icMain' = [icMain EXCEPT !.pc = "off"]
  /\ UNCHANGED <<icReg, icState, armed, T5IE, icPin, icHost, icEcho, icFault, icCount>>

\* AssignICxIE(incap_num, 0).
IcDisable ==
  /\ icMain.pc = "disable"
  /\ icReg' = [icReg EXCEPT ![Cfg.k].ie = FALSE]
  /\ icMain' = [icMain EXCEPT !.pc = "off"]
  /\ UNCHANGED <<icState, armed, T5IE, icPin, icHost, icEcho, icFault, icCount>>

\* Turn off the module; without a mode this is all, except for the echo.
IcTurnOff ==
  /\ icMain.pc = "off"
  /\ icReg' = TurnOff(icReg, CfgSpan)
  /\ icMain' = [icMain EXCEPT !.pc = IF Cfg.mode # 0 THEN "prepare" ELSE "idle"]
  /\ icEcho' = IF Cfg.mode = 0 THEN [icEcho EXCEPT ![Cfg.k] = FALSE] ELSE icEcho
  /\ UNCHANGED <<icState, armed, T5IE, icPin, icHost, icFault, icCount>>

\* The echo, the values for the timer interrupt, and the interrupt enabled.
IcPrepare ==
  /\ icMain.pc = "prepare"
  /\ icEcho' = [icEcho EXCEPT ![Cfg.k] = TRUE]
  /\ icState' = [k \in Modules |->
       IF k = Cfg.k THEN [edge |-> IF FLIPS(Cfg.mode) THEN "LEADING" ELSE "TRAILING", flip |-> FLIPS(Cfg.mode), mode |-> Cfg.mode]
       ELSE IF k \in CfgSpan THEN [icState[k] EXCEPT !.mode = Cfg.mode]
       ELSE icState[k]]
  /\ icReg' = [k \in Modules |->
       IF k = Cfg.k THEN [icReg[k] EXCEPT !.double = Cfg.double, !.if = FALSE, !.ie = TRUE]
       ELSE IF k \in CfgSpan THEN [icReg[k] EXCEPT !.double = TRUE]
       ELSE icReg[k]]
  /\ icMain' = [icMain EXCEPT !.pc = "arm"]
  /\ UNCHANGED <<armed, T5IE, icPin, icHost, icFault, icCount>>

-----------------------------------------------------------------------------
(* Interrupts and hardware.                                                *)

\* ReportCapture takes two captures of the FIFO (of both, in 32 bit mode).
ReportCapture(k, span) ==
  icFault' = icFault
    \cup (IF \E j \in span : Len(icReg[j].fifo) < 2 THEN {"empty"} ELSE {})
    \cup (IF icEcho[k] THEN {} ELSE {"closed"})

ICInterrupt(k) ==
  /\ icReg[k].ie /\ icReg[k].if
  /\ LET span == Span(k, icReg[k].double)
         flipped == [j \in Modules |-> IF j \in span /\ icState[k].flip THEN [icReg[j] EXCEPT !.icm = Flipped(@)] ELSE icReg[j]]
     IN IF icState[k].edge = "LEADING"
        THEN /\ icReg' = [flipped EXCEPT ![k].if = FALSE]
             /\ icState' = [icState EXCEPT ![k].edge = "TRAILING"]
             /\ UNCHANGED <<armed, T5IE, icFault>>
        ELSE /\ ReportCapture(k, span)
             /\ icReg' = [TurnOff(icReg, span) EXCEPT ![k].if = FALSE]
             /\ icState' = IF icState[k].flip THEN [icState EXCEPT ![k].edge = "LEADING"] ELSE icState
             /\ armed' = armed \cup span /\ T5IE' = TRUE
  /\ UNCHANGED <<icPin, icMain, icHost, icEcho, icCount>>

\* All armed modules are turned on, the highest first.
T5Interrupt ==
  /\ T5IE /\ armed # {}
  /\ icReg' = [k \in Modules |-> IF k \in armed THEN [icReg[k] EXCEPT !.icm = ICM(icState[k].mode),
                                                         !.ici = PerInterrupt(icState[k].mode)]
                                 ELSE icReg[k]]
  /\ armed' = {}
  /\ UNCHANGED <<icState, T5IE, icPin, icMain, icHost, icEcho, icFault, icCount>>

\* An edge on the pin of module k: the module, with its second half in 32 bit mode, captures
\* the edges it is set to.  Edges on a pin nobody measures are left out.
IcEdge(k) ==
  /\ icReg[k].icm # Off /\ k \notin Seconds
  /\ icPin' = [icPin EXCEPT ![k] = 1 - @]
  /\ LET edge == IF icPin[k] = 0 THEN Rising ELSE Falling
         span == Span(k, icReg[k].double)
         Captured(j) == j \in span /\ icReg[j].icm = edge /\ Len(icReg[j].fifo) < FifoDepth
     IN icReg' = [j \in Modules |->
          IF Captured(j)
          THEN [icReg[j] EXCEPT !.fifo = Append(@, edge),
                  !.if = @ \/ (j = k /\ (Len(icReg[j].fifo) + 1) % icReg[j].ici = 0)]
          ELSE icReg[j]]
  /\ UNCHANGED <<icState, armed, T5IE, icMain, icHost, icEcho, icFault, icCount>>

IcNext ==
  \/ IcHostConfigures \/ InCapInit
  \/ IcArming \/ IcDisable \/ IcTurnOff \/ IcPrepare
  \/ \E k \in Modules : ICInterrupt(k) \/ IcEdge(k)
  \/ T5Interrupt

IcSpec == IcInit /\ [][IcNext]_icVars

-----------------------------------------------------------------------------
\* A report is made of two captures that are in the FIFO (the assertions of ReportCapture), and the
\* host hears of it only between the echo of the module's opening and that of its close, also
\* when an opening or a close races the capture and timer interrupts.
CapturesAreSound == icFault \cap {"empty", "closed"} = {}

\* "from within this interrupt we start a capture on any modules that should be enabled and are
\* not currently capturing": an open module whose configuration is over is capturing, or armed.  It does
\* not hold: an InCapArm in a capture interrupt between the two halves of one in the main loop is lost
\* (README, section 6).
OpenModulesCapture ==
  icMain.pc = "idle" => \A o \in icHost : o.k \in armed \/ icReg[o.k].icm # Off
=============================================================================
