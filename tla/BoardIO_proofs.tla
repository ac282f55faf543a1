----------------------------- MODULE BoardIO_proofs -----------------------------
(***************************************************************************)
(* Proofs about the board's inputs: input capture, for any number of       *)
(* modules and any layout of pairs and single modules, the analog inputs,  *)
(* for any number of channels, and the pins, for any two neighbours of     *)
(* every layout and any number of opens.                                   *)
(***************************************************************************)
EXTENDS InCap, AnalogIn, Pins, TLAPS, FiniteSetTheorems

IcRegs == [icm : {Off, Rising, Falling}, ici : {1, 2}, double : BOOLEAN, fifo : Seq({Rising, Falling}),
           ie : BOOLEAN, if : BOOLEAN]
IcStates == [edge : {"LEADING", "TRAILING"}, flip : BOOLEAN, mode : 1..5]
IcPhases == {"idle", "disarm", "disarm_store", "disable", "off", "prepare", "arm", "arm_store"}
IcMains == [pc : IcPhases, tmp : SUBSET Modules, cfg : [k : Modules, double : BOOLEAN, mode : 0..5]]

IcTypeOK ==
  /\ icReg \in [Modules -> IcRegs] /\ icState \in [Modules -> IcStates]
  /\ armed \in SUBSET Modules /\ icPin \in [Modules -> {0, 1}]
  /\ icMain \in IcMains /\ icHost \in SUBSET IcOpenings /\ icEcho \in [Modules -> BOOLEAN]

-----------------------------------------------------------------------------
(* Who owns which module.                                                  *)

\* What is being configured is an opening, or the close of one; those in force share no module.
ConfigInv ==
  /\ icMain.pc # "idle" => \E o \in IcOpenings : Cfg.k = o.k /\ Cfg.double = o.double
  /\ icMain.pc # "idle" /\ Cfg.mode # 0 => Cfg \in icHost
  /\ icMain.pc # "idle" /\ Cfg.mode = 0 => \A o \in icHost : Span(o.k, o.double) \cap CfgSpan = {}
  /\ icMain.pc = "prepare" => Cfg.mode # 0
  /\ \A o, p \in icHost : o = p \/ Span(o.k, o.double) \cap Span(p.k, p.double) = {}

\* Only pairs are in 32 bit mode.
DoubleIsPair == \A k \in Modules : icReg[k].double => \E o \in IcOpenings : o.double /\ k \in Span(o.k, TRUE)

\* A module whose interrupt is enabled is open, or being closed and not yet disabled.
EnabledIsOpen ==
  \A k \in Modules : icReg[k].ie =>
    \E o \in IcOpenings :
      /\ o.k = k /\ icReg[k].double = o.double
      /\ o \in icHost \/ (icMain.pc \in {"disarm", "disarm_store", "disable"} /\ Cfg.k = k /\ Cfg.mode = 0)

\* A module that is being opened is disabled, disarmed and then off, until it is prepared;
\* then a pair is in 32 bit mode.
OpeningIsQuiet ==
  /\ icMain.pc \in {"disarm", "disarm_store", "disable"} /\ Cfg.mode # 0 => ~icReg[Cfg.k].ie
  /\ icMain.pc \in {"off", "prepare"} => ~icReg[Cfg.k].ie
  /\ icMain.pc = "disarm_store" /\ Cfg.mode # 0 => icMain.tmp \cap CfgSpan = {}
  /\ icMain.pc \in {"disable", "off", "prepare"} /\ Cfg.mode # 0 => armed \cap CfgSpan = {}
  /\ icMain.pc = "prepare" => \A j \in CfgSpan : icReg[j].icm = Off /\ icReg[j].fifo = <<>>
  /\ icMain.pc \in {"arm", "arm_store"} /\ Cfg.double => icReg[Cfg.k].double

\* The halves of a pair are armed, turned on and off, and capture together.
Together(a, b) ==
  /\ a \in armed <=> b \in armed
  /\ a \in icMain.tmp <=> b \in icMain.tmp
  /\ icReg[a].icm = icReg[b].icm /\ Len(icReg[a].fifo) = Len(icReg[b].fifo) /\ icState[a].mode = icState[b].mode
  /\ icReg[a].icm # Off \/ a \in armed \/ a \in icMain.tmp => icReg[a].double
PairsTogether == \A o \in IcOpenings : o.double => Together(o.k, o.k + 1)

OwnerInv == IcTypeOK /\ ConfigInv /\ DoubleIsPair /\ EnabledIsOpen /\ OpeningIsQuiet /\ PairsTogether

-----------------------------------------------------------------------------
(* What an enabled module has captured.                                    *)

Captures(k) ==
  /\ icEcho[k]
  /\ icState[k].flip = FLIPS(icState[k].mode)
  /\ ~icState[k].flip => icState[k].edge = "TRAILING"
  /\ icReg[k].icm # Off => icReg[k].ici = PerInterrupt(icState[k].mode)
  /\ icState[k].flip /\ icState[k].edge = "TRAILING" => Len(icReg[k].fifo) >= 1
  /\ icReg[k].if => Len(icReg[k].fifo) >= 1
  /\ icReg[k].if /\ icState[k].edge = "TRAILING" => Len(icReg[k].fifo) >= 2
CaptureInv == \A k \in Modules : icReg[k].ie => Captures(k)

IcInv == OwnerInv /\ CaptureInv /\ CapturesAreSound

-----------------------------------------------------------------------------
(* The layout of the modules.                                              *)

LEMMA Layout ==
    ASSUME NEW o \in IcOpenings
    PROVE  /\ o.k \in Modules /\ o.k \in Int /\ o.double \in BOOLEAN /\ o.mode \in 1..5
           /\ o.double => o.k + 1 \in Modules
           /\ Span(o.k, o.double) \subseteq Modules
  BY IcAssumption DEF Modules, Span

LEMMA SpanOf ==
    ASSUME NEW k, NEW double \in BOOLEAN
    PROVE  /\ k \in Span(k, double)
           /\ double => Span(k, double) = {k, k + 1}
           /\ ~double => Span(k, double) = {k}
  BY DEF Span

\* Two openings that share a module are openings of the same modules.
LEMMA SameModules ==
    ASSUME NEW o \in IcOpenings, NEW p \in IcOpenings, NEW j, j \in Span(o.k, o.double), j \in Span(p.k, p.double)
    PROVE  o.k = p.k /\ o.double = p.double
  BY IcAssumption

LEMMA SecondIsNoFirst ==
    ASSUME NEW o \in IcOpenings, NEW p \in IcOpenings, p.double
    PROVE  o.k # p.k + 1
  <1>1. o.k \in Span(o.k, o.double) /\ Span(p.k, p.double) = {p.k, p.k + 1} /\ p.k \in Int
    BY SpanOf, Layout
  <1>2. o.k = p.k + 1 => o.k = p.k
    BY <1>1, SameModules
  <1>3. QED
    BY <1>1, <1>2

LEMMA CfgLayout ==
    ASSUME OwnerInv, icMain.pc # "idle"
    PROVE  /\ Cfg.k \in Modules /\ Cfg.k \in Int /\ Cfg.double \in BOOLEAN /\ Cfg.mode \in 0..5
           /\ CfgSpan \subseteq Modules /\ Cfg.k \in CfgSpan
           /\ Cfg.double => CfgSpan = {Cfg.k, Cfg.k + 1} /\ Cfg.k + 1 \in Modules
           /\ ~Cfg.double => CfgSpan = {Cfg.k}
           /\ \E o \in IcOpenings : Cfg.k = o.k /\ Cfg.double = o.double /\ CfgSpan = Span(o.k, o.double)
  <1>1. PICK o \in IcOpenings : Cfg.k = o.k /\ Cfg.double = o.double
    BY DEF OwnerInv, ConfigInv
  <1>2. CfgSpan = Span(o.k, o.double)
    BY <1>1 DEF CfgSpan
  <1>3. Cfg.mode \in 0..5
    BY DEF OwnerInv, IcTypeOK, IcMains, Cfg
  <1>4. QED
    BY <1>1, <1>2, <1>3, Layout, SpanOf

\* A configuration is of both halves of a pair, or of none.
LEMMA CfgPair ==
    ASSUME OwnerInv, icMain.pc # "idle", NEW o \in IcOpenings, o.double
    PROVE  \/ o.k \notin CfgSpan /\ o.k + 1 \notin CfgSpan
           \/ Cfg.k = o.k /\ Cfg.double /\ CfgSpan = {o.k, o.k + 1}
  <1>1. PICK p \in IcOpenings : Cfg.k = p.k /\ Cfg.double = p.double /\ CfgSpan = Span(p.k, p.double)
    BY CfgLayout
  <1>2. Span(o.k, o.double) = {o.k, o.k + 1}
    BY SpanOf
  <1>3. CASE \E j \in CfgSpan : j \in Span(o.k, o.double)
    BY <1>1, <1>2, <1>3, SameModules
  <1>4. CASE ~\E j \in CfgSpan : j \in Span(o.k, o.double)
    BY <1>2, <1>4
  <1>5. QED
    BY <1>3, <1>4

\* The modules an enabled interrupt works on.
LEMMA EnabledLayout ==
    ASSUME OwnerInv, NEW k \in Modules, icReg[k].ie
    PROVE  /\ k \in Int /\ icReg[k].double \in BOOLEAN /\ k \in Span(k, icReg[k].double)
           /\ Span(k, icReg[k].double) \subseteq Modules
           /\ \A p \in IcOpenings : p.double => k # p.k + 1
           /\ \E o \in IcOpenings : o.k = k /\ o.double = icReg[k].double
  <1>1. PICK o \in IcOpenings : o.k = k /\ icReg[k].double = o.double
    BY DEF OwnerInv, EnabledIsOpen
  <1>2. QED
    BY <1>1, Layout, SpanOf, SecondIsNoFirst

-----------------------------------------------------------------------------
LEMMA InitCaptures == IcInit => IcInv
  <1> SUFFICES ASSUME IcInit PROVE IcInv
    OBVIOUS
  <1>1. IcTypeOK
    BY IcAssumption DEF IcInit, IcTypeOK, IcRegs, IcStates, IcMains, IcPhases, Modules, Off, Rising, Falling
  <1>2. /\ icMain.pc = "idle" /\ icMain.tmp = {} /\ armed = {} /\ icHost = {} /\ icFault = {}
        /\ \A k \in Modules : /\ icReg[k].icm = Off /\ icReg[k].fifo = <<>> /\ ~icReg[k].ie /\ ~icReg[k].double
                              /\ icState[k].mode = 1
    BY DEF IcInit
  <1>3. ConfigInv /\ DoubleIsPair /\ EnabledIsOpen /\ OpeningIsQuiet
    BY <1>2 DEF ConfigInv, DoubleIsPair, EnabledIsOpen, OpeningIsQuiet
  <1>4. PairsTogether
    BY <1>2, Layout DEF PairsTogether, Together
  <1>5. QED
    BY <1>1, <1>2, <1>3, <1>4 DEF IcInv, OwnerInv, CaptureInv, CapturesAreSound

-----------------------------------------------------------------------------
(* The main loop.                                                          *)

\* What leaves the modules' registers and states alone.
LEMMA RegistersStay ==
    ASSUME CaptureInv, UNCHANGED <<icReg, icState, icEcho>>
    PROVE  CaptureInv'
  BY DEF CaptureInv, Captures

LEMMA HostKeepsOwner == ASSUME OwnerInv, IcHostConfigures PROVE OwnerInv'
  <1>1. icMain.pc = "idle" /\ UNCHANGED <<icReg, icState, armed, icPin, icEcho>>
    BY DEF IcHostConfigures
  <1>2. CASE \E o \in IcOpenings :
               /\ \A p \in icHost : Span(p.k, p.double) \cap Span(o.k, o.double) = {}
               /\ icHost' = icHost \cup {o}
               /\ icMain' = [icMain EXCEPT !.pc = "disarm", !.cfg = o]
    <2>1. PICK o \in IcOpenings :
               /\ \A p \in icHost : Span(p.k, p.double) \cap Span(o.k, o.double) = {}
               /\ icHost' = icHost \cup {o}
               /\ icMain' = [icMain EXCEPT !.pc = "disarm", !.cfg = o]
      BY <1>2
    <2>2. /\ icMain'.pc = "disarm" /\ icMain'.tmp = icMain.tmp /\ Cfg' = o /\ CfgSpan' = Span(o.k, o.double)
      BY <2>1 DEF OwnerInv, IcTypeOK, IcMains, Cfg, CfgSpan
    <2>3. o \in [k : Modules, double : BOOLEAN, mode : 0..5] /\ o.mode # 0
      BY IcAssumption DEF Modules
    <2>4. IcTypeOK'
      BY <1>1, <2>1, <2>3 DEF OwnerInv, IcTypeOK, IcMains, IcPhases
    <2>5. ConfigInv'
      BY <2>1, <2>2, <2>3 DEF OwnerInv, ConfigInv, IcTypeOK
    <2>6. EnabledIsOpen'
      BY <1>1, <2>1 DEF OwnerInv, EnabledIsOpen
    <2>7. ~icReg[o.k].ie
      <3>1. \A p \in icHost : p.k # o.k
        BY <2>1, SpanOf, Layout DEF OwnerInv, IcTypeOK
      <3>2. QED
        BY <1>1, <3>1, Layout DEF OwnerInv, EnabledIsOpen
    <2>8. OpeningIsQuiet'
      BY <1>1, <2>2, <2>7 DEF OpeningIsQuiet
    <2>9. QED
      BY <1>1, <2>2, <2>4, <2>5, <2>6, <2>8 DEF OwnerInv, DoubleIsPair, PairsTogether, Together
  <1>3. CASE \E o \in icHost :
               /\ icHost' = icHost \ {o}
               /\ icMain' = [icMain EXCEPT !.pc = "disarm", !.cfg = [o EXCEPT !.mode = 0]]
    <2>1. PICK o \in icHost :
               /\ icHost' = icHost \ {o}
               /\ icMain' = [icMain EXCEPT !.pc = "disarm", !.cfg = [o EXCEPT !.mode = 0]]
      BY <1>3
    <2>2. o \in IcOpenings
      BY DEF OwnerInv, IcTypeOK
    <2>3. o \in [k : Modules, double : BOOLEAN, mode : 1..5]
      BY <2>2, IcAssumption DEF Modules
    <2> DEFINE closing == [o EXCEPT !.mode = 0]
    <2>c. closing \in [k : Modules, double : BOOLEAN, mode : 0..5] /\ closing.k = o.k /\ closing.double = o.double /\ closing.mode = 0
      BY <2>3
    <2> HIDE DEF closing
    <2>d. icMain' = [icMain EXCEPT !.pc = "disarm", !.cfg = closing]
      BY <2>1 DEF closing
    <2>4. /\ icMain'.pc = "disarm" /\ icMain'.tmp = icMain.tmp
          /\ Cfg'.k = o.k /\ Cfg'.double = o.double /\ Cfg'.mode = 0 /\ CfgSpan' = Span(o.k, o.double)
          /\ icMain' \in IcMains
      BY <2>c, <2>d DEF OwnerInv, IcTypeOK, IcMains, IcPhases, Cfg, CfgSpan
    <2>5. IcTypeOK'
      BY <1>1, <2>1, <2>4 DEF OwnerInv, IcTypeOK
    <2>6. ConfigInv'
      BY <2>1, <2>2, <2>4 DEF OwnerInv, ConfigInv
    <2>7. EnabledIsOpen'
      BY <1>1, <2>1, <2>2, <2>4 DEF OwnerInv, EnabledIsOpen
    <2>8. OpeningIsQuiet'
      BY <1>1, <2>4 DEF OpeningIsQuiet
    <2>9. QED
      BY <1>1, <2>4, <2>5, <2>6, <2>7, <2>8 DEF OwnerInv, DoubleIsPair, PairsTogether, Together
  <1>4. QED
    BY <1>2, <1>3 DEF IcHostConfigures


\* The two halves of InCapDisarm and InCapArm.
ArmsTo(pc, tmp) ==
  /\ icMain' = [icMain EXCEPT !.pc = pc, !.tmp = tmp] /\ armed' \in SUBSET Modules
  /\ \/ icMain.pc = "disarm" /\ pc = "disarm_store" /\ tmp = armed \ CfgSpan /\ armed' = armed
     \/ icMain.pc = "disarm_store" /\ pc = "disable" /\ tmp = {} /\ armed' = icMain.tmp
     \/ icMain.pc = "arm" /\ pc = "arm_store" /\ tmp = armed \cup CfgSpan /\ armed' = armed
     \/ icMain.pc = "arm_store" /\ pc = "idle" /\ tmp = {} /\ armed' = icMain.tmp

LEMMA ArmedSetsKeepOwner ==
    ASSUME OwnerInv, UNCHANGED <<icReg, icState, icPin, icHost, icEcho>>,
           NEW pc \in IcPhases, NEW tmp \in SUBSET Modules, ArmsTo(pc, tmp)
    PROVE  OwnerInv'
  <1> USE DEF ArmsTo
  <1>3. /\ icMain'.pc = pc /\ icMain'.tmp = tmp /\ Cfg' = Cfg /\ CfgSpan' = CfgSpan
        /\ icMain' \in IcMains
    BY DEF OwnerInv, IcTypeOK, IcMains, IcPhases, Cfg, CfgSpan
  <1>4. IcTypeOK' /\ ConfigInv' /\ DoubleIsPair'
    BY <1>3 DEF OwnerInv, IcTypeOK, ConfigInv, DoubleIsPair
  <1>5. EnabledIsOpen'
    BY <1>3 DEF OwnerInv, ConfigInv, EnabledIsOpen
  <1>6. OpeningIsQuiet'
    BY <1>3 DEF OwnerInv, OpeningIsQuiet
  <1>7. PairsTogether'
    <2> SUFFICES ASSUME NEW o \in IcOpenings, o.double PROVE Together(o.k, o.k + 1)'
      BY DEF PairsTogether
    <2>1. Together(o.k, o.k + 1) /\ o.k \in Modules /\ o.k + 1 \in Modules
      BY Layout DEF OwnerInv, PairsTogether
    <2>2. \/ o.k \notin CfgSpan /\ o.k + 1 \notin CfgSpan
          \/ Cfg.k = o.k /\ Cfg.double /\ CfgSpan = {o.k, o.k + 1}
      BY CfgPair
    <2>3. QED
      BY <1>3, <2>1, <2>2 DEF OwnerInv, OpeningIsQuiet, Together
  <1>8. QED
    BY <1>4, <1>5, <1>6, <1>7 DEF OwnerInv

LEMMA ArmingKeepsOwner == ASSUME OwnerInv, IcArming PROVE OwnerInv'
  <1>1. UNCHANGED <<icReg, icState, icPin, icHost, icEcho>> /\ icMain.pc # "idle"
    BY DEF IcArming, InCapDisarm, InCapArm
  <1>2. /\ CfgSpan \subseteq Modules /\ armed \subseteq Modules /\ icMain.tmp \subseteq Modules
        /\ {"disarm_store", "disable", "arm_store", "idle"} \subseteq IcPhases
    BY <1>1, CfgLayout DEF OwnerInv, IcTypeOK, IcMains, IcPhases
  <1>3. \/ ArmsTo("disarm_store", armed \ CfgSpan) \/ ArmsTo("disable", {})
        \/ ArmsTo("arm_store", armed \cup CfgSpan) \/ ArmsTo("idle", {})
    BY <1>2 DEF IcArming, InCapDisarm, InCapArm, ArmsTo
  <1>4. armed \ CfgSpan \in SUBSET Modules /\ armed \cup CfgSpan \in SUBSET Modules /\ {} \in SUBSET Modules
    BY <1>2
  <1>5. QED
    BY <1>1, <1>2, <1>3, <1>4, ArmedSetsKeepOwner

LEMMA DisableKeepsCaptures == ASSUME OwnerInv, CaptureInv, IcDisable PROVE OwnerInv' /\ CaptureInv'
  <1>1. /\ icMain.pc = "disable" /\ icReg' = [icReg EXCEPT ![Cfg.k].ie = FALSE]
        /\ icMain' = [icMain EXCEPT !.pc = "off"] /\ UNCHANGED <<icState, armed, icPin, icHost, icEcho>>
    BY DEF IcDisable
  <1>2. /\ icMain' \in IcMains /\ icMain'.pc = "off" /\ icMain'.tmp = icMain.tmp /\ Cfg' = Cfg /\ CfgSpan' = CfgSpan
    BY <1>1 DEF OwnerInv, IcTypeOK, IcMains, IcPhases, Cfg, CfgSpan
  <1>3. /\ icReg' \in [Modules -> IcRegs] /\ ~icReg'[Cfg.k].ie
        /\ \A j \in Modules : /\ icReg'[j].icm = icReg[j].icm /\ icReg'[j].ici = icReg[j].ici
                              /\ icReg'[j].double = icReg[j].double /\ icReg'[j].fifo = icReg[j].fifo
                              /\ icReg'[j].if = icReg[j].if /\ (icReg'[j].ie => icReg[j].ie /\ j # Cfg.k)
    <2>1. Cfg.k \in Modules /\ icReg \in [Modules -> IcRegs]
      BY <1>1, CfgLayout DEF OwnerInv, IcTypeOK
    <2>2. \A j \in Modules : icReg'[j] = IF j = Cfg.k THEN [icReg[j] EXCEPT !.ie = FALSE] ELSE icReg[j]
      BY <1>1, <2>1
    <2>3. \A j \in Modules : [icReg[j] EXCEPT !.ie = FALSE] \in IcRegs
      BY <2>1 DEF IcRegs
    <2>4. icReg' \in [Modules -> IcRegs]
      BY <1>1, <2>1, <2>3
    <2>5. QED
      BY <2>1, <2>2, <2>4 DEF IcRegs
  <1>4. IcTypeOK' /\ ConfigInv' /\ DoubleIsPair'
    BY <1>1, <1>2, <1>3 DEF OwnerInv, IcTypeOK, ConfigInv, DoubleIsPair
  <1>5. EnabledIsOpen'
    BY <1>1, <1>2, <1>3 DEF OwnerInv, EnabledIsOpen
  <1>6. OpeningIsQuiet'
    BY <1>1, <1>2, <1>3 DEF OwnerInv, OpeningIsQuiet
  <1>7. PairsTogether'
    BY <1>1, <1>2, <1>3, Layout DEF OwnerInv, PairsTogether, Together
  <1>8. CaptureInv'
    BY <1>1, <1>3 DEF CaptureInv, Captures
  <1>9. QED
    BY <1>4, <1>5, <1>6, <1>7, <1>8 DEF OwnerInv

LEMMA TurnedOff ==
    ASSUME OwnerInv, NEW S \in SUBSET Modules
    PROVE  /\ TurnOff(icReg, S) \in [Modules -> IcRegs]
           /\ \A j \in Modules :
                /\ TurnOff(icReg, S)[j].icm = IF j \in S THEN Off ELSE icReg[j].icm
                /\ TurnOff(icReg, S)[j].fifo = IF j \in S THEN <<>> ELSE icReg[j].fifo
                /\ TurnOff(icReg, S)[j].ici = icReg[j].ici /\ TurnOff(icReg, S)[j].double = icReg[j].double
                /\ TurnOff(icReg, S)[j].ie = icReg[j].ie /\ TurnOff(icReg, S)[j].if = icReg[j].if
  <1>1. icReg \in [Modules -> IcRegs]
    BY DEF OwnerInv, IcTypeOK
  <1>2. \A j \in Modules : TurnOff(icReg, S)[j] = IF j \in S THEN [icReg[j] EXCEPT !.icm = Off, !.fifo = <<>>] ELSE icReg[j]
    BY DEF TurnOff
  <1>3. <<>> \in Seq({Rising, Falling})
    OBVIOUS
  <1>4. \A j \in Modules : [icReg[j] EXCEPT !.icm = Off, !.fifo = <<>>] \in IcRegs
    BY ZenonT(60), <1>1, <1>3 DEF IcRegs
  <1>5. TurnOff(icReg, S) \in [Modules -> IcRegs]
    BY <1>1, <1>4 DEF TurnOff
  <1>6. QED
    BY <1>1, <1>2, <1>5 DEF IcRegs

LEMMA TurnOffKeepsCaptures == ASSUME OwnerInv, CaptureInv, IcTurnOff PROVE OwnerInv' /\ CaptureInv'
  <1>1. /\ icMain.pc = "off" /\ icReg' = TurnOff(icReg, CfgSpan)
        /\ icMain' = [icMain EXCEPT !.pc = IF Cfg.mode # 0 THEN "prepare" ELSE "idle"]
        /\ icEcho' = IF Cfg.mode = 0 THEN [icEcho EXCEPT ![Cfg.k] = FALSE] ELSE icEcho
        /\ UNCHANGED <<icState, armed, icPin, icHost>>
    BY DEF IcTurnOff
  <1>2. /\ icMain' \in IcMains /\ icMain'.tmp = icMain.tmp /\ Cfg' = Cfg /\ CfgSpan' = CfgSpan
        /\ icMain'.pc = IF Cfg.mode # 0 THEN "prepare" ELSE "idle"
    BY <1>1 DEF OwnerInv, IcTypeOK, IcMains, IcPhases, Cfg, CfgSpan
  <1>3. /\ icReg' \in [Modules -> IcRegs]
        /\ \A j \in Modules :
             /\ icReg'[j].icm = IF j \in CfgSpan THEN Off ELSE icReg[j].icm
             /\ icReg'[j].fifo = IF j \in CfgSpan THEN <<>> ELSE icReg[j].fifo
             /\ icReg'[j].ici = icReg[j].ici /\ icReg'[j].double = icReg[j].double
             /\ icReg'[j].ie = icReg[j].ie /\ icReg'[j].if = icReg[j].if
    BY <1>1, CfgLayout, TurnedOff
  <1>4. IcTypeOK' /\ ConfigInv' /\ DoubleIsPair'
    <2>1. icEcho' \in [Modules -> BOOLEAN]
      BY <1>1 DEF OwnerInv, IcTypeOK
    <2>2. IcTypeOK' /\ DoubleIsPair'
      BY <1>1, <1>2, <1>3, <2>1 DEF OwnerInv, IcTypeOK, DoubleIsPair
    <2>3. icMain.pc # "idle" /\ (icMain'.pc # "idle" => icMain'.pc = "prepare" /\ Cfg.mode # 0)
      BY <1>1, <1>2
    <2>4. ConfigInv'
      BY <1>1, <1>2, <2>3 DEF OwnerInv, ConfigInv
    <2>5. QED
      BY <2>2, <2>4
  <1>5. EnabledIsOpen'
    BY <1>1, <1>2, <1>3 DEF OwnerInv, EnabledIsOpen
  <1>6. OpeningIsQuiet'
    BY <1>1, <1>2, <1>3, CfgLayout DEF OwnerInv, OpeningIsQuiet
  <1>7. PairsTogether'
    <2> SUFFICES ASSUME NEW o \in IcOpenings, o.double PROVE Together(o.k, o.k + 1)'
      BY DEF PairsTogether
    <2>1. Together(o.k, o.k + 1) /\ o.k \in Modules /\ o.k + 1 \in Modules
      BY Layout DEF OwnerInv, PairsTogether
    <2>2. QED
      BY SMTT(30), <1>1, <1>2, <1>3, <2>1, CfgPair DEF Together
  <1>8. CaptureInv'
    <2> SUFFICES ASSUME NEW k \in Modules, icReg[k].ie PROVE Captures(k)'
      BY <1>3 DEF CaptureInv
    <2>1. Captures(k) /\ k # Cfg.k
      BY <1>1 DEF CaptureInv, OwnerInv, OpeningIsQuiet
    <2>2. k \notin CfgSpan
      BY <1>1, <2>1, EnabledLayout, CfgLayout
    <2>3. icEcho'[k] = icEcho[k]
      BY <1>1, <2>1 DEF OwnerInv, IcTypeOK
    <2>4. QED
      BY <1>1, <1>3, <2>1, <2>2, <2>3 DEF Captures
  <1>9. QED
    BY <1>4, <1>5, <1>6, <1>7, <1>8 DEF OwnerInv

\* The modules that are prepared were off and have captured nothing.
LEMMA PrepareKeepsCaptures == ASSUME OwnerInv, CaptureInv, IcPrepare PROVE OwnerInv' /\ CaptureInv'
  <1>1. /\ icMain.pc = "prepare" /\ icMain' = [icMain EXCEPT !.pc = "arm"]
        /\ icEcho' = [icEcho EXCEPT ![Cfg.k] = TRUE] /\ UNCHANGED <<armed, icPin, icHost>>
    BY DEF IcPrepare
  <1>2. /\ icMain' \in IcMains /\ icMain'.pc = "arm" /\ icMain'.tmp = icMain.tmp /\ Cfg' = Cfg /\ CfgSpan' = CfgSpan
    BY <1>1 DEF OwnerInv, IcTypeOK, IcMains, IcPhases, Cfg, CfgSpan
  <1>a. Cfg.k \in Modules /\ Cfg.k \in CfgSpan /\ Cfg.double \in BOOLEAN /\ Cfg.mode \in 1..5 /\ CfgSpan \subseteq Modules
    BY <1>1, CfgLayout DEF OwnerInv, ConfigInv
  <1>b. icReg \in [Modules -> IcRegs] /\ icState \in [Modules -> IcStates]
    BY DEF OwnerInv, IcTypeOK
  <1>3. \A j \in Modules :
          /\ j = Cfg.k => icReg'[j] = [icReg[j] EXCEPT !.double = Cfg.double, !.if = FALSE, !.ie = TRUE]
          /\ j # Cfg.k /\ j \in CfgSpan => icReg'[j] = [icReg[j] EXCEPT !.double = TRUE]
          /\ j \notin CfgSpan => icReg'[j] = icReg[j]
    BY <1>a DEF IcPrepare
  <1>5. \A j \in Modules :
          /\ icReg'[j] \in IcRegs
          /\ icReg'[j].icm = icReg[j].icm /\ icReg'[j].fifo = icReg[j].fifo /\ icReg'[j].ici = icReg[j].ici
          /\ j = Cfg.k => icReg'[j].double = Cfg.double /\ icReg'[j].ie /\ ~icReg'[j].if
          /\ j # Cfg.k => icReg'[j].ie = icReg[j].ie /\ icReg'[j].if = icReg[j].if
          /\ j # Cfg.k /\ j \in CfgSpan => icReg'[j].double
          /\ j \notin CfgSpan => icReg'[j].double = icReg[j].double
    <2> SUFFICES ASSUME NEW j \in Modules
                 PROVE  /\ icReg'[j] \in IcRegs
                        /\ icReg'[j].icm = icReg[j].icm /\ icReg'[j].fifo = icReg[j].fifo /\ icReg'[j].ici = icReg[j].ici
                        /\ j = Cfg.k => icReg'[j].double = Cfg.double /\ icReg'[j].ie /\ ~icReg'[j].if
                        /\ j # Cfg.k => icReg'[j].ie = icReg[j].ie /\ icReg'[j].if = icReg[j].if
                        /\ j # Cfg.k /\ j \in CfgSpan => icReg'[j].double
                        /\ j \notin CfgSpan => icReg'[j].double = icReg[j].double
      OBVIOUS
    <2>1. icReg[j] \in IcRegs
      BY <1>b
    <2>2. CASE j = Cfg.k
      <3>1. icReg'[j] = [icReg[j] EXCEPT !.double = Cfg.double, !.if = FALSE, !.ie = TRUE]
        BY <1>3, <2>2
      <3>2. QED
        BY <1>a, <2>1, <2>2, <3>1 DEF IcRegs
    <2>3. CASE j # Cfg.k /\ j \in CfgSpan
      <3>1. icReg'[j] = [icReg[j] EXCEPT !.double = TRUE]
        BY <1>3, <2>3
      <3>2. QED
        BY <2>1, <2>3, <3>1 DEF IcRegs
    <2>4. CASE j \notin CfgSpan
      BY <1>3, <1>a, <2>1, <2>4
    <2>5. QED
      BY <2>2, <2>3, <2>4
  <1>4. icReg' \in [Modules -> IcRegs]
    <2>1. icReg' = [j \in Modules |-> icReg'[j]]
      BY DEF IcPrepare
    <2>2. QED
      BY <1>5, <2>1
  <1>6. \A j \in Modules :
          /\ j = Cfg.k => icState'[j] = [edge |-> IF FLIPS(Cfg.mode) THEN "LEADING" ELSE "TRAILING", flip |-> FLIPS(Cfg.mode),
                                         mode |-> Cfg.mode]
          /\ j # Cfg.k /\ j \in CfgSpan => icState'[j] = [icState[j] EXCEPT !.mode = Cfg.mode]
          /\ j \notin CfgSpan => icState'[j] = icState[j]
    BY <1>a DEF IcPrepare
  <1>8. /\ \A j \in Modules : /\ icState'[j] \in IcStates
                              /\ j \in CfgSpan => icState'[j].mode = Cfg.mode
                              /\ j \notin CfgSpan => icState'[j] = icState[j]
        /\ icState'[Cfg.k].flip = FLIPS(Cfg.mode)
        /\ icState'[Cfg.k].edge = IF FLIPS(Cfg.mode) THEN "LEADING" ELSE "TRAILING"
    <2>1. icState'[Cfg.k] = [edge |-> IF FLIPS(Cfg.mode) THEN "LEADING" ELSE "TRAILING", flip |-> FLIPS(Cfg.mode),
                             mode |-> Cfg.mode]
      BY <1>6, <1>a
    <2>2. icState'[Cfg.k].flip = FLIPS(Cfg.mode) /\ icState'[Cfg.k].edge = IF FLIPS(Cfg.mode) THEN "LEADING" ELSE "TRAILING"
      BY <2>1
    <2>3. ASSUME NEW j \in Modules
          PROVE  /\ icState'[j] \in IcStates
                 /\ j \in CfgSpan => icState'[j].mode = Cfg.mode
                 /\ j \notin CfgSpan => icState'[j] = icState[j]
      <3>1. icState[j] \in IcStates
        BY <1>b
      <3>f. FLIPS(Cfg.mode) \in BOOLEAN
        BY DEF FLIPS
      <3>2. CASE j \in CfgSpan
        <4>1. CASE j = Cfg.k
          BY <1>a, <2>1, <3>2, <3>f, <4>1 DEF IcStates
        <4>2. CASE j # Cfg.k
          <5>1. icState'[j] = [icState[j] EXCEPT !.mode = Cfg.mode]
            BY <1>6, <3>2, <4>2
          <5>2. QED
            BY <1>a, <3>1, <3>2, <5>1 DEF IcStates
        <4>3. QED
          BY <4>1, <4>2
      <3>3. CASE j \notin CfgSpan
        BY <1>6, <3>1, <3>3
      <3>4. QED
        BY <3>2, <3>3
    <2>4. QED
      BY <2>2, <2>3
  <1>7. icState' \in [Modules -> IcStates]
    <2>1. icState' = [j \in Modules |-> icState'[j]]
      BY DEF IcPrepare
    <2>2. QED
      BY <1>8, <2>1
  <1>9. IcTypeOK' /\ ConfigInv'
    <2>1. icEcho' \in [Modules -> BOOLEAN]
      BY <1>1 DEF OwnerInv, IcTypeOK
    <2>2. QED
      BY <1>1, <1>2, <1>4, <1>7, <2>1 DEF OwnerInv, IcTypeOK, ConfigInv
  <1>10. DoubleIsPair'
    <2> SUFFICES ASSUME NEW k \in Modules, icReg'[k].double PROVE \E o \in IcOpenings : o.double /\ k \in Span(o.k, TRUE)
      BY DEF DoubleIsPair
    <2>1. CASE k \in CfgSpan
      <3>1. PICK o \in IcOpenings : Cfg.k = o.k /\ Cfg.double = o.double /\ CfgSpan = Span(o.k, o.double)
        BY <1>1, CfgLayout
      <3>2. o.double
        BY <1>1, <1>5, <2>1, <3>1, CfgLayout
      <3>3. QED
        BY <2>1, <3>1, <3>2, Layout
    <2>2. CASE k \notin CfgSpan
      BY <1>5, <1>a, <2>2 DEF OwnerInv, DoubleIsPair
    <2>3. QED
      BY <2>1, <2>2
  <1>11. EnabledIsOpen'
    <2> SUFFICES ASSUME NEW k \in Modules, icReg'[k].ie
                 PROVE  \E o \in IcOpenings : o.k = k /\ icReg'[k].double = o.double /\ o \in icHost
      BY <1>1 DEF EnabledIsOpen
    <2>1. CASE k = Cfg.k
      BY <1>1, <1>5, <1>a, <2>1 DEF OwnerInv, ConfigInv, IcTypeOK
    <2>2. CASE k # Cfg.k
      <3>1. icReg[k].ie
        BY <1>5, <2>2
      <3>2. k \notin CfgSpan
        BY <1>1, <2>2, <3>1, EnabledLayout, CfgLayout
      <3>3. QED
        BY <1>1, <1>5, <2>2, <3>1, <3>2 DEF OwnerInv, EnabledIsOpen
    <2>3. QED
      BY <2>1, <2>2
  <1>12. OpeningIsQuiet'
    BY <1>2, <1>5, <1>a DEF OpeningIsQuiet
  <1>13. PairsTogether'
    <2> SUFFICES ASSUME NEW o \in IcOpenings, o.double PROVE Together(o.k, o.k + 1)'
      BY DEF PairsTogether
    <2>1. Together(o.k, o.k + 1) /\ o.k \in Modules /\ o.k + 1 \in Modules
      BY Layout DEF OwnerInv, PairsTogether
    <2>2. QED
      BY SMTT(30), <1>1, <1>2, <1>5, <1>8, <1>a, <2>1, CfgPair DEF Together
  <1>14. CaptureInv'
    <2> SUFFICES ASSUME NEW k \in Modules, icReg'[k].ie PROVE Captures(k)'
      BY DEF CaptureInv
    <2>1. CASE k = Cfg.k
      <3>1. icReg'[k].icm = Off /\ icEcho'[k] /\ ~icReg'[k].if
        BY <1>1, <1>5, <1>a, <2>1 DEF OwnerInv, OpeningIsQuiet, IcTypeOK
      <3>2. QED
        BY <1>8, <1>a, <2>1, <3>1 DEF Captures
    <2>2. CASE k # Cfg.k
      <3>1. icReg[k].ie
        BY <1>5, <2>2
      <3>2. k \notin CfgSpan
        BY <1>1, <2>2, <3>1, EnabledLayout, CfgLayout
      <3>3. Captures(k) /\ icEcho'[k] = icEcho[k]
        BY <1>1, <2>2, <3>1 DEF CaptureInv, OwnerInv, IcTypeOK
      <3>4. QED
        BY <1>5, <1>8, <2>2, <3>2, <3>3 DEF Captures
    <2>3. QED
      BY <2>1, <2>2
  <1>15. QED
    BY <1>9, <1>10, <1>11, <1>12, <1>13, <1>14 DEF OwnerInv

LEMMA ResetKeepsCaptures == ASSUME OwnerInv, CaptureInv, InCapInit PROVE OwnerInv' /\ CaptureInv'
  <1>1. /\ icMain.pc = "idle" /\ armed' = {} /\ icHost' = {} /\ icEcho' = [k \in Modules |-> FALSE]
        /\ UNCHANGED <<icState, icPin, icMain>>
    BY DEF InCapInit
  <1> DEFINE off == TurnOff(icReg, Modules)
  <1>2. /\ off \in [Modules -> IcRegs]
        /\ \A j \in Modules : off[j].icm = Off /\ off[j].fifo = <<>> /\ off[j].double = icReg[j].double
    BY TurnedOff
  <1>3. icReg' = [k \in Modules |-> [off[k] EXCEPT !.ie = FALSE]]
    BY DEF InCapInit
  <1> HIDE DEF off
  <1>4. /\ icReg' \in [Modules -> IcRegs]
        /\ \A j \in Modules : icReg'[j].icm = Off /\ icReg'[j].fifo = <<>> /\ icReg'[j].double = icReg[j].double /\ ~icReg'[j].ie
    <2>1. \A j \in Modules : [off[j] EXCEPT !.ie = FALSE] \in IcRegs
      BY ZenonT(60), <1>2 DEF IcRegs
    <2>2. QED
      BY <1>2, <1>3, <2>1 DEF IcRegs
  <1>5. IcTypeOK' /\ ConfigInv' /\ DoubleIsPair' /\ EnabledIsOpen' /\ OpeningIsQuiet'
    BY <1>1, <1>4 DEF OwnerInv, IcTypeOK, ConfigInv, DoubleIsPair, EnabledIsOpen, OpeningIsQuiet
  <1>6. PairsTogether'
    BY <1>1, <1>4, Layout DEF OwnerInv, PairsTogether, Together
  <1>7. QED
    BY <1>4, <1>5, <1>6 DEF OwnerInv, CaptureInv

-----------------------------------------------------------------------------
(* The interrupts and the modules.                                         *)

LEMMA TimerKeepsCaptures == ASSUME OwnerInv, CaptureInv, T5Interrupt PROVE OwnerInv' /\ CaptureInv'
  <1>1. armed' = {} /\ UNCHANGED <<icState, icPin, icMain, icHost, icEcho>> /\ Cfg' = Cfg /\ CfgSpan' = CfgSpan
    BY DEF T5Interrupt, Cfg, CfgSpan
  <1>2. icReg \in [Modules -> IcRegs] /\ icState \in [Modules -> IcStates] /\ armed \subseteq Modules
    BY DEF OwnerInv, IcTypeOK
  <1>3. \A j \in Modules :
          /\ j \in armed => icReg'[j] = [icReg[j] EXCEPT !.icm = ICM(icState[j].mode), !.ici = PerInterrupt(icState[j].mode)]
          /\ j \notin armed => icReg'[j] = icReg[j]
    BY DEF T5Interrupt
  <1>4. ASSUME NEW j \in Modules
        PROVE  /\ icReg'[j] \in IcRegs
               /\ icReg'[j].fifo = icReg[j].fifo /\ icReg'[j].double = icReg[j].double
               /\ icReg'[j].ie = icReg[j].ie /\ icReg'[j].if = icReg[j].if
               /\ j \in armed => icReg'[j].icm = ICM(icState[j].mode) /\ icReg'[j].ici = PerInterrupt(icState[j].mode)
               /\ j \notin armed => icReg'[j].icm = icReg[j].icm /\ icReg'[j].ici = icReg[j].ici
    <2>1. /\ ICM(icState[j].mode) \in {Off, Rising, Falling} /\ PerInterrupt(icState[j].mode) \in {1, 2}
          /\ icReg[j] \in IcRegs
      BY <1>2 DEF ICM, PerInterrupt
    <2>2. CASE j \in armed
      <3>1. icReg'[j] = [icReg[j] EXCEPT !.icm = ICM(icState[j].mode), !.ici = PerInterrupt(icState[j].mode)]
        BY <1>3, <2>2
      <3>2. QED
        BY <2>1, <2>2, <3>1 DEF IcRegs
    <2>3. CASE j \notin armed
      BY <1>3, <2>1, <2>3
    <2>4. QED
      BY <2>2, <2>3
  <1>5. icReg' \in [Modules -> IcRegs]
    <2>1. icReg' = [j \in Modules |-> icReg'[j]]
      BY DEF T5Interrupt
    <2>2. QED
      BY <1>4, <2>1
  <1>6. IcTypeOK' /\ ConfigInv' /\ DoubleIsPair'
    BY <1>1, <1>4, <1>5 DEF OwnerInv, IcTypeOK, ConfigInv, DoubleIsPair
  <1>7. EnabledIsOpen'
    BY <1>1, <1>4 DEF OwnerInv, EnabledIsOpen
  <1>8. OpeningIsQuiet'
    <2>1. CASE icMain.pc = "idle"
      BY <1>1, <2>1 DEF OpeningIsQuiet
    <2>2. CASE icMain.pc # "idle"
      <3>1. Cfg.k \in Modules /\ CfgSpan \subseteq Modules
        BY <2>2, CfgLayout
      <3>2. icMain.pc = "prepare" => Cfg.mode # 0
        BY DEF OwnerInv, ConfigInv
      <3>3. QED
        BY <1>1, <1>4, <3>1, <3>2 DEF OwnerInv, OpeningIsQuiet
    <2>3. QED
      BY <2>1, <2>2
  <1>9. PairsTogether'
    <2> SUFFICES ASSUME NEW o \in IcOpenings, o.double PROVE Together(o.k, o.k + 1)'
      BY DEF PairsTogether
    <2>1. Together(o.k, o.k + 1) /\ o.k \in Modules /\ o.k + 1 \in Modules
      BY Layout DEF OwnerInv, PairsTogether
    <2>2. QED
      BY ZenonT(60), <1>1, <1>4, <2>1 DEF Together
  <1>10. CaptureInv'
    BY <1>1, <1>4 DEF CaptureInv, Captures
  <1>11. QED
    BY <1>6, <1>7, <1>8, <1>9, <1>10 DEF OwnerInv

LEMMA EdgeKeepsCaptures == ASSUME OwnerInv, CaptureInv, NEW k \in Modules, IcEdge(k) PROVE OwnerInv' /\ CaptureInv'
  <1> DEFINE edge == IF icPin[k] = 0 THEN Rising ELSE Falling
             span == Span(k, icReg[k].double)
             Taken(j) == j \in span /\ icReg[j].icm = edge /\ Len(icReg[j].fifo) < FifoDepth
             flag(j) == icReg[j].if \/ (j = k /\ (Len(icReg[j].fifo) + 1) % icReg[j].ici = 0)
  <1>1. /\ icReg[k].icm # Off /\ k \notin Seconds /\ icPin' = [icPin EXCEPT ![k] = 1 - @]
        /\ UNCHANGED <<icState, armed, icMain, icHost, icEcho>> /\ Cfg' = Cfg /\ CfgSpan' = CfgSpan
    BY DEF IcEdge, Cfg, CfgSpan
  <1>2. icReg \in [Modules -> IcRegs] /\ edge \in {Rising, Falling} /\ edge # Off
    BY DEF OwnerInv, IcTypeOK, Rising, Falling, Off
  <1>3. \A j \in Modules :
          /\ Taken(j) => icReg'[j] = [icReg[j] EXCEPT !.fifo = Append(@, edge), !.if = flag(j)]
          /\ ~Taken(j) => icReg'[j] = icReg[j]
    BY DEF IcEdge
  <1>4. ASSUME NEW j \in Modules
        PROVE  /\ icReg'[j] \in IcRegs
               /\ icReg'[j].icm = icReg[j].icm /\ icReg'[j].ici = icReg[j].ici /\ icReg'[j].double = icReg[j].double
               /\ icReg'[j].ie = icReg[j].ie
               /\ Taken(j) => Len(icReg'[j].fifo) = Len(icReg[j].fifo) + 1 /\ icReg'[j].if = flag(j)
               /\ ~Taken(j) => icReg'[j].fifo = icReg[j].fifo /\ icReg'[j].if = icReg[j].if
    <2>1. icReg[j] \in IcRegs /\ icReg[j].fifo \in Seq({Rising, Falling}) /\ flag(j) \in BOOLEAN
      BY <1>2 DEF IcRegs
    <2> HIDE DEF edge, Taken, flag
    <2>2. CASE Taken(j)
      <3>1. icReg'[j] = [icReg[j] EXCEPT !.fifo = Append(@, edge), !.if = flag(j)]
        BY <1>3, <2>2
      <3>2. /\ Append(icReg[j].fifo, edge) \in Seq({Rising, Falling})
            /\ Len(Append(icReg[j].fifo, edge)) = Len(icReg[j].fifo) + 1
        BY <1>2, <2>1
      <3>3. QED
        BY <2>1, <2>2, <3>1, <3>2 DEF IcRegs
    <2>3. CASE ~Taken(j)
      BY <1>3, <2>1, <2>3
    <2>4. QED
      BY <2>2, <2>3
  <1>5. icReg' \in [Modules -> IcRegs]
    <2>1. icReg' = [j \in Modules |-> icReg'[j]]
      BY DEF IcEdge
    <2>2. QED
      BY <1>4, <2>1
  <1>6. \A j \in Modules : Taken(j) => icReg[j].icm # Off /\ j \in span
    BY <1>2
  <1>7. IcTypeOK' /\ ConfigInv' /\ DoubleIsPair'
    <2>1. icPin' \in [Modules -> {0, 1}]
      BY <1>1 DEF OwnerInv, IcTypeOK
    <2> HIDE DEF edge, span, Taken, flag
    <2>2. QED
      BY <1>1, <1>4, <1>5, <2>1 DEF OwnerInv, IcTypeOK, ConfigInv, DoubleIsPair
  <1>8. EnabledIsOpen'
    <2> HIDE DEF edge, span, Taken, flag
    <2>1. QED
      BY <1>1, <1>4 DEF OwnerInv, EnabledIsOpen
  <1>9. OpeningIsQuiet'
    <2> HIDE DEF edge, span, Taken, flag
    <2>1. CASE icMain.pc = "idle"
      BY <1>1, <2>1 DEF OpeningIsQuiet
    <2>2. CASE icMain.pc # "idle"
      <3>1. Cfg.k \in Modules /\ CfgSpan \subseteq Modules
        BY <2>2, CfgLayout
      <3>2. QED
        BY <1>1, <1>4, <1>6, <3>1 DEF OwnerInv, OpeningIsQuiet
    <2>3. QED
      BY <2>1, <2>2
  <1>10. PairsTogether'
    <2> SUFFICES ASSUME NEW o \in IcOpenings, o.double PROVE Together(o.k, o.k + 1)'
      BY DEF PairsTogether
    <2>1. Together(o.k, o.k + 1) /\ o.k \in Modules /\ o.k + 1 \in Modules
      BY Layout DEF OwnerInv, PairsTogether
    <2>2. o.k \in span <=> o.k + 1 \in span
      <3>1. k # o.k + 1
        BY <1>1 DEF Seconds
      <3>2. CASE k = o.k
        BY <1>1, <2>1, <3>2, SpanOf DEF Together
      <3>3. CASE k # o.k /\ icReg[k].double
        <4>1. PICK p \in IcOpenings : p.double /\ k \in Span(p.k, TRUE)
          BY <3>3 DEF OwnerInv, DoubleIsPair
        <4>a. k # p.k + 1
          BY <1>1, <4>1 DEF Seconds
        <4>b. Span(p.k, p.double) = {p.k, p.k + 1} /\ Span(o.k, o.double) = {o.k, o.k + 1} /\ Span(p.k, TRUE) = {p.k, p.k + 1}
          BY <4>1 DEF Span
        <4>2. k = p.k /\ p.k \in Int /\ Span(p.k, p.double) = {p.k, p.k + 1} /\ Span(o.k, o.double) = {o.k, o.k + 1}
          BY <4>1, <4>a, <4>b, Layout
        <4>3. p.k # o.k
          BY <3>3, <4>2
        <4>4. {p.k, p.k + 1} \cap {o.k, o.k + 1} = {}
          BY <4>2, <4>3, SameModules
        <4>5. span = {k, k + 1}
          BY <3>3 DEF Span
        <4>6. QED
          BY <4>2, <4>4, <4>5
      <3>4. CASE k # o.k /\ ~icReg[k].double
        BY <3>1, <3>4 DEF Span
      <3>5. QED
        BY <3>2, <3>3, <3>4
    <2>3. Taken(o.k) <=> Taken(o.k + 1)
      BY <2>1, <2>2 DEF Together
    <2> HIDE DEF edge, span, Taken, flag
    <2>4. Len(icReg'[o.k].fifo) = Len(icReg'[o.k + 1].fifo)
      BY ZenonT(60), <1>4, <2>1, <2>3 DEF Together
    <2>5. /\ icReg'[o.k].icm = icReg[o.k].icm /\ icReg'[o.k + 1].icm = icReg[o.k + 1].icm
          /\ icReg'[o.k].double = icReg[o.k].double
      BY <1>4, <2>1
    <2>6. QED
      BY <1>1, <2>1, <2>4, <2>5 DEF Together
  <1>11. CaptureInv'
    <2> SUFFICES ASSUME NEW j \in Modules, icReg[j].ie PROVE Captures(j)'
      BY <1>4 DEF CaptureInv
    <2>1. Captures(j) /\ icReg[j] \in IcRegs /\ Len(icReg[j].fifo) \in Nat
      BY <1>2 DEF CaptureInv, IcRegs
    <2>2. CASE ~Taken(j)
      <3> HIDE DEF edge, span, Taken, flag
      <3>1. QED
        BY <1>1, <1>4, <2>1, <2>2 DEF Captures
    <2>3. CASE Taken(j)
      <3>1. icReg[j].ici = PerInterrupt(icState[j].mode)
        BY <1>6, <2>1, <2>3 DEF Captures
      <3>2. icReg'[j].if /\ icState[j].edge = "TRAILING" => Len(icReg[j].fifo) + 1 >= 2
        <4>1. CASE icReg[j].if
          BY <2>1, <4>1 DEF Captures
        <4>2. CASE icState[j].flip
          BY <2>1, <4>2 DEF Captures
        <4>3. CASE ~icReg[j].if /\ ~icState[j].flip
          <5>1. icReg[j].ici = 2
            BY <2>1, <3>1, <4>3 DEF Captures, PerInterrupt
          <5>2. flag(j) => (Len(icReg[j].fifo) + 1) % 2 = 0
            BY <4>3, <5>1
          <5>a. (0 + 1) % 2 # 0
            OBVIOUS
          <5>3. flag(j) => Len(icReg[j].fifo) # 0
            BY <5>2, <5>a
          <5>4. QED
            <6>1. icReg'[j].if = flag(j)
              BY <1>4, <2>3
            <6> HIDE DEF flag
            <6>2. QED
              BY <2>1, <5>3, <6>1
        <4>4. QED
          BY <4>1, <4>2, <4>3
      <3> HIDE DEF edge, span, Taken, flag
      <3>3. QED
        BY <1>1, <1>4, <2>1, <2>3, <3>1, <3>2 DEF Captures
    <2>4. QED
      BY <2>2, <2>3
  <1>12. QED
    BY <1>7, <1>8, <1>9, <1>10, <1>11 DEF OwnerInv

\* The interrupt of a module reaches no module that is configured, and no other enabled one.
LEMMA InterruptLayout ==
    ASSUME OwnerInv, NEW k \in Modules, icReg[k].ie
    PROVE  /\ icMain.pc # "idle" /\ k # Cfg.k => Span(k, icReg[k].double) \cap CfgSpan = {}
           /\ \A j \in Modules : icReg[j].ie /\ j # k => j \notin Span(k, icReg[k].double)
           /\ \A o \in IcOpenings : o.double =>
                \/ o.k \notin Span(k, icReg[k].double) /\ o.k + 1 \notin Span(k, icReg[k].double)
                \/ k = o.k /\ icReg[k].double /\ Span(k, icReg[k].double) = {o.k, o.k + 1}
  <1>1. PICK q \in IcOpenings : q.k = k /\ q.double = icReg[k].double
    BY EnabledLayout
  <1>2. Span(k, icReg[k].double) = Span(q.k, q.double)
    BY <1>1
  <1>3. icMain.pc # "idle" /\ k # Cfg.k => Span(q.k, q.double) \cap CfgSpan = {}
    BY <1>1, CfgLayout, SameModules
  <1>4. \A j \in Modules : icReg[j].ie /\ j # k => j \notin Span(q.k, q.double)
    <2> SUFFICES ASSUME NEW j \in Modules, icReg[j].ie, j # k PROVE j \notin Span(q.k, q.double)
      OBVIOUS
    <2>1. q.double => j # q.k + 1
      BY EnabledLayout
    <2>2. QED
      BY <1>1, <2>1, SpanOf, Layout
  <1>5. ASSUME NEW o \in IcOpenings, o.double
        PROVE  \/ o.k \notin Span(q.k, q.double) /\ o.k + 1 \notin Span(q.k, q.double)
               \/ q.k = o.k /\ q.double /\ Span(q.k, q.double) = {o.k, o.k + 1}
    <2>1. Span(o.k, o.double) = {o.k, o.k + 1}
      BY <1>5, SpanOf
    <2>2. CASE \E j \in Span(q.k, q.double) : j \in Span(o.k, o.double)
      BY <1>5, <2>1, <2>2, SameModules
    <2>3. CASE ~\E j \in Span(q.k, q.double) : j \in Span(o.k, o.double)
      BY <2>1, <2>3
    <2>4. QED
      BY <2>2, <2>3
  <1>6. QED
    BY <1>1, <1>2, <1>3, <1>4, <1>5

LEMMA InterruptKeepsCaptures ==
    ASSUME IcInv, NEW k \in Modules, ICInterrupt(k)
    PROVE  IcInv'
  <1> DEFINE span == Span(k, icReg[k].double)
  <1>1. /\ icReg[k].ie /\ icReg[k].if /\ OwnerInv /\ Captures(k)
        /\ UNCHANGED <<icPin, icMain, icHost, icEcho>> /\ Cfg' = Cfg /\ CfgSpan' = CfgSpan
    BY DEF IcInv, CaptureInv, ICInterrupt, Cfg, CfgSpan
  <1>2. /\ icReg \in [Modules -> IcRegs] /\ icState \in [Modules -> IcStates] /\ k \in span /\ span \subseteq Modules
        /\ icMain.pc # "idle" /\ k # Cfg.k => span \cap CfgSpan = {}
        /\ \A j \in Modules : icReg[j].ie /\ j # k => j \notin span
        /\ \A o \in IcOpenings : o.double =>
             \/ o.k \notin span /\ o.k + 1 \notin span
             \/ k = o.k /\ icReg[k].double /\ span = {o.k, o.k + 1}
    BY <1>1, EnabledLayout, InterruptLayout DEF OwnerInv, IcTypeOK
  <1>3. \A j \in span : Len(icReg[j].fifo) = Len(icReg[k].fifo)
    <2>1. CASE ~icReg[k].double
      BY <2>1 DEF Span
    <2>2. CASE icReg[k].double
      <3>1. PICK q \in IcOpenings : q.k = k /\ q.double
        BY <1>1, <2>2, EnabledLayout
      <3>2. QED
        BY <1>1, <2>2, <3>1 DEF OwnerInv, PairsTogether, Together, Span
    <2>3. QED
      BY <2>1, <2>2, <1>1 DEF OwnerInv, IcTypeOK, IcRegs
  <1> HIDE DEF span
  <1>4. /\ icFault' = icFault
        /\ armed' \in SUBSET Modules
        /\ icReg' \in [Modules -> IcRegs] /\ icState' \in [Modules -> IcStates]
        /\ armed' = armed \/ armed' = armed \cup span
        /\ ~icReg'[k].if
        /\ \A j \in Modules : /\ icReg'[j].ie = icReg[j].ie /\ icReg'[j].ici = icReg[j].ici /\ icReg'[j].double = icReg[j].double
                              /\ j \notin span => icReg'[j] = icReg[j]
                              /\ icState'[j].mode = icState[j].mode /\ icState'[j].flip = icState[j].flip
                              /\ j # k => icState'[j] = icState[j]
        /\ \/ /\ \A j \in span : icReg'[j].icm = (IF icState[k].flip THEN Flipped(icReg[j].icm) ELSE icReg[j].icm)
              /\ \A j \in span : icReg'[j].fifo = icReg[j].fifo
              /\ icState[k].edge = "LEADING" /\ icState'[k].edge = "TRAILING"
           \/ /\ \A j \in span : icReg'[j].icm = Off /\ icReg'[j].fifo = <<>>
              /\ icState'[k].edge = IF icState[k].flip THEN "LEADING" ELSE icState[k].edge
    <2>0. k \in Modules /\ icReg[k] \in IcRegs /\ icState[k] \in IcStates
      BY <1>2
    <2>1. CASE icState[k].edge = "LEADING"
      <3> DEFINE flipped == [j \in Modules |-> IF j \in span /\ icState[k].flip THEN [icReg[j] EXCEPT !.icm = Flipped(@)] ELSE icReg[j]]
      <3>1. /\ icReg' = [flipped EXCEPT ![k].if = FALSE] /\ icState' = [icState EXCEPT ![k].edge = "TRAILING"]
            /\ UNCHANGED <<armed, icFault>>
        BY <2>1 DEF ICInterrupt, span
      <3>2. ASSUME NEW j \in Modules
            PROVE  /\ flipped[j] \in IcRegs
                   /\ flipped[j].ie = icReg[j].ie /\ flipped[j].ici = icReg[j].ici /\ flipped[j].double = icReg[j].double
                   /\ flipped[j].fifo = icReg[j].fifo
                   /\ j \in span => flipped[j].icm = (IF icState[k].flip THEN Flipped(icReg[j].icm) ELSE icReg[j].icm)
                   /\ j \notin span => flipped[j] = icReg[j]
        <4>1. icReg[j] \in IcRegs /\ icReg[j].icm \in {Off, Rising, Falling}
          BY <1>2 DEF IcRegs
        <4>2. Flipped(icReg[j].icm) \in {Off, Rising, Falling}
          BY <4>1 DEF Flipped, Off, Rising, Falling
        <4>3. CASE j \in span /\ icState[k].flip
          <5>1. flipped[j] = [icReg[j] EXCEPT !.icm = Flipped(@)]
            BY <4>3
          <5> HIDE DEF flipped
          <5>2. QED
            BY <4>1, <4>2, <4>3, <5>1 DEF IcRegs
        <4>4. CASE ~(j \in span /\ icState[k].flip)
          BY <4>1, <4>4
        <4>5. QED
          BY <4>3, <4>4
      <3>3. DOMAIN flipped = Modules /\ flipped = [j \in Modules |-> flipped[j]]
        OBVIOUS
      <3> HIDE DEF flipped
      <3>4. \A j \in Modules : icReg'[j] = IF j = k THEN [flipped[k] EXCEPT !.if = FALSE] ELSE flipped[j]
        BY <3>1, <3>3
      <3>5. /\ [flipped[k] EXCEPT !.if = FALSE] \in IcRegs
            /\ icReg'[k].ie = flipped[k].ie /\ icReg'[k].ici = flipped[k].ici /\ icReg'[k].double = flipped[k].double
            /\ icReg'[k].icm = flipped[k].icm /\ icReg'[k].fifo = flipped[k].fifo /\ ~icReg'[k].if
        BY <3>2, <3>4, <2>0 DEF IcRegs
      <3>6. icReg' \in [Modules -> IcRegs]
        BY <3>1, <3>2, <3>3, <3>5
      <3>7. /\ icState' \in [Modules -> IcStates] /\ icState'[k].edge = "TRAILING"
            /\ \A j \in Modules : /\ icState'[j].mode = icState[j].mode /\ icState'[j].flip = icState[j].flip
                                  /\ j # k => icState'[j] = icState[j]
        BY <1>2, <3>1, <2>0 DEF IcStates
      <3>8. armed' \in SUBSET Modules
        BY <1>1, <3>1 DEF OwnerInv, IcTypeOK
      <3>9. QED
        BY <1>2, <2>1, <3>1, <3>2, <3>4, <3>5, <3>6, <3>7, <3>8
    <2>2. CASE icState[k].edge # "LEADING"
      <3> DEFINE off == TurnOff(icReg, span)
      <3>1. /\ ReportCapture(k, span) /\ icReg' = [off EXCEPT ![k].if = FALSE]
            /\ icState' = IF icState[k].flip THEN [icState EXCEPT ![k].edge = "LEADING"] ELSE icState
            /\ armed' = armed \cup span
        BY <2>2 DEF ICInterrupt, span
      <3>2. icState[k].edge = "TRAILING"
        BY <2>0, <2>2 DEF IcStates
      <3>3. Len(icReg[k].fifo) \in Nat /\ Len(icReg[k].fifo) >= 2 /\ icEcho[k]
        BY <1>1, <2>0, <3>2 DEF Captures, IcRegs
      <3>4. icFault' = icFault
        BY <1>3, <3>1, <3>3 DEF ReportCapture
      <3>5. /\ off \in [Modules -> IcRegs]
            /\ \A j \in Modules :
                 /\ off[j].icm = IF j \in span THEN Off ELSE icReg[j].icm
                 /\ off[j].fifo = IF j \in span THEN <<>> ELSE icReg[j].fifo
                 /\ off[j].ici = icReg[j].ici /\ off[j].double = icReg[j].double
                 /\ off[j].ie = icReg[j].ie /\ off[j].if = icReg[j].if
        BY <1>1, <1>2, TurnedOff
      <3>6. \A j \in Modules : j \notin span => off[j] = icReg[j]
        BY DEF TurnOff
      <3> HIDE DEF off
      <3>7. \A j \in Modules : icReg'[j] = IF j = k THEN [off[k] EXCEPT !.if = FALSE] ELSE off[j]
        BY <3>1, <3>5
      <3>8. /\ [off[k] EXCEPT !.if = FALSE] \in IcRegs
            /\ icReg'[k].ie = off[k].ie /\ icReg'[k].ici = off[k].ici /\ icReg'[k].double = off[k].double
            /\ icReg'[k].icm = off[k].icm /\ icReg'[k].fifo = off[k].fifo /\ ~icReg'[k].if
        BY <2>0, <3>5, <3>7 DEF IcRegs
      <3>9. icReg' \in [Modules -> IcRegs]
        BY <3>1, <3>5, <3>8
      <3>10. /\ icState' \in [Modules -> IcStates]
             /\ icState'[k].edge = IF icState[k].flip THEN "LEADING" ELSE icState[k].edge
             /\ \A j \in Modules : /\ icState'[j].mode = icState[j].mode /\ icState'[j].flip = icState[j].flip
                                   /\ j # k => icState'[j] = icState[j]
        BY <1>2, <3>1, <2>0 DEF IcStates
      <3>11. armed' \in SUBSET Modules
        BY <1>1, <1>2, <3>1 DEF OwnerInv, IcTypeOK
      <3>12. QED
        BY <1>2, <3>1, <3>4, <3>5, <3>6, <3>7, <3>8, <3>9, <3>10, <3>11
    <2>3. QED
      BY <2>1, <2>2
  <1>5. IcTypeOK' /\ ConfigInv' /\ DoubleIsPair'
    BY <1>1, <1>4 DEF OwnerInv, IcTypeOK, ConfigInv, DoubleIsPair
  <1>6. EnabledIsOpen'
    BY <1>1, <1>4 DEF OwnerInv, EnabledIsOpen
  <1>7. OpeningIsQuiet'
    <2>1. CASE icMain.pc = "idle"
      BY <1>1, <2>1 DEF OpeningIsQuiet
    <2>2. CASE icMain.pc # "idle"
      <3>1. Cfg.k \in Modules /\ CfgSpan \subseteq Modules
        BY <1>1, <2>2, CfgLayout
      <3>2. CASE k = Cfg.k
        BY <1>1, <1>4, <3>1, <3>2 DEF OwnerInv, OpeningIsQuiet, ConfigInv
      <3>3. CASE k # Cfg.k
        BY <1>1, <1>2, <1>4, <2>2, <3>1, <3>3 DEF OwnerInv, OpeningIsQuiet
      <3>4. QED
        BY <3>2, <3>3
    <2>3. QED
      BY <2>1, <2>2
  <1>8. PairsTogether'
    <2> SUFFICES ASSUME NEW o \in IcOpenings, o.double PROVE Together(o.k, o.k + 1)'
      BY DEF PairsTogether
    <2>1. Together(o.k, o.k + 1) /\ o.k \in Modules /\ o.k + 1 \in Modules
      BY <1>1, Layout DEF OwnerInv, PairsTogether
    <2>2. CASE o.k \notin span /\ o.k + 1 \notin span
      BY <1>1, <1>4, <2>1, <2>2 DEF Together
    <2>3. CASE k = o.k /\ icReg[k].double /\ span = {o.k, o.k + 1}
      BY <1>1, <1>4, <2>1, <2>3 DEF Together
    <2>4. QED
      BY <1>2, <2>2, <2>3
  <1>9. CaptureInv'
    <2> SUFFICES ASSUME NEW j \in Modules, icReg[j].ie PROVE Captures(j)'
      BY <1>4 DEF CaptureInv
    <2>1. Captures(j)
      BY DEF IcInv, CaptureInv
    <2>2. CASE j # k
      BY <1>1, <1>2, <1>4, <2>1, <2>2 DEF Captures
    <2>3. CASE j = k
      BY <1>1, <1>2, <1>4, <2>1, <2>3 DEF Captures, Flipped, Off, Rising, Falling
    <2>4. QED
      BY <2>2, <2>3
  <1>10. QED
    BY <1>4, <1>5, <1>6, <1>7, <1>8, <1>9 DEF IcInv, OwnerInv, CapturesAreSound

LEMMA NextCaptures == IcInv /\ [IcNext]_icVars => IcInv'
  <1> SUFFICES ASSUME IcInv, [IcNext]_icVars PROVE IcInv'
    OBVIOUS
  <1> OwnerInv /\ CaptureInv /\ CapturesAreSound
    BY DEF IcInv
  <1>1. CASE IcHostConfigures
    <2>1. UNCHANGED <<icReg, icState, icEcho, icFault>>
      BY <1>1 DEF IcHostConfigures
    <2>2. QED
      BY <1>1, <2>1, HostKeepsOwner, RegistersStay DEF IcInv, CapturesAreSound
  <1>2. CASE IcArming
    <2>1. UNCHANGED <<icReg, icState, icEcho, icFault>>
      BY <1>2 DEF IcArming
    <2>2. QED
      BY <1>2, <2>1, ArmingKeepsOwner, RegistersStay DEF IcInv, CapturesAreSound
  <1>3. CASE InCapInit \/ IcDisable \/ IcTurnOff \/ IcPrepare
    <2>1. UNCHANGED icFault
      BY <1>3 DEF InCapInit, IcDisable, IcTurnOff, IcPrepare
    <2>2. QED
      BY <1>3, <2>1, ResetKeepsCaptures, DisableKeepsCaptures, TurnOffKeepsCaptures, PrepareKeepsCaptures
      DEF IcInv, CapturesAreSound
  <1>4. CASE \E k \in Modules : ICInterrupt(k)
    BY <1>4, InterruptKeepsCaptures
  <1>5. CASE \E k \in Modules : IcEdge(k)
    <2>1. PICK k \in Modules : IcEdge(k)
      BY <1>5
    <2>2. UNCHANGED icFault
      BY <2>1 DEF IcEdge
    <2>3. QED
      BY <2>1, <2>2, EdgeKeepsCaptures DEF IcInv, CapturesAreSound
  <1>6. CASE T5Interrupt
    <2>1. UNCHANGED icFault
      BY <1>6 DEF T5Interrupt
    <2>2. QED
      BY <1>6, <2>1, TimerKeepsCaptures DEF IcInv, CapturesAreSound
  <1>7. CASE UNCHANGED icVars
    <2> USE <1>7 DEF icVars
    <2>1. Cfg' = Cfg /\ CfgSpan' = CfgSpan
      BY DEF Cfg, CfgSpan
    <2>2. IcTypeOK' /\ DoubleIsPair'
      BY DEF OwnerInv, IcTypeOK, DoubleIsPair
    <2>a. ConfigInv' /\ EnabledIsOpen'
      BY <2>1 DEF OwnerInv, ConfigInv, EnabledIsOpen
    <2>3. OpeningIsQuiet' /\ PairsTogether'
      BY <2>1 DEF OwnerInv, OpeningIsQuiet, PairsTogether, Together
    <2>4. QED
      BY <2>2, <2>3, <2>a, RegistersStay DEF IcInv, OwnerInv, CapturesAreSound
  <1>8. QED
    BY <1>1, <1>2, <1>3, <1>4, <1>5, <1>6, <1>7 DEF IcNext

(***************************************************************************)
(* A report is made of two captures that are in the FIFO, and comes only   *)
(* between the echo of an opening and that of its close, for any number of *)
(* modules, in pairs and single, and any number of configurations racing   *)
(* the capture and timer interrupts.  The argument: until a module is      *)
(* prepared its interrupt is disabled and nobody else can arm it           *)
(* (OpeningIsQuiet), so its first capture comes after con1_vals and        *)
(* edge_states are those of the opening; the halves of a pair capture      *)
(* together (PairsTogether); and from then on every interrupt finds as     *)
(* many captures as its edge state says (Captures).                        *)
(***************************************************************************)
THEOREM CapturesSound == IcSpec => []CapturesAreSound
  <1>1. IcInv => CapturesAreSound
    BY DEF IcInv
  <1>2. QED
    BY <1>1, InitCaptures, NextCaptures, PTL DEF IcSpec

-----------------------------------------------------------------------------
(* Analog inputs.                                                          *)

AnInts == [T3IE : BOOLEAN, AD1IE : BOOLEAN, CRCIE : BOOLEAN, AD1IF : BOOLEAN, CRCIF : BOOLEAN]
AnHosts == [format : SUBSET Channels, capsense : SUBSET Channels, listeners : [Channels -> Int], open : [Channels -> BOOLEAN]]
AnMains == [pc : {"idle", "blocked", "stopping"},
            request : [kind : {"none", "scan", "capsense"}, channel : Channels, enable : BOOLEAN]]

AnTypeOK ==
  /\ analog_scan_bitmask \in SUBSET Channels /\ capsense_bitmask \in SUBSET Channels
  /\ capsense_dirty_bitmask \in SUBSET Channels /\ capsense_sample \in BOOLEAN /\ t3_int_counter \in Nat
  /\ AD1CSSL \in SUBSET Channels /\ anInt \in AnInts /\ anConv \in {"idle", "scan", "capsense"}
  /\ anMain \in AnMains /\ anIsr \in BOOLEAN /\ anHost \in AnHosts

Sampled == analog_scan_bitmask \cup capsense_bitmask

\* A sample is under way until _CRCInterrupt has taken its result.
Converted == anInt.CRCIF /\ ~anIsr
UnderWay == anConv # "idle" \/ Converted

\* Without channels there are no interrupts; the last channel goes in two steps of the main loop.
StoppedIsQuiet ==
  /\ anMain.pc = "blocked" => Sampled # {}
  /\ anMain.pc = "stopping" => Sampled = {} /\ ~anInt.AD1IE
  /\ anMain.pc = "idle" /\ Sampled = {} => ~anInt.T3IE /\ ~anInt.AD1IE /\ ~anInt.CRCIE /\ anConv = "idle"

\* Each of the main loop and a sample under way blocks the timer.  A sample whose end is lost
\* leaves the counter higher, never lower.
BlocksAreCounted ==
  /\ anInt.T3IE => t3_int_counter = 0
  /\ anMain.pc # "idle" => t3_int_counter >= 1
  /\ Sampled # {} \/ anMain.pc # "idle" =>
       /\ UnderWay => t3_int_counter >= 1
       /\ UnderWay /\ anMain.pc # "idle" => t3_int_counter >= 2

\* A result is that of the sample last begun, and of what the host has heard of.
ResultsBelong ==
  /\ anHost.format = AD1CSSL
  /\ anConv = "scan" => ~capsense_sample
  /\ anConv = "capsense" => capsense_sample
  /\ anConv # "idle" => ~Converted
  /\ Converted /\ anInt.CRCIE /\ ~capsense_sample => anBuf = AD1CSSL
  /\ anConv = "capsense" \/ (Converted /\ anInt.CRCIE /\ capsense_sample) =>
       capsense_current \in anHost.capsense \cup capsense_bitmask \cup capsense_dirty_bitmask

AnInv == AnTypeOK /\ StoppedIsQuiet /\ BlocksAreCounted /\ ResultsBelong /\ SamplesAreSound

-----------------------------------------------------------------------------
LEMMA InitSamples == AnInit => AnInv
  <1> SUFFICES ASSUME AnInit PROVE AnInv
    OBVIOUS
  <1>1. 0 \in Channels /\ IntOff \in AnInts /\ NoListeners \in AnHosts /\ NoListeners.format = {}
    BY AnAssumption DEF Channels, IntOff, AnInts, NoListeners, AnHosts
  <1>2. AnTypeOK
    BY <1>1 DEF AnInit, AnTypeOK, AnMains, NoRequest
  <1>3. QED
    BY <1>1, <1>2 DEF AnInit, IntOff, NoRequest, AnInv, StoppedIsQuiet, BlocksAreCounted, ResultsBelong, SamplesAreSound, Sampled,
       UnderWay, Converted

\* The listeners are the host's own business: a report changes the format or the sensing pins.
LEMMA Reported ==
    ASSUME AnTypeOK, NEW h \in AnHosts
    PROVE  /\ SendAnalogInFormat(h) \in AnHosts /\ SendAnalogInFormat(h).format = analog_scan_bitmask
           /\ SendAnalogInFormat(h).capsense = h.capsense
           /\ ReportModifiedCapSenseStatus(h) \in AnHosts /\ ReportModifiedCapSenseStatus(h).format = h.format
  <1> DEFINE L(c, o) == Listeners(h, c, o)
  <1>1. ASSUME NEW c, NEW o PROVE L(c, o) \in AnHosts /\ L(c, o).format = h.format /\ L(c, o).capsense = h.capsense
    <2> DEFINE left == [k \in Channels |-> IF k \in c /\ h.open[k] THEN h.listeners[k] - 1 ELSE h.listeners[k]]
               opened == [k \in Channels |-> IF k \in c THEN FALSE ELSE h.open[k] \/ (k \in o /\ h.listeners[k] > 0)]
    <2>1. L(c, o) = [h EXCEPT !.listeners = left, !.open = opened]
      BY DEF Listeners
    <2>a. h.listeners \in [Channels -> Int] /\ h.open \in [Channels -> BOOLEAN]
      BY DEF AnHosts
    <2>b. left \in [Channels -> Int]
      BY <2>a
    <2>c. opened \in [Channels -> BOOLEAN]
      BY <2>a
    <2>2. left \in [Channels -> Int] /\ opened \in [Channels -> BOOLEAN]
      BY <2>b, <2>c
    <2> HIDE DEF left, opened
    <2>3. QED
      BY <2>1, <2>2 DEF AnHosts
  <1> HIDE DEF L
  <1>2. \A c, o : \A f \in SUBSET Channels : /\ [L(c, o) EXCEPT !.format = f] \in AnHosts
                                            /\ [L(c, o) EXCEPT !.format = f].format = f
                                            /\ [L(c, o) EXCEPT !.format = f].capsense = h.capsense
    BY <1>1 DEF AnHosts
  <1>3. \A c, o : \A f \in SUBSET Channels : /\ [L(c, o) EXCEPT !.capsense = f] \in AnHosts
                                            /\ [L(c, o) EXCEPT !.capsense = f].format = h.format
    BY <1>1 DEF AnHosts
  <1>4. /\ SendAnalogInFormat(h) = [L(h.format \ analog_scan_bitmask, analog_scan_bitmask \ h.format)
                                    EXCEPT !.format = analog_scan_bitmask]
    BY DEF SendAnalogInFormat, L
  <1>5. \E c, o : \E f \in SUBSET Channels : ReportModifiedCapSenseStatus(h) = [L(c, o) EXCEPT !.capsense = f]
    <2> DEFINE c == capsense_dirty_bitmask \ capsense_bitmask
               o == capsense_dirty_bitmask \cap capsense_bitmask
               f == (h.capsense \ capsense_dirty_bitmask) \cup (capsense_dirty_bitmask \cap capsense_bitmask)
    <2>1. L(c, o).capsense = h.capsense
      BY <1>1
    <2>2. ReportModifiedCapSenseStatus(h) = [L(c, o) EXCEPT !.capsense = (@ \ capsense_dirty_bitmask) \cup (capsense_dirty_bitmask \cap capsense_bitmask)]
      BY DEF ReportModifiedCapSenseStatus, L
    <2>3. ReportModifiedCapSenseStatus(h) = [L(c, o) EXCEPT !.capsense = f]
      BY <2>1, <2>2
    <2>4. f \in SUBSET Channels
      BY DEF AnTypeOK, AnHosts
    <2>5. QED
      BY <2>3, <2>4
  <1>6. /\ SendAnalogInFormat(h) \in AnHosts /\ SendAnalogInFormat(h).format = analog_scan_bitmask
        /\ SendAnalogInFormat(h).capsense = h.capsense
    <2> DEFINE c == h.format \ analog_scan_bitmask
               o == analog_scan_bitmask \ h.format
    <2>1. SendAnalogInFormat(h) = [L(c, o) EXCEPT !.format = analog_scan_bitmask] /\ analog_scan_bitmask \in SUBSET Channels
      BY <1>4 DEF AnTypeOK
    <2> HIDE DEF c, o
    <2>2. QED
      BY <1>2, <2>1
  <1>7. ReportModifiedCapSenseStatus(h) \in AnHosts /\ ReportModifiedCapSenseStatus(h).format = h.format
    BY <1>3, <1>5
  <1>8. QED
    BY <1>6, <1>7

\* Blocking and unblocking touch only T3IE.
LEMMA Blocked ==
    ASSUME NEW int \in AnInts, NEW b \in BOOLEAN
    PROVE  LET new == [int EXCEPT !.T3IE = b]
           IN /\ new \in AnInts /\ new.T3IE = b /\ new.AD1IE = int.AD1IE /\ new.CRCIE = int.CRCIE /\ new.CRCIF = int.CRCIF
  BY DEF AnInts

-----------------------------------------------------------------------------
(* The main loop.                                                          *)

LEMMA ResetKeepsSamples == ASSUME AnInv, ADCInit PROVE AnInv'
  <1>1. /\ anInt' = [anInt EXCEPT !.AD1IE = FALSE, !.CRCIE = FALSE, !.T3IE = FALSE]
        /\ anInt' \in AnInts /\ ~anInt'.AD1IE /\ ~anInt'.CRCIE /\ ~anInt'.T3IE /\ anInt'.CRCIF = anInt.CRCIF
    BY DEF ADCInit, AnInv, AnTypeOK, AnInts
  <1>2. NoListeners \in AnHosts /\ NoListeners.format = {}
    BY DEF NoListeners, AnHosts
  <1>3. AnTypeOK' /\ anHost'.format = {}
    BY <1>1, <1>2 DEF ADCInit, AnInv, AnTypeOK
  <1>4. QED
    BY <1>1, <1>3
    DEF ADCInit, AnInv, StoppedIsQuiet, BlocksAreCounted, ResultsBelong, SamplesAreSound, Sampled, UnderWay, Converted

LEMMA RequestKeepsSamples ==
    ASSUME AnInv, NEW kind \in {"scan", "capsense"}, NEW channel \in Channels, NEW enable \in BOOLEAN, AnRequest(kind, channel, enable)
    PROVE  AnInv'
  <1>1. /\ anMain.pc = "idle" /\ UNCHANGED <<capsense_current, capsense_sample, anRate, AD1CSSL, anConv, anBuf, anIsr, anFault>>
        /\ enable => channel \notin analog_scan_bitmask \cup capsense_bitmask
        /\ ~enable => channel \in Sampled
    BY DEF AnRequest, Sampled
  <1>2. anHost' \in AnHosts /\ anHost'.format = anHost.format /\ anHost'.capsense = anHost.capsense
    <2>1. anHost' = anHost \/ anHost' = [anHost EXCEPT !.listeners[channel] = @ + 1]
      BY DEF AnRequest
    <2>2. QED
      BY <2>1 DEF AnInv, AnTypeOK, AnHosts
  <1>3. CASE enable /\ Sampled = {}
    <2>1. /\ t3_int_counter' = 0 /\ anInt' = ADCStart /\ UNCHANGED anMain
          /\ analog_scan_bitmask' = IF kind = "scan" THEN {channel} ELSE {}
          /\ capsense_bitmask' = IF kind = "scan" THEN {} ELSE {channel}
          /\ capsense_dirty_bitmask' = IF kind = "scan" THEN capsense_dirty_bitmask ELSE {channel}
      BY <1>3 DEF AnRequest, Sampled
    <2>2. /\ anInt' \in AnInts /\ ~anInt'.CRCIF /\ anConv = "idle"
      BY <1>1, <1>3, <2>1 DEF ADCStart, IntOff, AnInts, AnInv, StoppedIsQuiet
    <2>3. AnTypeOK' /\ Sampled' # {}
      BY <1>1, <1>2, <2>1, <2>2 DEF AnInv, AnTypeOK, Sampled
    <2>4. QED
      BY <1>1, <1>2, <2>1, <2>2, <2>3
      DEF AnInv, StoppedIsQuiet, BlocksAreCounted, ResultsBelong, SamplesAreSound, UnderWay, Converted
  <1>4. CASE ~(enable /\ Sampled = {})
    <2>1. /\ t3_int_counter' = t3_int_counter + 1 /\ anInt' = T3IntBlock(anInt)
          /\ anMain' = [pc |-> "blocked", request |-> [kind |-> kind, channel |-> channel, enable |-> enable]]
          /\ UNCHANGED <<analog_scan_bitmask, capsense_bitmask, capsense_dirty_bitmask>>
      BY <1>4 DEF AnRequest, Sampled
    <2>2. /\ anInt' \in AnInts /\ ~anInt'.T3IE /\ anInt'.AD1IE = anInt.AD1IE /\ anInt'.CRCIE = anInt.CRCIE
          /\ anInt'.CRCIF = anInt.CRCIF
      BY <2>1 DEF T3IntBlock, AnInv, AnTypeOK, AnInts
    <2>3. Sampled # {} /\ Sampled' = Sampled /\ anMain' \in AnMains /\ anMain'.pc = "blocked"
      BY <1>1, <1>4, <2>1 DEF Sampled, AnMains
    <2>4. AnTypeOK'
      BY <1>1, <1>2, <2>1, <2>2, <2>3 DEF AnInv, AnTypeOK
    <2>5. QED
      BY <1>1, <1>2, <2>1, <2>2, <2>3, <2>4
      DEF AnInv, AnTypeOK, StoppedIsQuiet, BlocksAreCounted, ResultsBelong, SamplesAreSound, UnderWay, Converted
  <1>5. QED
    BY <1>3, <1>4

LEMMA UpdateKeepsSamples == ASSUME AnInv, AnUpdate PROVE AnInv'
  <1>1. /\ anMain.pc = "blocked" /\ ~anIsr
        /\ UNCHANGED <<capsense_current, capsense_sample, anRate, AD1CSSL, anConv, anBuf, anIsr, anHost, anFault>>
        /\ t3_int_counter \in Nat /\ t3_int_counter >= 1
    BY DEF AnUpdate, AnInv, AnTypeOK, BlocksAreCounted
  <1>2. /\ analog_scan_bitmask' \in SUBSET Channels /\ capsense_bitmask' \in SUBSET Channels
        /\ capsense_dirty_bitmask' \in SUBSET Channels
        /\ capsense_bitmask \cup capsense_dirty_bitmask \subseteq capsense_bitmask' \cup capsense_dirty_bitmask'
    <2>1. anMain.request.channel \in Channels
      BY DEF AnInv, AnTypeOK, AnMains
    <2>2. QED
      BY <2>1 DEF AnUpdate, Changed, AnInv, AnTypeOK
  <1>3. CASE Sampled' # {}
    <2>1. /\ t3_int_counter' = t3_int_counter - 1 /\ anInt' = T3IntUnblock(anInt)
          /\ anMain' = [pc |-> "idle", request |-> NoRequest]
      BY <1>3 DEF AnUpdate, Sampled
    <2>2. /\ anInt' \in AnInts /\ anInt'.CRCIF = anInt.CRCIF /\ anInt'.CRCIE = anInt.CRCIE
          /\ anInt'.T3IE => anInt.T3IE \/ t3_int_counter = 1
      BY <2>1 DEF T3IntUnblock, AnInv, AnTypeOK, AnInts
    <2>3. anMain' \in AnMains /\ anMain'.pc = "idle"
      <3>1. 0 \in Channels
        BY AnAssumption DEF Channels
      <3>2. QED
        BY <2>1, <3>1 DEF AnMains, NoRequest
    <2>4. AnTypeOK'
      BY <1>1, <1>2, <2>1, <2>2, <2>3 DEF AnInv, AnTypeOK
    <2>5. QED
      BY <1>1, <1>2, <1>3, <2>1, <2>2, <2>3, <2>4
      DEF AnInv, StoppedIsQuiet, BlocksAreCounted, ResultsBelong, SamplesAreSound, UnderWay, Converted
  <1>4. CASE Sampled' = {}
    <2>1. /\ t3_int_counter' = t3_int_counter /\ anInt' = [anInt EXCEPT !.AD1IE = FALSE]
          /\ anMain' = [anMain EXCEPT !.pc = "stopping"]
      BY <1>4 DEF AnUpdate, Sampled
    <2>2. /\ anInt' \in AnInts /\ anInt'.CRCIF = anInt.CRCIF /\ anInt'.CRCIE = anInt.CRCIE
          /\ anInt'.T3IE = anInt.T3IE /\ ~anInt'.AD1IE
      BY <2>1 DEF AnInv, AnTypeOK, AnInts
    <2>3. anMain' \in AnMains /\ anMain'.pc = "stopping"
      BY <2>1 DEF AnInv, AnTypeOK, AnMains
    <2>4. AnTypeOK'
      BY <1>1, <1>2, <2>1, <2>2, <2>3 DEF AnInv, AnTypeOK
    <2>5. QED
      BY <1>1, <1>2, <1>4, <2>1, <2>2, <2>3, <2>4
      DEF AnInv, StoppedIsQuiet, BlocksAreCounted, ResultsBelong, SamplesAreSound, UnderWay, Converted
  <1>5. QED
    BY <1>3, <1>4

LEMMA StopKeepsSamples == ASSUME AnInv, AnStop PROVE AnInv'
  <1>1. /\ anMain.pc = "stopping" /\ anInt' = [anInt EXCEPT !.CRCIE = FALSE, !.T3IE = FALSE] /\ anConv' = "idle"
        /\ anMain' = [pc |-> "idle", request |-> NoRequest]
        /\ UNCHANGED <<analog_scan_bitmask, capsense_bitmask, capsense_current, capsense_sample, t3_int_counter, anBuf, anIsr, anFault>>
    BY DEF AnStop
  <1>2. anInt' \in AnInts /\ ~anInt'.CRCIE /\ ~anInt'.T3IE /\ anInt'.AD1IE = anInt.AD1IE
    BY <1>1 DEF AnInv, AnTypeOK, AnInts
  <1>3. anMain' \in AnMains /\ anMain'.pc = "idle"
    <2>1. 0 \in Channels
      BY AnAssumption DEF Channels
    <2>2. QED
      BY <1>1, <2>1 DEF AnMains, NoRequest
  <1>4. Sampled = {} /\ ~anInt.AD1IE /\ analog_scan_bitmask = {}
    BY <1>1 DEF AnInv, StoppedIsQuiet, Sampled
  <1>5. /\ anHost' \in AnHosts /\ AD1CSSL' \in SUBSET Channels /\ capsense_dirty_bitmask' \in SUBSET Channels
        /\ anHost'.format = AD1CSSL'
    <2>1. AnTypeOK /\ anHost \in AnHosts
      BY DEF AnInv, AnTypeOK
    <2>2. CASE anMain.request.kind = "scan"
      BY <1>4, <2>1, <2>2, Reported DEF AnStop, AnTypeOK
    <2>3. CASE anMain.request.kind # "scan"
      BY <2>1, <2>3, Reported DEF AnStop, AnTypeOK, AnInv, ResultsBelong
    <2>4. QED
      BY <2>2, <2>3
  <1>6. AnTypeOK' /\ Sampled' = {}
    BY <1>1, <1>2, <1>3, <1>4, <1>5 DEF AnInv, AnTypeOK, Sampled
  <1>7. QED
    BY <1>1, <1>2, <1>3, <1>4, <1>5, <1>6
    DEF AnInv, StoppedIsQuiet, BlocksAreCounted, ResultsBelong, SamplesAreSound, UnderWay, Converted

-----------------------------------------------------------------------------
(* The interrupts.                                                         *)

\* The timer runs only when nobody blocks it: then nothing is under way that its reports could change.
LEMMA TimerRunsAlone ==
    ASSUME AnInv, anInt.T3IE
    PROVE  anMain.pc = "idle" /\ Sampled # {} /\ ~UnderWay /\ t3_int_counter = 0
  BY DEF AnInv, AnTypeOK, AnMains, StoppedIsQuiet, BlocksAreCounted

LEMMA TickKeepsSamples == ASSUME AnInv, T3Interrupt PROVE AnInv'
  <1>1. /\ anMain.pc = "idle" /\ Sampled # {} /\ anConv = "idle" /\ ~Converted /\ t3_int_counter = 0 /\ anInt.T3IE /\ ~anIsr
        /\ AnTypeOK /\ anFault = {} /\ anHost.format = AD1CSSL
    BY TimerRunsAlone DEF T3Interrupt, UnderWay, AnInv, SamplesAreSound, ResultsBelong
  <1>2. UNCHANGED <<analog_scan_bitmask, capsense_bitmask, anBuf, anMain, anIsr>> /\ AD1CSSL' = analog_scan_bitmask
        /\ capsense_dirty_bitmask' = {} /\ Sampled' = Sampled
    BY DEF T3Interrupt, Sampled
  <1>3. anHost' \in AnHosts /\ anHost'.format = AD1CSSL'
    <2> DEFINE h == IF AD1CSSL # analog_scan_bitmask THEN SendAnalogInFormat(anHost) ELSE anHost
    <2>1. h \in AnHosts /\ h.format = analog_scan_bitmask
      BY <1>1, Reported DEF AnTypeOK
    <2>2. anHost' = ReportModifiedCapSenseStatus(h)
      BY DEF T3Interrupt
    <2> HIDE DEF h
    <2>3. QED
      BY <1>1, <1>2, <2>1, <2>2, Reported
  <1> DEFINE blocked == [anInt EXCEPT !.T3IE = FALSE]
             unblocked == [blocked EXCEPT !.T3IE = TRUE]
  <1>b. /\ anInt \in AnInts
        /\ blocked \in AnInts /\ ~blocked.T3IE /\ blocked.AD1IE = anInt.AD1IE /\ blocked.CRCIE = anInt.CRCIE /\ blocked.CRCIF = anInt.CRCIF
    BY <1>1, Blocked DEF AnTypeOK
  <1>u. /\ unblocked \in AnInts /\ unblocked.AD1IE = anInt.AD1IE /\ unblocked.CRCIE = anInt.CRCIE /\ unblocked.CRCIF = anInt.CRCIF
    <2> HIDE DEF blocked
    <2>1. QED
      BY <1>b, Blocked
  <1>4. \/ UNCHANGED <<capsense_current, capsense_sample, t3_int_counter, anInt, anConv, anFault>>
        \/ /\ t3_int_counter' = 1 /\ anInt' = blocked /\ capsense_sample' = FALSE /\ anConv' = "scan"
           /\ anFault' = anFault
        \/ /\ t3_int_counter' = 1 /\ anInt' = blocked /\ capsense_sample' = TRUE /\ anConv' = "capsense"
           /\ anFault' = anFault /\ capsense_current' \in capsense_bitmask
        \/ /\ t3_int_counter' = 0 /\ anInt' = unblocked
           /\ UNCHANGED <<capsense_sample, anConv, anFault>>
    <2>1. CASE anRate.accumulator + anRate.rate < 1000
      BY <2>1 DEF T3Interrupt
    <2>2. CASE ~(anRate.accumulator + anRate.rate < 1000) /\ analog_scan_bitmask # {}
      BY <1>1, <2>2 DEF T3Interrupt, T3IntBlock
    <2>3. CASE ~(anRate.accumulator + anRate.rate < 1000) /\ analog_scan_bitmask = {}
      <3>a. /\ ADCCapSenseTrigger(t3_int_counter + 1, T3IntBlock(anInt))
            /\ anFault' = anFault \cup (IF capsense_bitmask = {} THEN {"nothing to sample"} ELSE {})
        BY ZenonT(60), <2>3 DEF T3Interrupt
      <3>b. t3_int_counter + 1 = 1 /\ T3IntBlock(anInt) = blocked /\ capsense_bitmask # {}
        BY <1>1, <2>3 DEF T3IntBlock, Sampled
      <3>1. ADCCapSenseTrigger(1, blocked) /\ anFault' = anFault
        BY <3>a, <3>b
      <3> HIDE DEF blocked
      <3>2. QED
        BY <3>1 DEF ADCCapSenseTrigger
    <2>4. QED
      BY <2>1, <2>2, <2>3
  <1> HIDE DEF blocked, unblocked
  <1>5. /\ anInt' \in AnInts /\ anInt'.CRCIF = anInt.CRCIF /\ anInt'.CRCIE = anInt.CRCIE
        /\ t3_int_counter' = 1 => ~anInt'.T3IE
    BY <1>1, <1>4, <1>b, <1>u
  <1>6. AnTypeOK'
    <2>a. t3_int_counter' \in Nat
      BY <1>1, <1>4 DEF AnTypeOK
    <2>b. capsense_sample' \in BOOLEAN
      BY <1>1, <1>4 DEF AnTypeOK
    <2>c. anConv' \in {"idle", "scan", "capsense"}
      BY <1>1, <1>4 DEF AnTypeOK
    <2>1. t3_int_counter' \in Nat /\ capsense_sample' \in BOOLEAN /\ anConv' \in {"idle", "scan", "capsense"}
      BY <2>a, <2>b, <2>c
    <2>2. QED
      BY <1>1, <1>2, <1>3, <1>5, <2>1 DEF AnTypeOK
  <1>7. QED
    BY <1>1, <1>2, <1>3, <1>4, <1>5, <1>6
    DEF AnInv, StoppedIsQuiet, BlocksAreCounted, ResultsBelong, SamplesAreSound, UnderWay, Converted

LEMMA ConversionKeepsSamples == ASSUME AnInv, ADC1Interrupt \/ AnConversionIgnored PROVE AnInv'
  <1>1. /\ anConv # "idle" /\ anConv' = "idle"
        /\ UNCHANGED <<analog_scan_bitmask, capsense_bitmask, capsense_dirty_bitmask, capsense_current, capsense_sample,
                       t3_int_counter, AD1CSSL, anMain, anIsr, anHost, anFault>>
    BY DEF ADC1Interrupt, AnConversionIgnored
  <1>2. /\ anInt' \in AnInts /\ anInt'.T3IE = anInt.T3IE /\ anInt'.AD1IE = anInt.AD1IE /\ anInt'.CRCIE = anInt.CRCIE
        /\ \/ anInt'.CRCIF = anInt.CRCIF /\ UNCHANGED anBuf
           \/ anInt'.CRCIF /\ anBuf' = IF anConv = "scan" THEN AD1CSSL ELSE {capsense_current}
    BY DEF ADC1Interrupt, AnConversionIgnored, AnInv, AnTypeOK, AnInts
  <1>3. AnTypeOK' /\ Sampled' = Sampled
    BY <1>1, <1>2 DEF AnInv, AnTypeOK, Sampled
  <1>4. QED
    BY <1>1, <1>2, <1>3
    DEF AnInv, AnTypeOK, StoppedIsQuiet, BlocksAreCounted, ResultsBelong, SamplesAreSound, UnderWay, Converted

LEMMA ReportKeepsSamples == ASSUME AnInv, CRCInterrupt PROVE AnInv'
  <1>1. /\ Converted /\ anInt.CRCIE /\ anIsr' /\ anConv = "idle" /\ AnTypeOK
        /\ UNCHANGED <<analog_scan_bitmask, capsense_bitmask, capsense_dirty_bitmask, AD1CSSL, anBuf, anMain, anHost>>
    BY DEF CRCInterrupt, Converted, AnInv, ResultsBelong
  <1>2. anFault' = {}
    BY <1>1 DEF CRCInterrupt, AnInv, SamplesAreSound, ResultsBelong
  <1>3. /\ t3_int_counter \in Nat /\ t3_int_counter >= 1 /\ (anMain.pc # "idle" => t3_int_counter >= 2)
        /\ Sampled' = Sampled /\ (Sampled # {} \/ anMain.pc # "idle")
    BY <1>1 DEF AnInv, AnTypeOK, BlocksAreCounted, StoppedIsQuiet, UnderWay, Sampled
  <1> DEFINE unblocked == [anInt EXCEPT !.T3IE = TRUE]
  <1>u. /\ anInt \in AnInts
        /\ unblocked \in AnInts /\ unblocked.AD1IE = anInt.AD1IE /\ unblocked.CRCIE = anInt.CRCIE /\ unblocked.CRCIF = anInt.CRCIF
    BY <1>1, Blocked DEF AnTypeOK
  <1>4. \/ /\ t3_int_counter' = t3_int_counter - 1
           /\ anInt' = IF t3_int_counter = 1 THEN unblocked ELSE anInt
           /\ UNCHANGED <<capsense_sample, anConv>>
        \/ /\ UNCHANGED <<t3_int_counter, anInt>> /\ capsense_sample' = TRUE /\ anConv' = "capsense"
           /\ capsense_current' \in capsense_bitmask
    BY DEF CRCInterrupt, T3IntUnblock, ADCCapSenseTrigger
  <1> HIDE DEF unblocked
  <1>5. /\ anInt' \in AnInts /\ anInt'.CRCIF = anInt.CRCIF /\ anInt'.CRCIE = anInt.CRCIE /\ anInt'.AD1IE = anInt.AD1IE
        /\ anInt'.T3IE => anInt.T3IE \/ (t3_int_counter = 1 /\ t3_int_counter' = 0)
    BY <1>3, <1>4, <1>u
  <1>6. AnTypeOK'
    <2>a. t3_int_counter' \in Nat
      BY <1>1, <1>3, <1>4 DEF AnTypeOK
    <2>b. capsense_sample' \in BOOLEAN
      BY <1>1, <1>3, <1>4 DEF AnTypeOK
    <2>c. anConv' \in {"idle", "scan", "capsense"}
      BY <1>1, <1>3, <1>4 DEF AnTypeOK
    <2>1. t3_int_counter' \in Nat /\ capsense_sample' \in BOOLEAN /\ anConv' \in {"idle", "scan", "capsense"}
      BY <2>a, <2>b, <2>c
    <2>2. anIsr' \in BOOLEAN
      BY DEF CRCInterrupt
    <2>3. QED
      BY <1>1, <1>5, <2>1, <2>2 DEF AnTypeOK
  <1>7. StoppedIsQuiet'
    BY <1>1, <1>3, <1>4, <1>5 DEF AnInv, StoppedIsQuiet
  <1>8. BlocksAreCounted'
    BY <1>1, <1>3, <1>4, <1>5 DEF AnInv, BlocksAreCounted, UnderWay, Converted
  <1>9. ResultsBelong'
    BY <1>1, <1>4, <1>5 DEF AnInv, ResultsBelong, Converted
  <1>10. QED
    BY <1>2, <1>6, <1>7, <1>8, <1>9 DEF AnInv, SamplesAreSound

\* What ends between the report and this is not taken for a result.
LEMMA ClearKeepsSamples == ASSUME AnInv, CRCClear PROVE AnInv'
  <1>1. /\ anIsr /\ anIsr' = FALSE /\ anInt' = [anInt EXCEPT !.CRCIF = FALSE]
        /\ UNCHANGED <<analog_scan_bitmask, capsense_bitmask, capsense_dirty_bitmask, capsense_current, capsense_sample,
                       t3_int_counter, AD1CSSL, anConv, anBuf, anMain, anHost, anFault>>
    BY DEF CRCClear
  <1>2. /\ anInt' \in AnInts /\ anInt'.T3IE = anInt.T3IE /\ anInt'.AD1IE = anInt.AD1IE /\ anInt'.CRCIE = anInt.CRCIE
        /\ ~anInt'.CRCIF
    BY <1>1 DEF AnInv, AnTypeOK, AnInts
  <1>3. AnTypeOK' /\ Sampled' = Sampled
    BY <1>1, <1>2 DEF AnInv, AnTypeOK, Sampled
  <1>4. QED
    BY <1>1, <1>2, <1>3
    DEF AnInv, StoppedIsQuiet, BlocksAreCounted, ResultsBelong, SamplesAreSound, UnderWay, Converted

LEMMA NextSamples == AnInv /\ [AnNext]_anVars => AnInv'
  <1> SUFFICES ASSUME AnInv, [AnNext]_anVars PROVE AnInv'
    OBVIOUS
  <1>1. CASE \E kind \in {"scan", "capsense"}, channel \in Channels, enable \in BOOLEAN : AnRequest(kind, channel, enable)
    BY <1>1, RequestKeepsSamples
  <1>2. CASE ADCInit
    BY <1>2, ResetKeepsSamples
  <1>3. CASE AnUpdate
    BY <1>3, UpdateKeepsSamples
  <1>4. CASE AnStop
    BY <1>4, StopKeepsSamples
  <1>5. CASE T3Interrupt
    BY <1>5, TickKeepsSamples
  <1>6. CASE ADC1Interrupt \/ AnConversionIgnored
    BY <1>6, ConversionKeepsSamples
  <1>7. CASE CRCInterrupt
    BY <1>7, ReportKeepsSamples
  <1>8. CASE CRCClear
    BY <1>8, ClearKeepsSamples
  <1>9. CASE ADCSetSampleRate \/ UNCHANGED anVars
    <2>1. UNCHANGED <<analog_scan_bitmask, capsense_bitmask, capsense_dirty_bitmask, capsense_current, capsense_sample,
                      t3_int_counter, AD1CSSL, anInt, anConv, anBuf, anMain, anIsr, anHost, anFault>>
      BY <1>9 DEF ADCSetSampleRate, anVars
    <2>2. QED
      BY <2>1 DEF AnInv, AnTypeOK, StoppedIsQuiet, BlocksAreCounted, ResultsBelong, SamplesAreSound, Sampled, UnderWay, Converted
  <1>10. QED
    BY <1>1, <1>2, <1>3, <1>4, <1>5, <1>6, <1>7, <1>8, <1>9 DEF AnNext

(***************************************************************************)
(* The values of a report are those of the channels of the format reported *)
(* last, a capacitive value never follows the echo of its pin's close, and *)
(* the timer never finds nothing to sample, for any number of channels,    *)
(* rates and requests.  The argument: the timer is the only one to report  *)
(* a new format, and it runs only when neither the main loop nor a sample  *)
(* under way has it blocked (BlocksAreCounted, TimerRunsAlone).  That the  *)
(* counter can only be too high is why it stays sound although the end of  *)
(* a sample can be lost (README, section 6).                               *)
(***************************************************************************)
THEOREM SamplesSound == AnSpec => []SamplesAreSound
  <1>1. AnInv => SamplesAreSound
    BY DEF AnInv
  <1>2. QED
    BY <1>1, InitSamples, NextSamples, PTL DEF AnSpec

-----------------------------------------------------------------------------
(* A closed pin.                                                           *)

PinRegs == [ansel : BOOLEAN, rpor : Int, cnpu : BOOLEAN, cnpd : BOOLEAN, lat : Int, odc : BOOLEAN, tris : BOOLEAN]
PinMsgs == [type : {"SET_PIN_DIGITAL_OUT", "SET_PIN_DIGITAL_IN", "SET_PIN_ANALOG_IN", "SET_PIN_CAPSENSE",
                    "SET_PIN_PWM", "SET_PIN_UART", "SET_PIN_SPI", "SET_CHANGE_NOTIFY"},
            pin : pPins, arg : 0..2]
PinHost(h) == "mode" \in DOMAIN h /\ h.mode \in PinsUses \cup {"closed"}

PinTypeOK ==
  /\ pPins \subseteq Nat /\ pCfg \in [pPins -> PinRegs] /\ pLevel \in [pPins -> Int]
  /\ pCn \in [pPins -> [enabled : BOOLEAN, forced : BOOLEAN, backup : Int]]
  /\ pHost = [p \in pPins |-> pHost[p]] /\ \A p \in pPins : PinHost(pHost[p])
  /\ pIn \in Seq(PinMsgs)

\* A pin that cannot be remapped drives no peripheral's output: PinSetRpor leaves its register alone.
UnmappedStays == \A p \in pPins : pin_to_rpor(pHw)[p + 1] = -1 => pCfg[p].rpor = 0

Floats(c, n) == c.tris /\ c.rpor = 0 /\ ~c.cnpu /\ ~c.cnpd /\ ~c.ansel /\ ~n.enabled
LastSays(s, p) == \E i \in 1 .. Len(s) : s[i] = Msg("SET_PIN_DIGITAL_IN", p, 0) /\ \A j \in 1 .. Len(s) : j > i => s[j].pin # p
Silent(s, p) == \A j \in 1 .. Len(s) : s[j].pin # p

\* The last message about a pin that is closed makes it a floating input, and it does so when it has arrived.
CloseArrives == \A p \in pPins : pHost[p].mode = "closed" /\ p # 0 => LastSays(pIn, p) \/ (Silent(pIn, p) /\ Floats(pCfg[p], pCn[p]))

PinInv == PinTypeOK /\ UnmappedStays /\ CloseArrives

LEMMA InitPins == PinsInit => PinInv
  <1> SUFFICES ASSUME PinsInit PROVE PinInv
    OBVIOUS
  <1> USE DEF PinsInit
  <1>1. pPins \subseteq Nat
    BY PinsAssumption
  <1>2. PinTypeOK
    <2>1. pCfg \in [pPins -> PinRegs]
      <3>1. Floating \in PinRegs
        BY DEF PinRegs, Floating
      <3> DEFINE one == 1
                 on == TRUE
                 off == FALSE
                 led == [Floating EXCEPT !.lat = one, !.odc = on, !.tris = off]
      <3>2. pCfg = [p \in pPins |-> IF p = 0 THEN led ELSE Floating] /\ one \in Int /\ {on, off} \subseteq BOOLEAN
        OBVIOUS
      <3> HIDE DEF one, on, off
      <3>3. led \in PinRegs
        BY <3>1, <3>2 DEF PinRegs
      <3> HIDE DEF led
      <3>4. QED
        BY <3>1, <3>2, <3>3
    <2>2. pHost = [p \in pPins |-> pHost[p]] /\ \A p \in pPins : PinHost(pHost[p])
      BY DEF PinHost
    <2>3. QED
      BY <1>1, <2>1, <2>2 DEF PinTypeOK
  <1>3. UnmappedStays
    BY DEF UnmappedStays, Floating
  <1>4. CloseArrives
    BY DEF CloseArrives, Silent, Floats, Floating
  <1>5. QED
    BY <1>2, <1>3, <1>4 DEF PinInv

\* What the messages of an opening and of a close are about.
LEMMA OpeningShape ==
    ASSUME NEW p \in pPins, NEW mode \in PinsUses
    PROVE  Opening(mode, p) \in Seq(PinMsgs) /\ \A i \in 1 .. Len(Opening(mode, p)) : Opening(mode, p)[i].pin = p
  <1>1. mode \in {"in", "out", "analog", "capsense", "pwm", "uart", "spi"}
    BY PinsAssumption
  <1>2. \A t \in {"SET_PIN_DIGITAL_OUT", "SET_PIN_DIGITAL_IN", "SET_PIN_ANALOG_IN", "SET_PIN_CAPSENSE",
                    "SET_PIN_PWM", "SET_PIN_UART", "SET_PIN_SPI", "SET_CHANGE_NOTIFY"} : \A a \in 0..2 :
          Msg(t, p, a) \in PinMsgs /\ Msg(t, p, a).pin = p
    BY DEF Msg, PinMsgs
  <1>3. \A m, n \in PinMsgs : m.pin = p /\ n.pin = p =>
          /\ <<m>> \in Seq(PinMsgs) /\ \A i \in 1 .. Len(<<m>>) : <<m>>[i].pin = p
          /\ <<m, n>> \in Seq(PinMsgs) /\ \A i \in 1 .. Len(<<m, n>>) : <<m, n>>[i].pin = p
    OBVIOUS
  <1>4. CASE mode = "in"
    BY <1>2, <1>3, <1>4 DEF Opening
  <1>5. CASE mode \in {"pwm", "uart", "spi"}
    BY <1>2, <1>3, <1>5 DEF Opening
  <1>6. CASE mode \in {"out", "analog", "capsense"}
    BY <1>2, <1>3, <1>6 DEF Opening
  <1>7. QED
    BY <1>1, <1>4, <1>5, <1>6

LEMMA ClosingShape ==
    ASSUME NEW p \in pPins, NEW mode \in PinsUses
    PROVE  /\ Closing(mode, p) \in Seq(PinMsgs) /\ Closing(mode, p) # <<>>
           /\ Closing(mode, p)[Len(Closing(mode, p))] = Msg("SET_PIN_DIGITAL_IN", p, 0)
           /\ \A i \in 1 .. Len(Closing(mode, p)) : Closing(mode, p)[i].pin = p
  <1> DEFINE last == Msg("SET_PIN_DIGITAL_IN", p, 0)
  <1>1. last \in PinMsgs /\ last.pin = p
    BY DEF Msg, PinMsgs
  <1>2. \A t \in {"SET_CHANGE_NOTIFY", "SET_PIN_PWM", "SET_PIN_UART", "SET_PIN_SPI"} : Msg(t, p, 0) \in PinMsgs /\ Msg(t, p, 0).pin = p
    BY DEF Msg, PinMsgs
  <1>3. mode \in {"in", "pwm", "uart", "spi"} => \E t \in {"SET_CHANGE_NOTIFY", "SET_PIN_PWM", "SET_PIN_UART", "SET_PIN_SPI"} : Closing(mode, p) = <<Msg(t, p, 0)>> \o <<last>>
    BY DEF Closing
  <1>4. mode \notin {"in", "pwm", "uart", "spi"} => Closing(mode, p) = <<>> \o <<last>>
    BY DEF Closing
  <1> HIDE DEF last
  <1>5. \A m \in PinMsgs : LET s == <<m>> \o <<last>> IN s \in Seq(PinMsgs) /\ Len(s) = 2 /\ s[1] = m /\ s[2] = last
    BY <1>1
  <1>6. LET s == <<>> \o <<last>> IN s \in Seq(PinMsgs) /\ Len(s) = 1 /\ s[1] = last
    BY <1>1
  <1>7. CASE mode \in {"in", "pwm", "uart", "spi"}
    <2>1. PICK t \in {"SET_CHANGE_NOTIFY", "SET_PIN_PWM", "SET_PIN_UART", "SET_PIN_SPI"} : Closing(mode, p) = <<Msg(t, p, 0)>> \o <<last>>
      BY <1>3, <1>7
    <2>2. LET s == Closing(mode, p) IN s \in Seq(PinMsgs) /\ Len(s) = 2 /\ s[1].pin = p /\ s[2] = last
      BY <1>2, <1>5, <2>1
    <2>3. QED
      BY <1>1, <2>2 DEF last
  <1>8. CASE mode \notin {"in", "pwm", "uart", "spi"}
    <2>1. LET s == Closing(mode, p) IN s \in Seq(PinMsgs) /\ Len(s) = 1 /\ s[1] = last
      BY <1>4, <1>6, <1>8
    <2>2. \A i \in 1 .. 1 : i = 1
      OBVIOUS
    <2>3. Closing(mode, p) # <<>>
      BY <2>1
    <2>4. QED
      BY <1>1, <2>1, <2>2, <2>3 DEF last
  <1>9. QED
    BY <1>7, <1>8

LEMMA OpensKeepPins == ASSUME PinInv, NEW p \in pPins, NEW mode \in PinsUses, PinsHostOpens(p, mode) PROVE PinInv'
  <1> DEFINE more == Opening(mode, p)
  <1>1. more \in Seq(PinMsgs) /\ \A i \in 1 .. Len(more) : more[i].pin = p
    BY OpeningShape
  <1>2. pIn' = pIn \o more /\ UNCHANGED <<pHw, pPins, pCfg, pLevel, pCn>> /\ pIn \in Seq(PinMsgs)
    BY DEF PinsHostOpens, PinInv, PinTypeOK
  <1> HIDE DEF more
  <1>3. /\ pIn' \in Seq(PinMsgs) /\ Len(pIn') = Len(pIn) + Len(more) /\ \A i \in 1 .. Len(pIn) : pIn'[i] = pIn[i]
        /\ \A i \in 1 .. Len(more) : pIn'[Len(pIn) + i] = more[i]
    BY <1>1, <1>2
  <1>4. /\ pHost' = [q \in pPins |-> pHost'[q]] /\ \A q \in pPins : PinHost(pHost'[q])
        /\ \A q \in pPins : q # p => pHost'[q] = pHost[q]
        /\ pHost'[p].mode = mode
    BY DEF PinsHostOpens, PinInv, PinTypeOK, PinHost
  <1>5. mode # "closed"
    BY PinsAssumption
  <1>6. CloseArrives'
    <2> SUFFICES ASSUME NEW q \in pPins, pHost'[q].mode = "closed", q # 0
                 PROVE  LastSays(pIn', q) \/ (Silent(pIn', q) /\ Floats(pCfg[q], pCn[q]))
      BY <1>2 DEF CloseArrives
    <2>1. q # p /\ pHost[q].mode = "closed"
      BY <1>4, <1>5
    <2>2. \A j \in 1 .. Len(pIn') : j > Len(pIn) => pIn'[j].pin # q
      <3> TAKE j \in 1 .. Len(pIn')
      <3>1. HAVE j > Len(pIn)
      <3>2. j - Len(pIn) \in 1 .. Len(more) /\ j = Len(pIn) + (j - Len(pIn))
        BY <1>1, <1>2, <1>3, <3>1
      <3>3. QED
        BY <1>1, <1>3, <3>2, <2>1
    <2>3. LastSays(pIn, q) => LastSays(pIn', q)
      BY <1>1, <1>2, <1>3, <2>2 DEF LastSays
    <2>4. Silent(pIn, q) => Silent(pIn', q)
      BY <1>1, <1>2, <1>3, <2>2 DEF Silent
    <2>5. QED
      BY <2>1, <2>3, <2>4 DEF PinInv, CloseArrives
  <1>7. PinTypeOK'
    BY <1>2, <1>3, <1>4 DEF PinInv, PinTypeOK, PinMsgs
  <1>8. QED
    BY <1>2, <1>6, <1>7 DEF PinInv, UnmappedStays

LEMMA ClosesKeepPins == ASSUME PinInv, NEW p \in pPins, PinsHostCloses(p) PROVE PinInv'
  <1> DEFINE mode == pHost[p].mode
             more == Closing(mode, p)
             k == Len(more)
  <1>0. mode \in PinsUses
    BY DEF PinsHostCloses, PinInv, PinTypeOK, PinHost
  <1>1. more \in Seq(PinMsgs) /\ more # <<>> /\ more[k] = Msg("SET_PIN_DIGITAL_IN", p, 0) /\ \A i \in 1 .. k : more[i].pin = p
    BY <1>0, ClosingShape
  <1>2. pIn' = pIn \o more /\ UNCHANGED <<pHw, pPins, pCfg, pLevel, pCn>> /\ pIn \in Seq(PinMsgs)
    BY DEF PinsHostCloses, PinInv, PinTypeOK
  <1> HIDE DEF more
  <1>3. /\ pIn' \in Seq(PinMsgs) /\ Len(pIn') = Len(pIn) + k /\ k \in Nat \ {0} /\ \A i \in 1 .. Len(pIn) : pIn'[i] = pIn[i]
        /\ \A i \in 1 .. k : pIn'[Len(pIn) + i] = more[i]
    BY <1>1, <1>2
  <1>4. /\ pHost' = [q \in pPins |-> pHost'[q]] /\ \A q \in pPins : PinHost(pHost'[q])
        /\ \A q \in pPins : q # p => pHost'[q] = pHost[q]
    BY DEF PinsHostCloses, PinInv, PinTypeOK, PinHost
  <1>6. CloseArrives'
    <2> SUFFICES ASSUME NEW q \in pPins, pHost'[q].mode = "closed", q # 0
                 PROVE  LastSays(pIn', q) \/ (Silent(pIn', q) /\ Floats(pCfg[q], pCn[q]))
      BY <1>2 DEF CloseArrives
    <2>1. CASE q = p
      <3>1. pIn'[Len(pIn')] = Msg("SET_PIN_DIGITAL_IN", q, 0) /\ Len(pIn') \in 1 .. Len(pIn')
        BY <1>1, <1>2, <1>3, <2>1
      <3>2. QED
        BY <3>1 DEF LastSays
    <2>2. CASE q # p
      <3>1. \A j \in 1 .. Len(pIn') : j > Len(pIn) => pIn'[j].pin # q
        <4> TAKE j \in 1 .. Len(pIn')
        <4>1. HAVE j > Len(pIn)
        <4>2. j - Len(pIn) \in 1 .. k /\ j = Len(pIn) + (j - Len(pIn))
          BY <1>1, <1>2, <1>3, <4>1
        <4>3. QED
          BY <1>1, <1>3, <4>2, <2>2
      <3>2. LastSays(pIn, q) => LastSays(pIn', q)
        BY <1>2, <1>3, <3>1 DEF LastSays
      <3>3. Silent(pIn, q) => Silent(pIn', q)
        BY <1>2, <1>3, <3>1 DEF Silent
      <3>4. QED
        BY <1>4, <2>2, <3>2, <3>3 DEF PinInv, CloseArrives
    <2>3. QED
      BY <2>1, <2>2
  <1>7. PinTypeOK'
    BY <1>2, <1>3, <1>4 DEF PinInv, PinTypeOK, PinMsgs
  <1>8. QED
    BY <1>2, <1>6, <1>7 DEF PinInv, UnmappedStays

\* The first message arrives.  What it does to its own pin decides only if it is the last about it.
LEMMA FirstArrives ==
    ASSUME PinInv, pIn # <<>>, pIn' = Tail(pIn), UNCHANGED <<pHw, pPins, pLevel, pHost>>,
           pCfg' \in [pPins -> PinRegs], pCn' \in [pPins -> [enabled : BOOLEAN, forced : BOOLEAN, backup : Int]],
           \A p \in pPins : p # Head(pIn).pin => pCfg'[p] = pCfg[p] /\ pCn'[p] = pCn[p],
           \A p \in pPins : pin_to_rpor(pHw)[p + 1] = -1 => pCfg'[p].rpor = 0,
           \A p \in pPins : Head(pIn) = Msg("SET_PIN_DIGITAL_IN", p, 0) => Floats(pCfg'[p], pCn'[p])
    PROVE  PinInv'
  <1>1. /\ pIn \in Seq(PinMsgs) /\ Len(pIn) \in Nat \ {0} /\ Tail(pIn) \in Seq(PinMsgs) /\ Len(Tail(pIn)) = Len(pIn) - 1
        /\ Head(pIn) = pIn[1] /\ \A i \in 1 .. Len(pIn) - 1 : Tail(pIn)[i] = pIn[i + 1]
    BY DEF PinInv, PinTypeOK
  <1>2. CloseArrives'
    <2> SUFFICES ASSUME NEW q \in pPins, pHost[q].mode = "closed", q # 0
                 PROVE  LastSays(pIn', q) \/ (Silent(pIn', q) /\ Floats(pCfg'[q], pCn'[q]))
      BY DEF CloseArrives
    <2>1. CASE LastSays(pIn, q)
      <3>1. PICK i \in 1 .. Len(pIn) : pIn[i] = Msg("SET_PIN_DIGITAL_IN", q, 0) /\ \A j \in 1 .. Len(pIn) : j > i => pIn[j].pin # q
        BY <2>1 DEF LastSays
      <3>2. CASE i = 1
        <4>1. Silent(pIn', q)
          BY <1>1, <3>1, <3>2 DEF Silent
        <4>2. QED
          BY <1>1, <3>1, <3>2, <4>1
      <3>3. CASE i # 1
        <4>1. i - 1 \in 1 .. Len(pIn) - 1 /\ pIn'[i - 1] = pIn[i] /\ \A j \in 1 .. Len(pIn') : j > i - 1 => pIn'[j].pin # q
          BY <1>1, <3>1, <3>3
        <4>2. QED
          BY <1>1, <3>1, <4>1 DEF LastSays
      <3>4. QED
        BY <3>2, <3>3
    <2>2. CASE Silent(pIn, q) /\ Floats(pCfg[q], pCn[q])
      BY <1>1, <2>2 DEF Silent
    <2>3. QED
      BY <2>1, <2>2 DEF PinInv, CloseArrives
  <1>3. PinTypeOK'
    BY <1>1 DEF PinInv, PinTypeOK, PinMsgs
  <1>4. QED
    BY <1>2, <1>3 DEF PinInv, UnmappedStays

\* A change of mode keeps the registers' types, drives no pin that cannot be remapped, and a closed pin floats.
LEMMA ModeShape ==
    ASSUME NEW c \in PinRegs, NEW p \in Nat, NEW m \in PinMsgs, pin_to_rpor(pHw)[p + 1] = -1 => c.rpor = 0
    PROVE  LET d == PinMode(c, p, m) IN
             /\ d \in PinRegs /\ (pin_to_rpor(pHw)[p + 1] = -1 => d.rpor = 0)
             /\ m = Msg("SET_PIN_DIGITAL_IN", p, 0) => d.tris /\ d.rpor = 0 /\ ~d.cnpu /\ ~d.cnpd /\ ~d.ansel
  <1> DEFINE unmapped == pin_to_rpor(pHw)[p + 1] = -1
             d == PinMode(c, p, m)
             z == PinSetRpor(c, p, 0)
  <1>1. \A per \in Int : LET e == PinSetRpor(c, p, per) IN
          /\ e \in PinRegs /\ (unmapped => e.rpor = 0) /\ (per = 0 => e.rpor = 0)
    BY DEF PinSetRpor, PinRegs
  <1>2. z \in PinRegs /\ z.rpor = 0
    BY <1>1
  <1>3. (m.type # "SET_PIN_DIGITAL_IN" => m # Msg("SET_PIN_DIGITAL_IN", p, 0)) /\ (m = Msg("SET_PIN_DIGITAL_IN", p, 0) => m.arg = 0)
    BY DEF Msg
  <1> DEFINE on == TRUE
             off == FALSE
             one == 1
             zero == p = 0
             up == m.arg = 1
             down == m.arg = 2
             e1 == [z EXCEPT !.ansel = off, !.cnpu = off, !.cnpd = off, !.lat = one, !.odc = zero, !.tris = off]
             e2 == [z EXCEPT !.ansel = off, !.cnpu = up, !.cnpd = down, !.tris = on]
             e3 == [z EXCEPT !.cnpu = off, !.cnpd = off, !.ansel = on, !.tris = on]
             e4 == [e3 EXCEPT !.lat = 0]
  <1>4. m.type = "SET_PIN_DIGITAL_OUT" => d = e1
    BY DEF PinMode, SetPinDigitalOut
  <1>5. m.type = "SET_PIN_DIGITAL_IN" => d = e2
    BY DEF PinMode, SetPinDigitalIn
  <1>6. m.type = "SET_PIN_ANALOG_IN" => d = e3
    BY DEF PinMode, SetPinAnalogIn
  <1>7. m.type = "SET_PIN_CAPSENSE" => d = e4
    BY DEF PinMode, SetPinAnalogIn, SetPinCapSense
  <1>8. m.type = "SET_PIN_PWM" => d = PinSetRpor(c, p, IF m.arg = 1 THEN 35 ELSE 0)
    BY DEF PinMode, SetPinPwm
  <1>9. m.type = "SET_PIN_UART" => d = PinSetRpor(c, p, IF m.arg = 1 THEN 28 ELSE 0)
    BY DEF PinMode, SetPinUartTx
  <1>10. m.type = "SET_PIN_SPI" => d = PinSetRpor(c, p, IF m.arg = 1 THEN 11 ELSE 0)
    BY DEF PinMode, SetPinSpi
  <1>11. m.type = "SET_CHANGE_NOTIFY" => d = c
    BY DEF PinMode
  <1>12. (unmapped => c.rpor = 0) /\ unmapped \in BOOLEAN
    OBVIOUS
  <1>13. {on, off, zero, up, down} \subseteq BOOLEAN /\ one \in Int /\ on /\ ~off /\ (m.arg = 0 => ~up /\ ~down)
    OBVIOUS
  <1> HIDE DEF unmapped, d, z, on, off, one, zero, up, down
  <1>14. /\ e1 \in PinRegs /\ e1.rpor = 0
         /\ e2 \in PinRegs /\ e2.rpor = 0 /\ (m.arg = 0 => e2.tris /\ ~e2.cnpu /\ ~e2.cnpd /\ ~e2.ansel)
         /\ e3 \in PinRegs /\ e3.rpor = 0 /\ e4 \in PinRegs /\ e4.rpor = 0
    <2>1. e1 \in PinRegs /\ e1.rpor = 0
      BY <1>2, <1>13 DEF PinRegs
    <2>2. e2 \in PinRegs /\ e2.rpor = 0 /\ e2.tris = on /\ e2.cnpu = up /\ e2.cnpd = down /\ e2.ansel = off
      BY <1>2, <1>13 DEF PinRegs
    <2>3. e3 \in PinRegs /\ e3.rpor = 0
      BY <1>2, <1>13 DEF PinRegs
    <2> HIDE DEF e1, e2, e3
    <2>4. e4 \in PinRegs /\ e4.rpor = 0
      BY <2>3 DEF PinRegs
    <2> HIDE DEF e4
    <2>5. QED
      BY <1>13, <2>1, <2>2, <2>3, <2>4
  <1> HIDE DEF e1, e2, e3, e4
  <1>15. m.type \in {"SET_PIN_PWM", "SET_PIN_UART", "SET_PIN_SPI", "SET_CHANGE_NOTIFY"} => d \in PinRegs /\ (unmapped => d.rpor = 0)
    BY <1>1, <1>8, <1>9, <1>10, <1>11, <1>12
  <1>16. m.type \in {"SET_PIN_DIGITAL_OUT", "SET_PIN_DIGITAL_IN", "SET_PIN_ANALOG_IN", "SET_PIN_CAPSENSE"}
                     \cup {"SET_PIN_PWM", "SET_PIN_UART", "SET_PIN_SPI", "SET_CHANGE_NOTIFY"}
    BY DEF PinMsgs
  <1>17. /\ d \in PinRegs /\ (unmapped => d.rpor = 0)
         /\ m = Msg("SET_PIN_DIGITAL_IN", p, 0) => d.tris /\ d.rpor = 0 /\ ~d.cnpu /\ ~d.cnpd /\ ~d.ansel
    BY <1>3, <1>4, <1>5, <1>6, <1>7, <1>14, <1>15, <1>16
  <1>18. QED
    BY <1>17 DEF unmapped, d

LEMMA ModesKeepPins == ASSUME PinInv, BoardSetsMode PROVE PinInv'
  <1> DEFINE m == Head(pIn)
             p == m.pin
             d == PinMode(pCfg[p], p, m)
  <1>0. m \in PinMsgs
    BY DEF BoardSetsMode, PinInv, PinTypeOK
  <1>1. m \in PinMsgs /\ p \in pPins /\ p \in Nat /\ pCfg[p] \in PinRegs /\ (pin_to_rpor(pHw)[p + 1] = -1 => pCfg[p].rpor = 0)
    BY <1>0 DEF PinInv, PinTypeOK, PinMsgs, UnmappedStays
  <1>2. /\ d \in PinRegs /\ (pin_to_rpor(pHw)[p + 1] = -1 => d.rpor = 0)
        /\ m = Msg("SET_PIN_DIGITAL_IN", p, 0) => d.tris /\ d.rpor = 0 /\ ~d.cnpu /\ ~d.cnpd /\ ~d.ansel
    BY <1>1, ModeShape
  <1>3. /\ pIn # <<>> /\ pIn' = Tail(pIn) /\ UNCHANGED <<pHw, pPins, pLevel, pHost>>
        /\ pCfg' = [pCfg EXCEPT ![p] = d] /\ pCn' = IF EndsNotify(m) THEN [pCn EXCEPT ![p].enabled = FALSE] ELSE pCn
    BY DEF BoardSetsMode
  <1>4. /\ pCfg \in [pPins -> PinRegs] /\ pCn \in [pPins -> [enabled : BOOLEAN, forced : BOOLEAN, backup : Int]]
    BY DEF PinInv, PinTypeOK
  <1>5. \A q \in pPins : m = Msg("SET_PIN_DIGITAL_IN", q, 0) => q = p /\ EndsNotify(m)
    BY DEF Msg, EndsNotify
  <1>6. \A q \in pPins : pin_to_rpor(pHw)[q + 1] = -1 => pCfg[q].rpor = 0
    BY DEF PinInv, UnmappedStays
  <1> HIDE DEF m, p, d
  <1>7. pCfg' \in [pPins -> PinRegs] /\ pCfg'[p] = d /\ \A q \in pPins : q # p => pCfg'[q] = pCfg[q]
    BY <1>1, <1>2, <1>3, <1>4
  <1>8. /\ pCn' \in [pPins -> [enabled : BOOLEAN, forced : BOOLEAN, backup : Int]]
        /\ (EndsNotify(m) => ~pCn'[p].enabled) /\ \A q \in pPins : q # p => pCn'[q] = pCn[q]
    BY <1>1, <1>3, <1>4
  <1>9. \A q \in pPins : m = Msg("SET_PIN_DIGITAL_IN", q, 0) => Floats(pCfg'[q], pCn'[q])
    BY <1>2, <1>5, <1>7, <1>8 DEF Floats
  <1>10. \A q \in pPins : pin_to_rpor(pHw)[q + 1] = -1 => pCfg'[q].rpor = 0
    BY <1>2, <1>6, <1>7
  <1>11. QED
    BY <1>3, <1>7, <1>8, <1>9, <1>10, FirstArrives DEF m, p

LEMMA NotifyKeepsPins == ASSUME PinInv, NotifyOn \/ NotifyOff PROVE PinInv'
  <1> DEFINE m == Head(pIn)
  <1>1. /\ pIn # <<>> /\ pIn' = Tail(pIn) /\ UNCHANGED <<pHw, pPins, pLevel, pHost, pCfg>> /\ m.type = "SET_CHANGE_NOTIFY"
        /\ \/ pCn' = [pCn EXCEPT ![m.pin].enabled = TRUE, ![m.pin].forced = TRUE]
           \/ pCn' = [pCn EXCEPT ![m.pin].enabled = FALSE]
    BY DEF NotifyOn, NotifyOff
  <1>0. m \in PinMsgs
    BY <1>1 DEF PinInv, PinTypeOK
  <1>2. m.pin \in pPins /\ pCfg \in [pPins -> PinRegs] /\ pCn \in [pPins -> [enabled : BOOLEAN, forced : BOOLEAN, backup : Int]]
    BY <1>0 DEF PinInv, PinTypeOK, PinMsgs
  <1>3. /\ pCn' \in [pPins -> [enabled : BOOLEAN, forced : BOOLEAN, backup : Int]]
        /\ \A q \in pPins : q # m.pin => pCn'[q] = pCn[q]
    BY ZenonT(60), <1>1, <1>2
  <1>4. \A q : m # Msg("SET_PIN_DIGITAL_IN", q, 0)
    BY <1>1 DEF Msg
  <1>5. QED
    BY <1>1, <1>2, <1>3, <1>4, FirstArrives DEF PinInv, UnmappedStays

LEMMA HandlerKeepsPins ==
    ASSUME PinInv, \/ CNInterrupt \/ CheckPortChange \/ PinsHostReceives \/ UNCHANGED pVars
                   \/ \E p \in pPins : LevelChanges(p)
    PROVE  PinInv'
  <1> USE DEF PinInv, PinTypeOK, UnmappedStays, CloseArrives, PinMsgs
  <1>1. CASE CNInterrupt \/ UNCHANGED pVars
    BY <1>1 DEF CNInterrupt, pVars
  <1>2. CASE CheckPortChange
    <2>1. UNCHANGED <<pHw, pPins, pCfg, pLevel, pIn, pHost>>
      BY <1>2 DEF CheckPortChange
    <2>2. PICK i : pCn' = [p \in pPins |-> IF PortOf(p) = Ports[i] THEN [pCn[p] EXCEPT !.forced = FALSE, !.backup = pLevel[p]] ELSE pCn[p]]
      BY <1>2 DEF CheckPortChange
    <2>3. pCn' \in [pPins -> [enabled : BOOLEAN, forced : BOOLEAN, backup : Int]] /\ \A p \in pPins : pCn'[p].enabled = pCn[p].enabled
      BY <2>2
    <2>4. QED
      BY <2>1, <2>3 DEF Floats
  <1>3. CASE PinsHostReceives
    <2>1. UNCHANGED <<pHw, pPins, pCfg, pLevel, pCn, pIn>>
      BY <1>3 DEF PinsHostReceives
    <2>2. pHost' = [p \in pPins |-> pHost'[p]] /\ \A p \in pPins : PinHost(pHost'[p]) /\ pHost'[p].mode = pHost[p].mode
      BY <1>3 DEF PinsHostReceives, PinHost
    <2>3. QED
      BY <2>1, <2>2
  <1>4. CASE \E p \in pPins : LevelChanges(p)
    BY <1>4 DEF LevelChanges
  <1>5. QED
    BY <1>1, <1>2, <1>3, <1>4

LEMMA NextPins == PinInv /\ [PinsNext]_pVars => PinInv'
  BY OpensKeepPins, ClosesKeepPins, ModesKeepPins, NotifyKeepsPins, HandlerKeepsPins DEF PinsNext

\* Whatever the two pins were used for before and in whatever order their messages were sent, once all of them have arrived a
\* pin that the host has closed floats and is not watched: in every layout of pins.c, for any sequence of opens and closes.
THEOREM PinsFloatWhenClosed == PinsSpec => []ClosedPinFloats
  <1>1. PinInv => ClosedPinFloats
    <2> SUFFICES ASSUME PinInv, pIn = <<>> PROVE \A p \in pPins : pHost[p].mode = "closed" /\ p # 0 => Floats(pCfg[p], pCn[p])
      BY DEF ClosedPinFloats, Floats
    <2>1. \A p : ~LastSays(pIn, p)
      BY DEF LastSays
    <2>2. QED
      BY <2>1 DEF PinInv, CloseArrives
  <1>2. QED
    BY <1>1, InitPins, NextPins, PTL DEF PinsSpec

-----------------------------------------------------------------------------
(* The level that a client reads.                                          *)

\* How often message x is in sequence s.
Occurs(s, x) == Cardinality({i \in 1 .. Len(s) : s[i] = x})

LEMMA OccursNat == ASSUME NEW S, NEW s \in Seq(S), NEW x PROVE Occurs(s, x) \in Nat /\ IsFiniteSet({i \in 1 .. Len(s) : s[i] = x})
  <1>1. IsFiniteSet(1 .. Len(s))
    BY FS_Interval
  <1>2. IsFiniteSet({i \in 1 .. Len(s) : s[i] = x})
    BY <1>1, FS_Subset
  <1>3. QED
    BY <1>2, FS_CardinalityType DEF Occurs

LEMMA OccursNever == ASSUME NEW S, NEW s \in Seq(S), NEW x, \A i \in 1 .. Len(s) : s[i] # x PROVE Occurs(s, x) = 0
  <1>1. {i \in 1 .. Len(s) : s[i] = x} = {}
    OBVIOUS
  <1>2. QED
    BY <1>1, FS_EmptySet DEF Occurs

LEMMA OccursOnce == ASSUME NEW S, NEW s \in Seq(S), NEW x, NEW i \in 1 .. Len(s), s[i] = x PROVE Occurs(s, x) >= 1
  <1> DEFINE A == {j \in 1 .. Len(s) : s[j] = x}
  <1>1. A # {} /\ IsFiniteSet(A)
    BY OccursNat
  <1>2. Cardinality(A) # 0 /\ Cardinality(A) \in Nat
    BY <1>1, FS_EmptySet, FS_CardinalityType
  <1>3. QED
    BY <1>2 DEF Occurs

\* More messages at the end, of which at most one is x.
LEMMA OccursAppended ==
    ASSUME NEW S, NEW s \in Seq(S), NEW t \in Seq(S), NEW x
    PROVE  /\ (\A i \in 1 .. Len(t) : t[i] # x) => Occurs(s \o t, x) = Occurs(s, x)
           /\ \A k \in 1 .. Len(t) : t[k] = x /\ (\A i \in 1 .. Len(t) : i # k => t[i] # x) => Occurs(s \o t, x) = Occurs(s, x) + 1
  <1> DEFINE r == s \o t
             A == {i \in 1 .. Len(s) : s[i] = x}
             C == {i \in 1 .. Len(r) : r[i] = x}
  <1>1. /\ r \in Seq(S) /\ Len(r) = Len(s) + Len(t) /\ Len(s) \in Nat /\ Len(t) \in Nat
        /\ (\A i \in 1 .. Len(s) : r[i] = s[i]) /\ \A i \in 1 .. Len(t) : r[Len(s) + i] = t[i]
    OBVIOUS
  <1> HIDE DEF r
  <1>2. \A i \in 1 .. Len(r) : i > Len(s) => i - Len(s) \in 1 .. Len(t) /\ r[i] = t[i - Len(s)]
    <2> TAKE i \in 1 .. Len(r)
    <2>1. HAVE i > Len(s)
    <2>2. i - Len(s) \in 1 .. Len(t) /\ Len(s) + (i - Len(s)) = i
      BY <1>1, <2>1
    <2>3. QED
      BY <1>1, <2>2
  <1>3. (\A i \in 1 .. Len(t) : t[i] # x) => C = A
    BY <1>1, <1>2
  <1>4. ASSUME NEW k \in 1 .. Len(t), t[k] = x, \A i \in 1 .. Len(t) : i # k => t[i] # x
        PROVE  Cardinality(C) = Cardinality(A) + 1
    <2>1. Len(s) + k \in 1 .. Len(r) /\ r[Len(s) + k] = x /\ Len(s) + k \notin A
      BY <1>1, <1>4
    <2>2. \A i \in C : i \in A \/ i = Len(s) + k
      <3> TAKE i \in C
      <3>1. CASE i > Len(s)
        <4>1. i - Len(s) = k
          BY <1>2, <1>4, <3>1
        <4>2. QED
          BY <1>1, <4>1
      <3>2. CASE ~(i > Len(s))
        BY <1>1, <3>2
      <3>3. QED
        BY <3>1, <3>2
    <2>3. A \subseteq C
      BY <1>1
    <2>4. C = A \cup {Len(s) + k}
      BY <2>1, <2>2, <2>3
    <2>5. IsFiniteSet(A) /\ Len(s) + k \notin A
      BY <2>1, OccursNat
    <2> HIDE DEF A, C
    <2>6. QED
      BY <2>4, <2>5, FS_AddElement
  <1>5. QED
    BY <1>3, <1>4 DEF Occurs, r

\* The first message is taken.
LEMMA OccursTaken ==
    ASSUME NEW S, NEW s \in Seq(S), s # <<>>, NEW x
    PROVE  Occurs(s, x) = Occurs(Tail(s), x) + IF Head(s) = x THEN 1 ELSE 0
  <1> DEFINE r == Tail(s)
             A == {i \in 1 .. Len(s) : s[i] = x}
             C == {i \in 1 .. Len(r) : r[i] = x}
             D == {i \in 2 .. Len(s) : s[i] = x}
             f == [i \in C |-> i + 1]
  <1>1. r \in Seq(S) /\ Len(r) = Len(s) - 1 /\ Len(s) \in Nat \ {0} /\ Head(s) = s[1] /\ \A i \in 1 .. Len(s) - 1 : r[i] = s[i + 1]
    OBVIOUS
  <1>2. IsFiniteSet(A) /\ IsFiniteSet(C) /\ Occurs(r, x) = Cardinality(C) /\ Occurs(s, x) = Cardinality(A)
    BY <1>1, OccursNat DEF Occurs
  <1> HIDE DEF r
  <1>3. f \in Bijection(C, D)
    <2>1. \A i \in C : i + 1 \in D
      BY <1>1
    <2>2. \A j \in D : j - 1 \in C /\ f[j - 1] = j
      BY <1>1
    <2>3. \A i, j \in C : f[i] = f[j] => i = j
      OBVIOUS
    <2> HIDE DEF C, D
    <2>4. f \in [C -> D] /\ DOMAIN f = C
      BY <2>1
    <2>5. QED
      BY <2>2, <2>3, <2>4 DEF Bijection, Injection, Surjection, IsInjective
  <1>4. IsFiniteSet(D) /\ Cardinality(D) = Cardinality(C)
    <2> HIDE DEF C, D, f
    <2>1. ExistsBijection(C, D)
      BY <1>3 DEF ExistsBijection
    <2>2. QED
      BY <1>2, <2>1, FS_Bijection
  <1>5. CASE Head(s) = x
    <2>1. A = D \cup {1} /\ 1 \notin D
      BY <1>1, <1>5
    <2>2. QED
      <3> HIDE DEF A, C, D
      <3>1. Cardinality(A) = Cardinality(D) + 1
        BY <1>4, <2>1, FS_AddElement
      <3>2. QED
        BY <1>2, <1>4, <1>5, <3>1 DEF r
  <1>6. CASE Head(s) # x
    <2>1. A = D
      BY <1>1, <1>6
    <2>2. QED
      <3> HIDE DEF A, C, D
      <3>1. Cardinality(C) \in Nat
        BY <1>2, FS_CardinalityType
      <3>2. QED
        BY <1>2, <1>4, <1>6, <2>1, <3>1 DEF r
  <1>7. QED
    BY <1>5, <1>6

\* The last message of type ty about pin p before place i of s says a, or there is none and b is a.
IsNote(m, ty, p) == m.type = ty /\ m.pin = p
LastBefore(s, ty, p, b, i, a) ==
  \/ \E k \in 1 .. i - 1 : IsNote(s[k], ty, p) /\ s[k].arg = a /\ \A j \in k + 1 .. i - 1 : ~IsNote(s[j], ty, p)
  \/ (\A j \in 1 .. i - 1 : ~IsNote(s[j], ty, p)) /\ b = a

LEMMA LastTaken ==
    ASSUME NEW S, NEW s \in Seq(S), s # <<>>, NEW ty, NEW p, NEW b, NEW i \in 1 .. Len(s), NEW a, LastBefore(s, ty, p, b, i + 1, a)
    PROVE  /\ ~IsNote(Head(s), ty, p) => LastBefore(Tail(s), ty, p, b, i, a)
           /\ IsNote(Head(s), ty, p) => LastBefore(Tail(s), ty, p, Head(s).arg, i, a)
  <1>1. Len(s) \in Nat \ {0} /\ Head(s) = s[1] /\ \A j \in 1 .. Len(s) - 1 : Tail(s)[j] = s[j + 1]
    OBVIOUS
  <1>2. CASE \E k \in 1 .. i : IsNote(s[k], ty, p) /\ s[k].arg = a /\ \A j \in k + 1 .. i : ~IsNote(s[j], ty, p)
    <2>1. PICK k \in 1 .. i : IsNote(s[k], ty, p) /\ s[k].arg = a /\ \A j \in k + 1 .. i : ~IsNote(s[j], ty, p)
      BY <1>2
    <2>2. CASE k = 1
      <3>1. \A j \in 1 .. i - 1 : ~IsNote(Tail(s)[j], ty, p)
        <4> TAKE j \in 1 .. i - 1
        <4>1. j + 1 \in k + 1 .. i /\ Tail(s)[j] = s[j + 1]
          BY <1>1, <2>2
        <4>2. QED
          BY <2>1, <4>1
      <3>2. QED
        BY <1>1, <2>1, <2>2, <3>1 DEF LastBefore
    <2>3. CASE k # 1
      <3>1. k - 1 \in 1 .. i - 1 /\ Tail(s)[k - 1] = s[k]
        BY <1>1, <2>3
      <3>2. \A j \in k .. i - 1 : ~IsNote(Tail(s)[j], ty, p)
        <4> TAKE j \in k .. i - 1
        <4>1. j + 1 \in k + 1 .. i /\ Tail(s)[j] = s[j + 1]
          BY <1>1
        <4>2. QED
          BY <2>1, <4>1
      <3>3. (k - 1) + 1 = k
        OBVIOUS
      <3>4. QED
        BY <2>1, <3>1, <3>2, <3>3 DEF LastBefore
    <2>4. QED
      BY <2>2, <2>3
  <1>3. CASE (\A j \in 1 .. i : ~IsNote(s[j], ty, p)) /\ b = a
    <2>1. ~IsNote(Head(s), ty, p)
      BY <1>1, <1>3
    <2>2. \A j \in 1 .. i - 1 : ~IsNote(Tail(s)[j], ty, p)
      <3> TAKE j \in 1 .. i - 1
      <3>1. j + 1 \in 1 .. i /\ Tail(s)[j] = s[j + 1]
        BY <1>1
      <3>2. QED
        BY <1>3, <3>1
    <2>3. QED
      BY <1>3, <2>1, <2>2 DEF LastBefore
  <1>4. (i + 1) - 1 = i
    OBVIOUS
  <1>5. QED
    BY <1>2, <1>3, <1>4 DEF LastBefore

\* The places up to i decide.
LEMMA LastSame ==
    ASSUME NEW s, NEW r, NEW ty, NEW p, NEW b, NEW i \in Nat \ {0}, NEW a, \A j \in 1 .. i - 1 : r[j] = s[j], LastBefore(s, ty, p, b, i, a)
    PROVE  LastBefore(r, ty, p, b, i, a)
  <1>1. CASE \E k \in 1 .. i - 1 : IsNote(s[k], ty, p) /\ s[k].arg = a /\ \A j \in k + 1 .. i - 1 : ~IsNote(s[j], ty, p)
    BY <1>1 DEF LastBefore
  <1>2. CASE (\A j \in 1 .. i - 1 : ~IsNote(s[j], ty, p)) /\ b = a
    BY <1>2 DEF LastBefore
  <1>3. QED
    BY <1>1, <1>2 DEF LastBefore

LEMMA LastNext ==
    ASSUME NEW s, NEW ty, NEW p, NEW b, NEW i \in Nat \ {0}, NEW a, LastBefore(s, ty, p, b, i, a)
    PROVE  /\ ~IsNote(s[i], ty, p) => LastBefore(s, ty, p, b, i + 1, a)
           /\ IsNote(s[i], ty, p) => LastBefore(s, ty, p, b, i + 1, s[i].arg)
  <1>1. (i + 1) - 1 = i /\ i \in 1 .. i /\ \A j \in i + 1 .. i : FALSE
    OBVIOUS
  <1>2. IsNote(s[i], ty, p) => LastBefore(s, ty, p, b, i + 1, s[i].arg)
    BY <1>1 DEF LastBefore
  <1>3. ASSUME ~IsNote(s[i], ty, p), NEW k \in 1 .. i - 1, IsNote(s[k], ty, p), s[k].arg = a, \A j \in k + 1 .. i - 1 : ~IsNote(s[j], ty, p)
        PROVE  LastBefore(s, ty, p, b, i + 1, a)
    <2>1. k \in 1 .. i /\ \A j \in k + 1 .. i : ~IsNote(s[j], ty, p)
      BY <1>3
    <2>2. QED
      BY <1>1, <1>3, <2>1 DEF LastBefore
  <1>4. ASSUME ~IsNote(s[i], ty, p), \A j \in 1 .. i - 1 : ~IsNote(s[j], ty, p), b = a
        PROVE  LastBefore(s, ty, p, b, i + 1, a)
    <2>1. \A j \in 1 .. i : ~IsNote(s[j], ty, p)
      BY <1>4
    <2>2. QED
      BY <1>1, <1>4, <2>1 DEF LastBefore
  <1>5. QED
    BY <1>2, <1>3, <1>4 DEF LastBefore

\* More messages, none of them about the notification of p.
LEMMA LastAdded ==
    ASSUME NEW S, NEW s \in Seq(S), NEW t \in Seq(S), NEW ty, NEW p, NEW b, NEW a,
           \A i \in 1 .. Len(t) : ~IsNote(t[i], ty, p), LastBefore(s, ty, p, b, Len(s) + 1, a)
    PROVE  LastBefore(s \o t, ty, p, b, Len(s \o t) + 1, a)
  <1> DEFINE r == s \o t
  <1>1. /\ Len(r) = Len(s) + Len(t) /\ Len(s) \in Nat /\ Len(t) \in Nat
        /\ (\A i \in 1 .. Len(s) : r[i] = s[i]) /\ \A i \in 1 .. Len(t) : r[Len(s) + i] = t[i]
    OBVIOUS
  <1> HIDE DEF r
  <1>2. \A j \in 1 .. Len(r) : j > Len(s) => ~IsNote(r[j], ty, p)
    <2> TAKE j \in 1 .. Len(r)
    <2>1. HAVE j > Len(s)
    <2>2. j - Len(s) \in 1 .. Len(t) /\ Len(s) + (j - Len(s)) = j
      BY <1>1, <2>1
    <2>3. QED
      BY <1>1, <2>2
  <1>3. (Len(s) + 1) - 1 = Len(s) /\ (Len(r) + 1) - 1 = Len(r)
    BY <1>1
  <1>4. CASE \E k \in 1 .. Len(s) : IsNote(s[k], ty, p) /\ s[k].arg = a /\ \A j \in k + 1 .. Len(s) : ~IsNote(s[j], ty, p)
    <2>1. PICK k \in 1 .. Len(s) : IsNote(s[k], ty, p) /\ s[k].arg = a /\ \A j \in k + 1 .. Len(s) : ~IsNote(s[j], ty, p)
      BY <1>4
    <2>2. k \in 1 .. Len(r) /\ IsNote(r[k], ty, p) /\ r[k].arg = a
      BY <1>1, <2>1
    <2>3. \A j \in k + 1 .. Len(r) : ~IsNote(r[j], ty, p)
      <3> TAKE j \in k + 1 .. Len(r)
      <3>1. CASE j > Len(s)
        BY <1>1, <1>2, <3>1
      <3>2. CASE ~(j > Len(s))
        <4>1. j \in k + 1 .. Len(s) /\ j \in 1 .. Len(s)
          BY <1>1, <3>2
        <4>2. QED
          BY <1>1, <2>1, <4>1
      <3>3. QED
        BY <3>1, <3>2
    <2>4. QED
      BY <1>3, <2>2, <2>3 DEF LastBefore, r
  <1>5. CASE (\A j \in 1 .. Len(s) : ~IsNote(s[j], ty, p)) /\ b = a
    <2>1. \A j \in 1 .. Len(r) : ~IsNote(r[j], ty, p)
      <3> TAKE j \in 1 .. Len(r)
      <3>1. CASE j > Len(s)
        BY <1>2, <3>1
      <3>2. CASE ~(j > Len(s))
        <4>1. j \in 1 .. Len(s)
          BY <1>1, <3>2
        <4>2. QED
          BY <1>1, <1>5, <4>1
      <3>3. QED
        BY <3>1, <3>2
    <2>2. QED
      BY <1>3, <1>5, <2>1 DEF LastBefore, r
  <1>6. QED
    BY <1>3, <1>4, <1>5 DEF LastBefore

-----------------------------------------------------------------------------
(* The invariant.                                                          *)

OutMsgs == [type : {"echo"}, pin : pPins, arg : {0, 1}] \cup [type : {"report"}, pin : pPins, arg : Int]
PinHosts == [mode : PinsUses \cup {"closed"}, listeners : Int, open : BOOLEAN, value : Int]
ReadTypeOK ==
  /\ pOut \in Seq(OutMsgs) /\ pHost \in [pPins -> PinHosts]
  /\ pInt \in [CNIE : BOOLEAN, CNIF : BOOLEAN, ports : SUBSET (1 .. 6)]

\* What TablesAgree says of the pins watched.
WatchInv ==
  /\ \E a \in Nat : pPins = {a, a + 1}
  /\ \A p \in pPins : /\ BitOf(p) \in Nat /\ (\E i \in 1 .. 6 : PortOf(p) = Ports[i])
                      /\ PinFromPort(pHw, PortOf(p), BitOf(p)) = p

Bit(x) == IF x THEN 1 ELSE 0
NotifyMsg == "SET_CHANGE_NOTIFY"
NoteOn(p) == Msg(NotifyMsg, p, 1)
EchoOn(p) == Msg("echo", p, 1)

\* The board's notification of p is on exactly from a SET_CHANGE_NOTIFY of its client to the next, and its mode
\* is changed only while it is off; at the end of what is on its way it is what the client wants.
NoteBefore(p, i, a) == LastBefore(pIn, NotifyMsg, p, Bit(pCn[p].enabled), i, a)
Ordered(m, p) == m.pin = p /\ (EndsNotify(m) \/ m = NoteOn(p))
Asked(p) ==
  /\ \A i \in 1 .. Len(pIn) : Ordered(pIn[i], p) => NoteBefore(p, i, 0)
  /\ NoteBefore(p, Len(pIn) + 1, Bit(pHost[p].mode = "in"))

\* So are the echoes on their way to the host, and its first listener is open accordingly.
EchoBefore(p, i, a) == LastBefore(pOut, "echo", p, Bit(pHost[p].open), i, a)
Echoed(p) ==
  /\ \A i \in 1 .. Len(pOut) : pOut[i] = EchoOn(p) => EchoBefore(p, i, 0)
  /\ EchoBefore(p, Len(pOut) + 1, Bit(pCn[p].enabled))

\* A listener for the one that is open and for every opening on its way there and back.
Counted(p) == pHost[p].listeners = Bit(pHost[p].open) + Occurs(pOut, EchoOn(p)) + Occurs(pIn, NoteOn(p))

\* The board has heard of the last opening.  Then the last report, or without one the client's value, is what
\* the handler saw when it looked last.
Live(p) == pHost[p].mode = "in" /\ \A i \in 1 .. Len(pIn) : ~IsNote(pIn[i], NotifyMsg, p)
Told(s, p, v, x) ==
  \/ \E k \in 1 .. Len(s) : s[k] = Msg("report", p, v) /\ \A j \in k + 1 .. Len(s) : s[j].pin # p
  \/ (\A j \in 1 .. Len(s) : s[j].pin # p) /\ x = v
LastTold(p) == Live(p) /\ ~pCn[p].forced => Told(pOut, p, pCn[p].backup, pHost[p].value)

\* A change not yet looked at is pending.
ChangePending(p) ==
  pCn[p].enabled /\ (pCn[p].forced \/ pLevel[p] # pCn[p].backup) => pInt.CNIF \/ \E i \in pInt.ports : Ports[i] = PortOf(p)

ReadInv ==
  /\ ReadTypeOK /\ WatchInv /\ ~pStray
  /\ \A p \in pPins : Asked(p) /\ Echoed(p) /\ Counted(p) /\ LastTold(p) /\ ChangePending(p)

LEMMA InitRead == PinsInit => ReadInv
  <1> SUFFICES ASSUME PinsInit PROVE ReadInv
    OBVIOUS
  <1>1. PICK a \in PinsWatched : a + 1 < NUM_PINS(pHw) /\ {port_info(pHw)[a + 1], port_info(pHw)[a + 2]} \cap {MCLR} = {} /\ pPins = {a, a + 1}
    BY DEF PinsInit
  <1>2. a \in Nat /\ pHw \in PinsHardware /\ NUM_PINS(pHw) \in Nat
    <2>1. a \in Nat /\ pHw \in PinsHardware /\ pHw \in {0, 1, 4}
      BY PinsAssumption DEF PinsInit
    <2>2. QED
      BY <2>1 DEF NUM_PINS
  <1>3. \A p \in pPins : p \in 0 .. NUM_PINS(pHw) - 1 /\ port_info(pHw)[p + 1] # MCLR
    <2>1. a \in 0 .. NUM_PINS(pHw) - 1 /\ a + 1 \in 0 .. NUM_PINS(pHw) - 1 /\ (a + 1) + 1 = a + 2
      BY <1>1, <1>2
    <2>2. QED
      BY <1>1, <2>1
  <1>4. \A p \in pPins : /\ port_info(pHw)[p + 1] \in {Ports[i] : i \in DOMAIN Ports} \X (0 .. 15)
                         /\ PinFromPort(pHw, port_info(pHw)[p + 1][1], port_info(pHw)[p + 1][2]) = p
    BY <1>2, <1>3, TablesAgree
  <1>5. DOMAIN Ports = 1 .. 6
    BY DEF Ports
  <1>6. WatchInv
    <2>1. \E b \in Nat : pPins = {b, b + 1}
      BY <1>1, <1>2
    <2> SUFFICES ASSUME NEW p \in pPins
                 PROVE  /\ BitOf(p) \in Nat /\ (\E i \in 1 .. 6 : PortOf(p) = Ports[i])
                        /\ PinFromPort(pHw, PortOf(p), BitOf(p)) = p
      BY <2>1 DEF WatchInv
    <2> DEFINE e == port_info(pHw)[p + 1]
    <2>2. e \in {Ports[i] : i \in 1 .. 6} \X (0 .. 15) /\ PinFromPort(pHw, e[1], e[2]) = p /\ PortOf(p) = e[1] /\ BitOf(p) = e[2]
      BY <1>4, <1>5 DEF PortOf, BitOf
    <2> HIDE DEF e
    <2>3. QED
      BY <2>2
  <1> USE DEF PinsInit
  <1>7. ReadTypeOK
    BY DEF ReadTypeOK, OutMsgs, PinHosts
  <1>8. \A p \in pPins : Asked(p) /\ Echoed(p)
    <2>1. 1 .. (0 + 1) - 1 = {} /\ Len(<<>>) = 0
      OBVIOUS
    <2>2. QED
      BY <2>1 DEF Asked, Echoed, NoteBefore, EchoBefore, LastBefore, Bit
  <1>9. \A p \in pPins : Counted(p)
    <2>1. \A x : Occurs(<<>>, x) = 0
      <3> TAKE x
      <3>1. <<>> \in Seq(Int) /\ \A i \in 1 .. Len(<<>>) : <<>>[i] # x
        OBVIOUS
      <3>2. QED
        BY <3>1, OccursNever
    <2>2. QED
      BY <2>1 DEF Counted, Bit
  <1>10. QED
    BY <1>6, <1>7, <1>8, <1>9 DEF ReadInv, LastTold, Live, ChangePending

-----------------------------------------------------------------------------
(* Messages to the board.                                                  *)

LEMMA AskedStays ==
    ASSUME NEW p \in pPins, Asked(p), pIn' = pIn, pCn'[p].enabled = pCn[p].enabled, pHost'[p].mode = pHost[p].mode
    PROVE  Asked(p)'
  BY DEF Asked, NoteBefore

LEMMA AskedTaken ==
    ASSUME NEW p \in pPins, Asked(p), pIn \in Seq(PinMsgs), pIn # <<>>, pIn' = Tail(pIn), pHost'[p].mode = pHost[p].mode,
           Bit(pCn'[p].enabled) = IF IsNote(Head(pIn), NotifyMsg, p) THEN Head(pIn).arg ELSE Bit(pCn[p].enabled)
    PROVE  Asked(p)'
  <1>1. /\ Len(pIn) \in Nat \ {0} /\ Len(pIn') = Len(pIn) - 1 /\ \A i \in 1 .. Len(pIn) - 1 : pIn'[i] = pIn[i + 1]
    OBVIOUS
  <1>2. \A i \in 1 .. Len(pIn) : \A a : NoteBefore(p, i + 1, a) => LastBefore(pIn', NotifyMsg, p, Bit(pCn'[p].enabled), i, a)
    BY LastTaken DEF NoteBefore
  <1>3. \A i \in 1 .. Len(pIn') : Ordered(pIn'[i], p) => LastBefore(pIn', NotifyMsg, p, Bit(pCn'[p].enabled), i, 0)
    <2> SUFFICES ASSUME NEW i \in 1 .. Len(pIn'), Ordered(pIn'[i], p)
                 PROVE  LastBefore(pIn', NotifyMsg, p, Bit(pCn'[p].enabled), i, 0)
      OBVIOUS
    <2>1. i \in 1 .. Len(pIn) /\ i + 1 \in 1 .. Len(pIn) /\ pIn'[i] = pIn[i + 1]
      BY <1>1
    <2>2. NoteBefore(p, i + 1, 0)
      BY <2>1 DEF Asked
    <2>3. QED
      BY <1>2, <2>1, <2>2
  <1>4. LastBefore(pIn', NotifyMsg, p, Bit(pCn'[p].enabled), Len(pIn') + 1, Bit(pHost'[p].mode = "in"))
    <2>1. Len(pIn') + 1 = Len(pIn) /\ Len(pIn) \in 1 .. Len(pIn)
      BY <1>1
    <2>2. QED
      BY <1>2, <2>1 DEF Asked
  <1>5. QED
    BY <1>3, <1>4 DEF Asked, NoteBefore, Ordered, NoteOn, EndsNotify, Msg

\* Messages about another pin.
LEMMA AskedOther ==
    ASSUME NEW p \in pPins, Asked(p), pIn \in Seq(PinMsgs), NEW t \in Seq(PinMsgs), pIn' = pIn \o t, \A i \in 1 .. Len(t) : t[i].pin # p,
           pCn'[p].enabled = pCn[p].enabled, pHost'[p].mode = pHost[p].mode
    PROVE  Asked(p)'
  <1> DEFINE r == pIn \o t
             b == Bit(pCn[p].enabled)
  <1>1. /\ Len(r) = Len(pIn) + Len(t) /\ Len(pIn) \in Nat /\ Len(t) \in Nat
        /\ (\A i \in 1 .. Len(pIn) : r[i] = pIn[i]) /\ \A i \in 1 .. Len(t) : r[Len(pIn) + i] = t[i]
    OBVIOUS
  <1>2. LastBefore(r, NotifyMsg, p, b, Len(r) + 1, Bit(pHost[p].mode = "in"))
    BY LastAdded DEF Asked, NoteBefore, IsNote
  <1> HIDE DEF r
  <1>3. \A i \in 1 .. Len(r) : Ordered(r[i], p) => LastBefore(r, NotifyMsg, p, b, i, 0)
    <2> SUFFICES ASSUME NEW i \in 1 .. Len(r), Ordered(r[i], p)
                 PROVE  LastBefore(r, NotifyMsg, p, b, i, 0)
      OBVIOUS
    <2>1. CASE i > Len(pIn)
      <3>1. i - Len(pIn) \in 1 .. Len(t) /\ Len(pIn) + (i - Len(pIn)) = i
        BY <1>1, <2>1
      <3>2. r[i].pin # p
        BY <1>1, <3>1
      <3>3. QED
        BY <3>2 DEF Ordered
    <2>2. CASE ~(i > Len(pIn))
      <3>1. i \in 1 .. Len(pIn) /\ i \in Nat \ {0} /\ \A j \in 1 .. i - 1 : r[j] = pIn[j]
        BY <1>1, <2>2
      <3>2. LastBefore(pIn, NotifyMsg, p, b, i, 0)
        BY <1>1, <3>1 DEF Asked, NoteBefore
      <3>3. QED
        BY <3>1, <3>2, LastSame
    <2>3. QED
      BY <2>1, <2>2
  <1>4. pIn' = r
    BY DEF r
  <1>5. QED
    BY <1>2, <1>3, <1>4 DEF Asked, NoteBefore, Ordered, NoteOn, EndsNotify, Msg

\* One or two messages about p, each fit to come after what is before it.
LEMMA AskedMore ==
    ASSUME NEW p \in pPins, Asked(p), pIn \in Seq(PinMsgs), NEW t \in Seq(PinMsgs), Len(t) \in {1, 2}, pIn' = pIn \o t,
           pCn'[p].enabled = pCn[p].enabled,
           NEW v1, v1 = IF IsNote(t[1], NotifyMsg, p) THEN t[1].arg ELSE Bit(pHost[p].mode = "in"),
           Ordered(t[1], p) => Bit(pHost[p].mode = "in") = 0,
           Len(t) = 1 => Bit(pHost'[p].mode = "in") = v1,
           Len(t) = 2 => /\ Ordered(t[2], p) => v1 = 0
                         /\ Bit(pHost'[p].mode = "in") = IF IsNote(t[2], NotifyMsg, p) THEN t[2].arg ELSE v1
    PROVE  Asked(p)'
  <1> DEFINE r == pIn \o t
             n == Len(pIn)
             b == Bit(pCn[p].enabled)
             At(i, a) == LastBefore(r, NotifyMsg, p, b, i, a)
  <1>1. /\ Len(r) = n + Len(t) /\ n \in Nat
        /\ (\A i \in 1 .. n : r[i] = pIn[i]) /\ r[n + 1] = t[1] /\ (Len(t) = 2 => r[n + 2] = t[2])
    OBVIOUS
  <1>2. pIn' = r
    OBVIOUS
  <1> HIDE DEF r
  <1>3. \A i \in 1 .. n + 1 : \A a : NoteBefore(p, i, a) => At(i, a)
    <2> SUFFICES ASSUME NEW i \in 1 .. n + 1, NEW a, NoteBefore(p, i, a) PROVE At(i, a)
      OBVIOUS
    <2>1. i \in Nat \ {0} /\ \A j \in 1 .. i - 1 : r[j] = pIn[j]
      BY <1>1
    <2>2. QED
      BY <2>1, LastSame DEF NoteBefore
  <1>4. At(n + 1, Bit(pHost[p].mode = "in"))
    BY <1>1, <1>3 DEF Asked
  <1>5. At(n + 2, v1)
    <2>1. n + 1 \in Nat \ {0} /\ (n + 1) + 1 = n + 2
      BY <1>1
    <2>2. QED
      BY ZenonT(60), <1>1, <1>4, <2>1, LastNext
  <1>6. Len(t) = 2 => At(n + 3, IF IsNote(t[2], NotifyMsg, p) THEN t[2].arg ELSE v1)
    <2>1. n + 2 \in Nat \ {0} /\ (n + 2) + 1 = n + 3
      BY <1>1
    <2>2. QED
      BY ZenonT(60), <1>1, <1>5, <2>1, LastNext
  <1> HIDE DEF At
  <1>7. \A i \in 1 .. Len(r) : Ordered(r[i], p) => At(i, 0)
    <2> SUFFICES ASSUME NEW i \in 1 .. Len(r), Ordered(r[i], p) PROVE At(i, 0)
      OBVIOUS
    <2>0. Len(r) = n + 1 \/ (Len(r) = n + 2 /\ Len(t) = 2)
      BY <1>1
    <2>1. i \in 1 .. n \/ i = n + 1 \/ (i = n + 2 /\ Len(t) = 2)
      <3> HIDE DEF n
      <3>1. QED
        BY <1>1, <2>0
    <2>2. CASE i \in 1 .. n
      <3>1. NoteBefore(p, i, 0) /\ i \in 1 .. n + 1
        BY <1>1, <2>2 DEF Asked
      <3>2. QED
        BY <1>3, <3>1
    <2>3. CASE i = n + 1
      BY <1>1, <1>4, <2>3
    <2>4. CASE i = n + 2 /\ Len(t) = 2
      BY <1>1, <1>5, <2>4
    <2>5. QED
      BY <2>1, <2>2, <2>3, <2>4
  <1>8. At(Len(r) + 1, Bit(pHost'[p].mode = "in"))
    <2>1. CASE Len(t) = 1
      <3>1. Len(r) + 1 = n + 2
        BY <1>1, <2>1
      <3>2. QED
        BY <1>5, <2>1, <3>1
    <2>2. CASE Len(t) = 2
      <3>1. Len(r) + 1 = n + 3
        BY <1>1, <2>2
      <3>2. QED
        BY <1>6, <2>2, <3>1
    <2>3. QED
      BY <2>1, <2>2
  <1>9. QED
    BY <1>2, <1>7, <1>8 DEF At, Asked, NoteBefore, Ordered, NoteOn, EndsNotify, Msg

-----------------------------------------------------------------------------
(* Messages to the host.                                                   *)

LEMMA EchoedStays ==
    ASSUME NEW p \in pPins, Echoed(p), pOut' = pOut, pCn'[p].enabled = pCn[p].enabled, pHost'[p].open = pHost[p].open
    PROVE  Echoed(p)'
  BY DEF Echoed, EchoBefore, EchoOn, Msg

LEMMA EchoedTaken ==
    ASSUME NEW p \in pPins, Echoed(p), pOut \in Seq(OutMsgs), pOut # <<>>, pOut' = Tail(pOut), pCn'[p].enabled = pCn[p].enabled,
           Bit(pHost'[p].open) = IF IsNote(Head(pOut), "echo", p) THEN Head(pOut).arg ELSE Bit(pHost[p].open)
    PROVE  Echoed(p)'
  <1>1. /\ Len(pOut) \in Nat \ {0} /\ Len(pOut') = Len(pOut) - 1 /\ \A i \in 1 .. Len(pOut) - 1 : pOut'[i] = pOut[i + 1]
    OBVIOUS
  <1>2. \A i \in 1 .. Len(pOut) : \A a : EchoBefore(p, i + 1, a) => LastBefore(pOut', "echo", p, Bit(pHost'[p].open), i, a)
    BY LastTaken DEF EchoBefore
  <1>3. \A i \in 1 .. Len(pOut') : pOut'[i] = EchoOn(p) => LastBefore(pOut', "echo", p, Bit(pHost'[p].open), i, 0)
    <2> SUFFICES ASSUME NEW i \in 1 .. Len(pOut'), pOut'[i] = EchoOn(p)
                 PROVE  LastBefore(pOut', "echo", p, Bit(pHost'[p].open), i, 0)
      OBVIOUS
    <2>1. i \in 1 .. Len(pOut) /\ i + 1 \in 1 .. Len(pOut) /\ pOut'[i] = pOut[i + 1]
      BY <1>1
    <2>2. EchoBefore(p, i + 1, 0)
      BY <2>1 DEF Echoed
    <2>3. QED
      BY <1>2, <2>1, <2>2
  <1>4. LastBefore(pOut', "echo", p, Bit(pHost'[p].open), Len(pOut') + 1, Bit(pCn'[p].enabled))
    <2>1. Len(pOut') + 1 = Len(pOut) /\ Len(pOut) \in 1 .. Len(pOut)
      BY <1>1
    <2>2. QED
      BY <1>2, <2>1 DEF Echoed
  <1>5. QED
    BY <1>3, <1>4 DEF Echoed, EchoBefore, EchoOn, Msg

\* Messages that are not echoes of p.
LEMMA EchoedOther ==
    ASSUME NEW p \in pPins, Echoed(p), pOut \in Seq(OutMsgs), NEW t \in Seq(OutMsgs), pOut' = pOut \o t,
           \A i \in 1 .. Len(t) : ~IsNote(t[i], "echo", p),
           pCn'[p].enabled = pCn[p].enabled, pHost'[p].open = pHost[p].open
    PROVE  Echoed(p)'
  <1> DEFINE r == pOut \o t
             b == Bit(pHost[p].open)
  <1>1. /\ Len(r) = Len(pOut) + Len(t) /\ Len(pOut) \in Nat /\ Len(t) \in Nat
        /\ (\A i \in 1 .. Len(pOut) : r[i] = pOut[i]) /\ \A i \in 1 .. Len(t) : r[Len(pOut) + i] = t[i]
    OBVIOUS
  <1>2. LastBefore(r, "echo", p, b, Len(r) + 1, Bit(pCn[p].enabled))
    BY LastAdded DEF Echoed, EchoBefore
  <1>3. pOut' = r
    OBVIOUS
  <1> HIDE DEF r
  <1>4. \A i \in 1 .. Len(r) : r[i] = EchoOn(p) => LastBefore(r, "echo", p, b, i, 0)
    <2> SUFFICES ASSUME NEW i \in 1 .. Len(r), r[i] = EchoOn(p)
                 PROVE  LastBefore(r, "echo", p, b, i, 0)
      OBVIOUS
    <2>1. CASE i > Len(pOut)
      <3>1. i - Len(pOut) \in 1 .. Len(t) /\ Len(pOut) + (i - Len(pOut)) = i
        BY <1>1, <2>1
      <3>2. ~IsNote(r[i], "echo", p)
        BY <1>1, <3>1
      <3>3. QED
        BY <3>2 DEF EchoOn, Msg, IsNote
    <2>2. CASE ~(i > Len(pOut))
      <3>1. i \in 1 .. Len(pOut) /\ i \in Nat \ {0} /\ \A j \in 1 .. i - 1 : r[j] = pOut[j]
        BY <1>1, <2>2
      <3>2. LastBefore(pOut, "echo", p, b, i, 0)
        BY <1>1, <3>1 DEF Echoed, EchoBefore
      <3>3. QED
        BY <3>1, <3>2, LastSame
    <2>3. QED
      BY <2>1, <2>2
  <1>5. QED
    BY <1>2, <1>3, <1>4 DEF Echoed, EchoBefore, EchoOn, Msg

\* The echo of a SET_CHANGE_NOTIFY of p.
LEMMA EchoedMore ==
    ASSUME NEW p \in pPins, Echoed(p), pOut \in Seq(OutMsgs), NEW a \in {0, 1}, pOut' = Append(pOut, Msg("echo", p, a)),
           a = 1 => ~pCn[p].enabled, Bit(pCn'[p].enabled) = a, pHost'[p].open = pHost[p].open
    PROVE  Echoed(p)'
  <1> DEFINE m == Msg("echo", p, a)
             n == Len(pOut)
             b == Bit(pHost[p].open)
  <1>1. m \in OutMsgs /\ IsNote(m, "echo", p) /\ m.arg = a /\ (m = EchoOn(p) => a = 1)
    BY DEF Msg, OutMsgs, IsNote, EchoOn
  <1> HIDE DEF m
  <1>2. n \in Nat /\ pOut' = Append(pOut, m) /\ Len(pOut') = n + 1 /\ pOut'[n + 1] = m /\ \A i \in 1 .. n : pOut'[i] = pOut[i]
    BY <1>1 DEF m
  <1>3. \A i \in 1 .. n + 1 : \A c : EchoBefore(p, i, c) => LastBefore(pOut', "echo", p, b, i, c)
    <2> SUFFICES ASSUME NEW i \in 1 .. n + 1, NEW c, EchoBefore(p, i, c) PROVE LastBefore(pOut', "echo", p, b, i, c)
      OBVIOUS
    <2>1. i \in Nat \ {0} /\ \A j \in 1 .. i - 1 : pOut'[j] = pOut[j]
      BY <1>2
    <2>2. QED
      BY <2>1, LastSame DEF EchoBefore
  <1>4. LastBefore(pOut', "echo", p, b, n + 1, Bit(pCn[p].enabled))
    BY <1>2, <1>3 DEF Echoed
  <1>5. LastBefore(pOut', "echo", p, b, (n + 1) + 1, a)
    <2>1. n + 1 \in Nat \ {0}
      BY <1>2
    <2>2. QED
      BY <1>1, <1>2, <1>4, <2>1, LastNext
  <1>6. \A i \in 1 .. n + 1 : pOut'[i] = EchoOn(p) => LastBefore(pOut', "echo", p, b, i, 0)
    <2> SUFFICES ASSUME NEW i \in 1 .. n + 1, pOut'[i] = EchoOn(p) PROVE LastBefore(pOut', "echo", p, b, i, 0)
      OBVIOUS
    <2>1. CASE i = n + 1
      BY <1>1, <1>2, <1>4, <2>1 DEF Bit
    <2>2. CASE i # n + 1
      <3>1. i \in 1 .. n /\ EchoBefore(p, i, 0)
        BY <1>2, <2>2 DEF Echoed
      <3>2. QED
        BY <1>3, <3>1
    <2>3. QED
      BY <2>1, <2>2
  <1>7. QED
    BY <1>2, <1>5, <1>6 DEF Echoed, EchoBefore, EchoOn, Msg

\* The reports of a look at a port: one for each pin that has changed, with its level.
LEMMA ReportsShape ==
    ASSUME WatchInv, pLevel \in [pPins -> Int], NEW C \in SUBSET pPins
    PROVE  /\ Reports(C) \in Seq(OutMsgs)
           /\ \A k \in 1 .. Len(Reports(C)) : \E p \in C : Reports(C)[k] = Msg("report", p, pLevel[p])
           /\ \A p \in C : \E k \in 1 .. Len(Reports(C)) : Reports(C)[k] = Msg("report", p, pLevel[p]) /\ \A j \in k + 1 .. Len(Reports(C)) : Reports(C)[j].pin # p
           /\ \A p \in C : ReportOf(p).pin \in pPins
  <1> DEFINE low == CHOOSE p \in C : \A q \in C : BitOf(p) <= BitOf(q)
             other == CHOOSE p \in C : p # low
             M(p) == Msg("report", p, pLevel[p])
  <1>1. \A p \in pPins : ReportOf(p) = M(p) /\ M(p) \in OutMsgs /\ M(p).pin = p
    BY DEF WatchInv, ReportOf, Msg, OutMsgs
  <1>2. PICK a \in Nat : pPins = {a, a + 1}
    BY DEF WatchInv
  <1>3. C # {} => low \in C
    <2> SUFFICES ASSUME C # {} PROVE \E p \in C : \A q \in C : BitOf(p) <= BitOf(q)
      OBVIOUS
    <2>1. \A p \in pPins : BitOf(p) \in Nat
      BY DEF WatchInv
    <2>2. CASE a \in C /\ a + 1 \in C
      <3>1. C = {a, a + 1}
        BY <1>2, <2>2
      <3>2. BitOf(a) <= BitOf(a + 1) \/ BitOf(a + 1) <= BitOf(a)
        BY <1>2, <2>1
      <3>3. BitOf(a) <= BitOf(a) /\ BitOf(a + 1) <= BitOf(a + 1)
        BY <1>2, <2>1
      <3>4. QED
        BY <3>1, <3>2, <3>3
    <2>3. CASE ~(a \in C /\ a + 1 \in C)
      <3>1. PICK p \in C : C = {p}
        BY ZenonT(60), <1>2, <2>3
      <3>2. BitOf(p) <= BitOf(p)
        BY <2>1, <3>1
      <3>3. QED
        BY <3>1, <3>2
    <2>4. QED
      BY <2>2, <2>3
  <1> HIDE DEF low
  <1>4. C # {} /\ C # {low} => other \in C /\ other # low
    BY <1>3
  <1> HIDE DEF other
  <1>5. \A p \in C : p = low \/ p = other
    <2>1. CASE C = {low}
      BY <2>1
    <2>2. CASE C # {low}
      BY <1>2, <1>3, <1>4, <2>2
    <2>3. QED
      BY <2>1, <2>2
  <1>6. Reports(C) = IF C = {} THEN <<>> ELSE IF C = {low} THEN <<ReportOf(low)>> ELSE <<ReportOf(low), ReportOf(other)>>
    BY DEF Reports, low, other
  <1>7. \A p \in C : ReportOf(p).pin \in pPins
    BY <1>1
  <1>8. CASE C = {}
    <2>1. Reports(C) = <<>>
      BY <1>6, <1>8
    <2>2. Len(Reports(C)) = 0 /\ Reports(C) \in Seq(OutMsgs) /\ \A k \in 1 .. 0 : FALSE
      BY <2>1
    <2>3. QED
      BY <1>8, <2>2
  <1>9. CASE C = {low}
    <2>1. Reports(C) = <<M(low)>> /\ low \in pPins
      BY <1>1, <1>6, <1>9
    <2>2. M(low) \in OutMsgs
      BY <1>1, <2>1
    <2> HIDE DEF M
    <2>3. Len(Reports(C)) = 1 /\ Reports(C)[1] = M(low) /\ Reports(C) \in Seq(OutMsgs)
      BY <2>1, <2>2
    <2>4. (\A j \in 1 + 1 .. 1 : FALSE) /\ (\A j \in 1 .. 1 : j = 1) /\ 1 \in 1 .. 1
      OBVIOUS
    <2>5. \A k \in 1 .. 1 : \E p \in C : Reports(C)[k] = M(p)
      BY <1>9, <2>3, <2>4
    <2>6. \A p \in C : \E k \in 1 .. 1 : Reports(C)[k] = M(p) /\ \A j \in k + 1 .. 1 : Reports(C)[j].pin # p
      BY <1>9, <2>3, <2>4
    <2>7. QED
      BY <1>7, <2>3, <2>5, <2>6 DEF M
  <1>10. CASE C # {} /\ C # {low}
    <2>1. Reports(C) = <<M(low), M(other)>> /\ low \in pPins /\ other \in pPins /\ low # other
      BY <1>1, <1>3, <1>4, <1>6, <1>10
    <2>2. M(low) \in OutMsgs /\ M(other) \in OutMsgs /\ M(other).pin # low /\ M(low).pin = low
      BY <1>1, <2>1
    <2> HIDE DEF M
    <2>3. Len(Reports(C)) = 2 /\ Reports(C)[1] = M(low) /\ Reports(C)[2] = M(other) /\ Reports(C) \in Seq(OutMsgs)
      BY <2>1, <2>2
    <2>4. (\A j \in 2 + 1 .. 2 : FALSE) /\ (\A j \in 1 + 1 .. 2 : j = 2) /\ (\A j \in 1 .. 2 : j = 1 \/ j = 2)
      OBVIOUS
    <2>5. \A k \in 1 .. 2 : \E p \in C : Reports(C)[k] = M(p)
      BY <1>3, <1>4, <1>10, <2>3, <2>4
    <2>6. \A p \in C : \E k \in 1 .. 2 : Reports(C)[k] = M(p) /\ \A j \in k + 1 .. 2 : Reports(C)[j].pin # p
      <3> TAKE p \in C
      <3>1. CASE p = low
        <4>1. 1 \in 1 .. 2 /\ Reports(C)[1] = M(p) /\ \A j \in 1 + 1 .. 2 : Reports(C)[j].pin # p
          BY <2>2, <2>3, <2>4, <3>1
        <4>2. QED
          BY <4>1
      <3>2. CASE p = other
        <4>1. 2 \in 1 .. 2 /\ Reports(C)[2] = M(p) /\ \A j \in 2 + 1 .. 2 : Reports(C)[j].pin # p
          BY <2>3, <2>4, <3>2
        <4>2. QED
          BY <4>1
      <3>3. QED
        BY <1>5, <3>1, <3>2
    <2>7. QED
      BY <1>7, <2>3, <2>5, <2>6 DEF M
  <1>11. QED
    BY <1>8, <1>9, <1>10

\* What leaves the pins and the messages to the host alone.
LEMMA ToldStays ==
    ASSUME NEW p \in pPins, LastTold(p), pOut' = pOut, pCn'[p].forced = pCn[p].forced, pCn'[p].backup = pCn[p].backup,
           Live(p)' => Live(p) /\ pHost'[p].value = pHost[p].value
    PROVE  LastTold(p)'
  BY DEF LastTold, Told, Msg

\* The client of q sends messages, and is not told anything before they are handled.
LEMMA SentAbout ==
    ASSUME PinInv, ReadInv, NEW q \in pPins, NEW t \in Seq(PinMsgs), \A i \in 1 .. Len(t) : t[i].pin = q, pIn' = pIn \o t,
           UNCHANGED <<pHw, pPins, pLevel, pCn, pInt, pOut, pStray>>, pHost' \in [pPins -> PinHosts],
           \A p \in pPins : p # q => pHost'[p] = pHost[p], pHost'[q].open = pHost[q].open,
           Asked(q)', Counted(q)', ~Live(q)'
    PROVE  ReadInv'
  <1>1. pIn \in Seq(PinMsgs) /\ pOut \in Seq(OutMsgs)
    BY DEF PinInv, PinTypeOK, ReadInv, ReadTypeOK
  <1>2. ReadTypeOK' /\ WatchInv' /\ ~pStray'
    BY DEF ReadInv, ReadTypeOK, WatchInv, OutMsgs, PinHosts, PortOf, BitOf
  <1>3. \A p \in pPins : Echoed(p)' /\ ChangePending(p)'
    <2> TAKE p \in pPins
    <2>1. pHost'[p].open = pHost[p].open /\ Echoed(p) /\ ChangePending(p)
      BY DEF ReadInv
    <2>2. Echoed(p)'
      BY <2>1, EchoedStays
    <2>3. ChangePending(p)'
      BY <2>1 DEF ChangePending, PortOf
    <2>4. QED
      BY <2>2, <2>3
  <1>4. LastTold(q)'
    BY DEF LastTold
  <1>5. ASSUME NEW p \in pPins, p # q PROVE Asked(p)' /\ Counted(p)' /\ LastTold(p)'
    <2>1. Asked(p) /\ Counted(p) /\ LastTold(p) /\ pHost'[p] = pHost[p] /\ \A i \in 1 .. Len(t) : t[i].pin # p
      BY <1>5 DEF ReadInv
    <2>2. Asked(p)'
      BY <1>1, <2>1, AskedOther
    <2>3. Counted(p)'
      <3>1. \A i \in 1 .. Len(t) : t[i] # NoteOn(p)
        BY <2>1 DEF NoteOn, Msg
      <3>2. Occurs(pIn', NoteOn(p)) = Occurs(pIn, NoteOn(p))
        BY <1>1, <3>1, OccursAppended
      <3>3. QED
        BY <2>1, <3>2 DEF Counted, EchoOn, NoteOn, Msg
    <2>4. Live(p)' => Live(p)
      <3>1. Len(pIn') >= Len(pIn) /\ Len(pIn) \in Nat /\ Len(pIn') \in Nat /\ \A i \in 1 .. Len(pIn) : pIn'[i] = pIn[i]
        BY <1>1
      <3>2. QED
        BY <2>1, <3>1 DEF Live
    <2>5. LastTold(p)'
      BY <2>1, <2>4, ToldStays
    <2>6. QED
      BY <2>2, <2>3, <2>5
  <1>6. QED
    BY <1>2, <1>3, <1>4, <1>5 DEF ReadInv

LEMMA OpensKeepRead == ASSUME PinInv, ReadInv, NEW q \in pPins, NEW mode \in PinsUses, PinsHostOpens(q, mode) PROVE ReadInv'
  <1> DEFINE t == Opening(mode, q)
             more == IF mode = "in" THEN pHost[q].listeners + 1 ELSE pHost[q].listeners
             unread == -1
  <1>1. /\ pIn' = pIn \o t /\ UNCHANGED <<pHw, pPins, pLevel, pCn, pInt, pOut, pStray>> /\ pHost[q].mode = "closed"
        /\ pHost' = [pHost EXCEPT ![q].mode = mode, ![q].value = unread, ![q].listeners = more]
    BY DEF PinsHostOpens
  <1>2. t \in Seq(PinMsgs) /\ \A i \in 1 .. Len(t) : t[i].pin = q
    BY OpeningShape
  <1>3. /\ pHost' \in [pPins -> PinHosts] /\ (\A p \in pPins : p # q => pHost'[p] = pHost[p]) /\ pHost'[q].mode = mode
        /\ pHost'[q].open = pHost[q].open /\ pHost'[q].listeners = more
    <2>1. pHost \in [pPins -> PinHosts] /\ more \in Int /\ unread \in Int
      BY DEF ReadInv, ReadTypeOK, PinHosts
    <2> HIDE DEF more, unread
    <2>2. QED
      BY <1>1, <2>1 DEF PinHosts
  <1>4. /\ pIn \in Seq(PinMsgs) /\ pOut \in Seq(OutMsgs) /\ mode # "closed" /\ Asked(q) /\ Counted(q) /\ pCn'[q].enabled = pCn[q].enabled
        /\ Bit(pHost[q].mode = "in") = 0 /\ Bit(pHost'[q].mode = "in") = Bit(mode = "in")
    BY <1>1, <1>3, PinsAssumption DEF PinInv, PinTypeOK, ReadInv, ReadTypeOK, Bit
  <1>5. /\ Occurs(pIn, NoteOn(q)) \in Nat /\ Occurs(pOut, EchoOn(q)) \in Nat /\ pHost[q].listeners \in Int
        /\ Bit(pHost[q].open) \in Nat
    BY <1>4, OccursNat DEF ReadInv, ReadTypeOK, PinHosts, Bit
  <1>6. CASE mode = "in"
    <2>1. t = <<Msg("SET_PIN_DIGITAL_IN", q, 1), NoteOn(q)>>
      BY <1>6 DEF Opening, NoteOn, NotifyMsg
    <2>2. /\ Len(t) = 2 /\ ~IsNote(t[1], NotifyMsg, q) /\ IsNote(t[2], NotifyMsg, q) /\ t[2].arg = 1 /\ t[1] # NoteOn(q) /\ t[2] = NoteOn(q)
      BY <2>1 DEF NoteOn, NotifyMsg, IsNote, Msg
    <2> HIDE DEF t
    <2>3. Asked(q)'
      <3>1. Bit(pHost'[q].mode = "in") = 1
        BY <1>4, <1>6 DEF Bit
      <3> DEFINE v == Bit(pHost[q].mode = "in")
      <3>2. v = 0 /\ v = IF IsNote(t[1], NotifyMsg, q) THEN t[1].arg ELSE Bit(pHost[q].mode = "in")
        BY <1>4, <2>2
      <3>3. QED
        BY <1>1, <1>2, <1>4, <2>2, <3>1, <3>2, AskedMore
    <2>4. Occurs(pIn', NoteOn(q)) = Occurs(pIn, NoteOn(q)) + 1
      <3>1. 2 \in 1 .. Len(t) /\ \A i \in 1 .. Len(t) : i # 2 => t[i] # NoteOn(q)
        BY <2>2
      <3>2. QED
        BY ZenonT(60), <1>1, <1>2, <1>4, <2>2, <3>1, OccursAppended
    <2>5. ~Live(q)'
      <3>1. Len(pIn') = Len(pIn) + Len(t) /\ Len(pIn) \in Nat /\ \A i \in 1 .. Len(t) : pIn'[Len(pIn) + i] = t[i]
        BY <1>1, <1>2, <1>4
      <3>2. Len(pIn) + 2 \in 1 .. Len(pIn') /\ pIn'[Len(pIn) + 2] = t[2]
        BY <2>2, <3>1
      <3>3. QED
        BY <2>2, <3>2 DEF Live, IsNote, NotifyMsg
    <2>6. Counted(q)'
      BY <1>1, <1>3, <1>4, <1>5, <1>6, <2>4 DEF Counted, EchoOn, NoteOn, Msg
    <2>7. QED
      BY <1>1, <1>2, <1>3, <2>3, <2>5, <2>6, SentAbout
  <1>7. CASE mode # "in"
    <2>1. Len(t) \in {1, 2} /\ \A i \in 1 .. Len(t) : ~IsNote(t[i], NotifyMsg, q) /\ t[i] # NoteOn(q)
      <3>1. mode \in {"out", "analog", "capsense", "pwm", "uart", "spi"}
        BY <1>7, PinsAssumption
      <3>2. \A ty \in {"SET_PIN_DIGITAL_OUT", "SET_PIN_ANALOG_IN", "SET_PIN_CAPSENSE", "SET_PIN_PWM", "SET_PIN_UART", "SET_PIN_SPI"} :
              \A a : ~IsNote(Msg(ty, q, a), NotifyMsg, q) /\ Msg(ty, q, a) # NoteOn(q)
        BY DEF IsNote, Msg, NoteOn, NotifyMsg
      <3>3. CASE mode \in {"out", "analog", "capsense"}
        BY <3>2, <3>3 DEF Opening
      <3>4. CASE mode \in {"pwm", "uart", "spi"}
        BY <3>2, <3>4 DEF Opening
      <3>5. QED
        BY <3>1, <3>3, <3>4
    <2> HIDE DEF t
    <2>2. Asked(q)'
      <3> DEFINE v == Bit(pHost[q].mode = "in")
      <3>1. 1 \in 1 .. Len(t) /\ (Len(t) = 2 => 2 \in 1 .. Len(t))
        BY <2>1
      <3>2. ~IsNote(t[1], NotifyMsg, q) /\ (Len(t) = 2 => ~IsNote(t[2], NotifyMsg, q))
        BY <2>1, <3>1
      <3>3. v = 0 /\ Bit(pHost'[q].mode = "in") = v
        BY <1>4, <1>7 DEF Bit
      <3>4. v = IF IsNote(t[1], NotifyMsg, q) THEN t[1].arg ELSE Bit(pHost[q].mode = "in")
        BY <3>2
      <3> HIDE DEF v
      <3>5. QED
        BY <1>1, <1>2, <1>4, <2>1, <3>2, <3>3, <3>4, AskedMore
    <2>3. Occurs(pIn', NoteOn(q)) = Occurs(pIn, NoteOn(q))
      BY <1>1, <1>2, <1>4, <2>1, OccursAppended
    <2>4. Counted(q)'
      BY <1>1, <1>3, <1>4, <1>5, <1>7, <2>3 DEF Counted, EchoOn, NoteOn, Msg
    <2>5. ~Live(q)'
      BY <1>3, <1>7 DEF Live
    <2>6. QED
      BY <1>1, <1>2, <1>3, <2>2, <2>4, <2>5, SentAbout
  <1>8. QED
    BY <1>6, <1>7

LEMMA ClosesKeepRead == ASSUME PinInv, ReadInv, NEW q \in pPins, PinsHostCloses(q) PROVE ReadInv'
  <1> DEFINE mode == pHost[q].mode
             t == Closing(mode, q)
             last == Msg("SET_PIN_DIGITAL_IN", q, 0)
  <1>0. mode \in PinsUses
    BY DEF PinsHostCloses, PinInv, PinTypeOK, PinHost
  <1>1. /\ pIn' = pIn \o t /\ UNCHANGED <<pHw, pPins, pLevel, pCn, pInt, pOut, pStray>> /\ pHost' = [pHost EXCEPT ![q].mode = "closed"]
    BY DEF PinsHostCloses
  <1>2. t \in Seq(PinMsgs) /\ \A i \in 1 .. Len(t) : t[i].pin = q
    BY <1>0, ClosingShape
  <1>3. /\ pHost' \in [pPins -> PinHosts] /\ (\A p \in pPins : p # q => pHost'[p] = pHost[p]) /\ pHost'[q].mode = "closed"
        /\ pHost'[q].open = pHost[q].open /\ pHost'[q].listeners = pHost[q].listeners
    <2>1. pHost \in [pPins -> PinHosts]
      BY DEF ReadInv, ReadTypeOK
    <2>2. QED
      BY <1>1, <2>1 DEF PinHosts
  <1>4. /\ pIn \in Seq(PinMsgs) /\ pOut \in Seq(OutMsgs) /\ Asked(q) /\ Counted(q) /\ pCn'[q].enabled = pCn[q].enabled
        /\ Bit(pHost'[q].mode = "in") = 0
    BY <1>1, <1>3 DEF PinInv, PinTypeOK, ReadInv, ReadTypeOK, Bit
  <1>5. ~IsNote(last, NotifyMsg, q) /\ last # NoteOn(q)
    BY DEF IsNote, Msg, NoteOn, NotifyMsg
  <1>6. \/ /\ Len(t) = 2 /\ mode = "in" /\ IsNote(t[1], NotifyMsg, q) /\ t[1].arg = 0 /\ t[1] # NoteOn(q) /\ ~EndsNotify(t[1]) /\ t[2] = last
        \/ Len(t) = 2 /\ mode # "in" /\ ~IsNote(t[1], NotifyMsg, q) /\ t[1] # NoteOn(q) /\ t[2] = last
        \/ Len(t) = 1 /\ mode # "in" /\ t[1] = last
    <2>1. CASE mode = "in"
      <3>1. t = <<Msg("SET_CHANGE_NOTIFY", q, 0)>> \o <<last>>
        BY <2>1 DEF Closing
      <3>2. LET m == Msg("SET_CHANGE_NOTIFY", q, 0) IN IsNote(m, NotifyMsg, q) /\ m.arg = 0 /\ m # NoteOn(q) /\ ~EndsNotify(m)
        BY DEF Msg, IsNote, NotifyMsg, NoteOn, EndsNotify
      <3> HIDE DEF t, last
      <3>3. QED
        BY <2>1, <3>1, <3>2
    <2>2. CASE mode \in {"pwm", "uart", "spi"}
      <3>1. PICK ty \in {"SET_PIN_PWM", "SET_PIN_UART", "SET_PIN_SPI"} : t = <<Msg(ty, q, 0)>> \o <<last>>
        BY <2>2 DEF Closing
      <3>2. LET m == Msg(ty, q, 0) IN ~IsNote(m, NotifyMsg, q) /\ m # NoteOn(q)
        BY DEF Msg, IsNote, NotifyMsg, NoteOn
      <3> HIDE DEF t, last
      <3>3. QED
        BY <2>2, <3>1, <3>2
    <2>3. CASE mode \notin {"in", "pwm", "uart", "spi"}
      <3>1. t = <<>> \o <<last>>
        BY <2>3 DEF Closing
      <3> HIDE DEF t, last
      <3>2. QED
        BY <2>3, <3>1
    <2>4. QED
      BY <2>1, <2>2, <2>3
  <1> HIDE DEF t, last
  <1>7. \A i \in 1 .. Len(t) : t[i] # NoteOn(q)
    BY <1>5, <1>6
  <1>8. Asked(q)'
    <2> DEFINE v == IF IsNote(t[1], NotifyMsg, q) THEN t[1].arg ELSE Bit(mode = "in")
    <2>1. v = 0 /\ (Ordered(t[1], q) => Bit(mode = "in") = 0) /\ Len(t) \in {1, 2}
      BY <1>5, <1>6 DEF Bit, Ordered
    <2>2. Len(t) = 2 => ~IsNote(t[2], NotifyMsg, q)
      BY <1>5, <1>6
    <2>3. v = IF IsNote(t[1], NotifyMsg, q) THEN t[1].arg ELSE Bit(pHost[q].mode = "in")
      OBVIOUS
    <2> HIDE DEF v
    <2>4. /\ Ordered(t[1], q) => Bit(pHost[q].mode = "in") = 0
          /\ Len(t) = 1 => Bit(pHost'[q].mode = "in") = v
          /\ Len(t) = 2 => /\ Ordered(t[2], q) => v = 0
                           /\ Bit(pHost'[q].mode = "in") = IF IsNote(t[2], NotifyMsg, q) THEN t[2].arg ELSE v
      BY <1>4, <2>1, <2>2
    <2>5. Asked(q) /\ pIn \in Seq(PinMsgs) /\ t \in Seq(PinMsgs) /\ Len(t) \in {1, 2} /\ pIn' = pIn \o t /\ pCn'[q].enabled = pCn[q].enabled
      BY <1>1, <1>2, <1>4, <2>1
    <2> HIDE DEF mode
    <2>6. QED
      BY <2>3, <2>4, <2>5, AskedMore
  <1>9. Occurs(pIn', NoteOn(q)) = Occurs(pIn, NoteOn(q))
    BY <1>1, <1>2, <1>4, <1>7, OccursAppended
  <1>10. Counted(q)'
    BY <1>1, <1>3, <1>4, <1>9 DEF Counted, EchoOn, NoteOn, Msg
  <1>11. ~Live(q)'
    BY <1>3 DEF Live
  <1>12. QED
    BY <1>1, <1>2, <1>3, <1>8, <1>10, <1>11, SentAbout

\* A live pin is watched, and one that is put in a mode or turned on is not.
LEMMA LiveWatched == ASSUME NEW p \in pPins, Asked(p), Live(p), pIn \in Seq(PinMsgs) PROVE pCn[p].enabled
  <1>1. (Len(pIn) + 1) - 1 = Len(pIn)
    OBVIOUS
  <1>2. LastBefore(pIn, NotifyMsg, p, Bit(pCn[p].enabled), Len(pIn) + 1, 1) /\ \A i \in 1 .. Len(pIn) : ~IsNote(pIn[i], NotifyMsg, p)
    BY DEF Asked, NoteBefore, Live, Bit
  <1>3. Bit(pCn[p].enabled) = 1
    BY <1>1, <1>2 DEF LastBefore
  <1>4. QED
    BY <1>3 DEF Bit

LEMMA OrderedOff == ASSUME NEW p \in pPins, Asked(p), pIn \in Seq(PinMsgs), pIn # <<>>, Ordered(Head(pIn), p) PROVE ~pCn[p].enabled
  <1>1. 1 \in 1 .. Len(pIn) /\ Head(pIn) = pIn[1] /\ 1 .. 1 - 1 = {}
    OBVIOUS
  <1>2. LastBefore(pIn, NotifyMsg, p, Bit(pCn[p].enabled), 1, 0)
    BY <1>1 DEF Asked, NoteBefore
  <1>3. Bit(pCn[p].enabled) = 0
    BY <1>1, <1>2 DEF LastBefore
  <1>4. QED
    BY <1>3 DEF Bit

\* More messages to the host, none about p.
LEMMA ToldOther ==
    ASSUME NEW S, NEW s \in Seq(S), NEW t \in Seq(S), NEW p, NEW v, NEW x, Told(s, p, v, x), \A i \in 1 .. Len(t) : t[i].pin # p
    PROVE  Told(s \o t, p, v, x)
  <1> DEFINE n == Len(s)
             r == s \o t
  <1>1. /\ n \in Nat /\ Len(t) \in Nat /\ Len(r) = n + Len(t) /\ (\A i \in 1 .. n : r[i] = s[i])
        /\ \A i \in 1 .. Len(t) : r[n + i] = t[i]
    OBVIOUS
  <1> HIDE DEF r, n
  <1>2. \A j \in 1 .. Len(r) : j > n => r[j].pin # p
    <2> TAKE j \in 1 .. Len(r)
    <2>1. HAVE j > n
    <2>2. j - n \in 1 .. Len(t) /\ n + (j - n) = j
      BY <1>1, <2>1
    <2>3. QED
      BY <1>1, <2>2
  <1>3. CASE \E k \in 1 .. n : s[k] = Msg("report", p, v) /\ \A j \in k + 1 .. n : s[j].pin # p
    <2>1. PICK k \in 1 .. n : s[k] = Msg("report", p, v) /\ \A j \in k + 1 .. n : s[j].pin # p
      BY <1>3
    <2>2. k \in 1 .. Len(r) /\ r[k] = Msg("report", p, v)
      BY <1>1, <2>1
    <2>3. \A j \in k + 1 .. Len(r) : r[j].pin # p
      <3> TAKE j \in k + 1 .. Len(r)
      <3>1. CASE j > n
        BY <1>1, <1>2, <3>1
      <3>2. CASE ~(j > n)
        <4>1. j \in k + 1 .. n /\ j \in 1 .. n
          BY <1>1, <3>2
        <4>2. QED
          BY <1>1, <2>1, <4>1
      <3>3. QED
        BY <3>1, <3>2
    <2>4. QED
      BY <2>2, <2>3 DEF Told, r
  <1>4. CASE (\A j \in 1 .. n : s[j].pin # p) /\ x = v
    <2>1. \A j \in 1 .. Len(r) : r[j].pin # p
      <3> TAKE j \in 1 .. Len(r)
      <3>1. CASE j > n
        BY <1>2, <3>1
      <3>2. CASE ~(j > n)
        <4>1. j \in 1 .. n
          BY <1>1, <3>2
        <4>2. QED
          BY <1>1, <1>4, <4>1
      <3>3. QED
        BY <3>1, <3>2
    <2>2. QED
      BY <1>4, <2>1 DEF Told, r
  <1>5. QED
    BY <1>3, <1>4 DEF Told, n

\* More messages, of which the last about p reports v.
LEMMA ToldNow ==
    ASSUME NEW S, NEW s \in Seq(S), NEW t \in Seq(S), NEW p, NEW v, NEW x,
           \E k \in 1 .. Len(t) : t[k] = Msg("report", p, v) /\ \A j \in k + 1 .. Len(t) : t[j].pin # p
    PROVE  Told(s \o t, p, v, x)
  <1> DEFINE n == Len(s)
             r == s \o t
  <1>1. n \in Nat /\ Len(t) \in Nat /\ Len(r) = n + Len(t) /\ \A i \in 1 .. Len(t) : r[n + i] = t[i]
    OBVIOUS
  <1> HIDE DEF r, n
  <1>2. PICK k \in 1 .. Len(t) : t[k] = Msg("report", p, v) /\ \A j \in k + 1 .. Len(t) : t[j].pin # p
    OBVIOUS
  <1>3. n + k \in 1 .. Len(r) /\ r[n + k] = Msg("report", p, v)
    BY <1>1, <1>2
  <1>4. \A j \in (n + k) + 1 .. Len(r) : r[j].pin # p
    <2> TAKE j \in (n + k) + 1 .. Len(r)
    <2>1. j - n \in k + 1 .. Len(t) /\ j - n \in 1 .. Len(t) /\ n + (j - n) = j
      BY <1>1
    <2>2. QED
      BY <1>1, <1>2, <2>1
  <1>5. QED
    BY <1>3, <1>4 DEF Told, r

\* The first message is taken, and it is not the report that counts.
LEMMA ToldTaken ==
    ASSUME NEW S, NEW s \in Seq(S), s # <<>>, NEW p, NEW v, NEW x, Told(s, p, v, x),
           Head(s) # Msg("report", p, v) \/ \E j \in 2 .. Len(s) : s[j].pin = p
    PROVE  Told(Tail(s), p, v, x)
  <1> DEFINE n == Len(s)
             r == Tail(s)
  <1>1. n \in Nat \ {0} /\ Len(r) = n - 1 /\ Head(s) = s[1] /\ \A i \in 1 .. n - 1 : r[i] = s[i + 1]
    OBVIOUS
  <1> HIDE DEF r
  <1>2. CASE \E k \in 1 .. n : s[k] = Msg("report", p, v) /\ \A j \in k + 1 .. n : s[j].pin # p
    <2>1. PICK k \in 1 .. n : s[k] = Msg("report", p, v) /\ \A j \in k + 1 .. n : s[j].pin # p
      BY <1>2
    <2>2. k # 1
      BY <1>1, <2>1
    <2>3. k - 1 \in 1 .. n - 1 /\ (k - 1) + 1 = k
      BY <1>1, <2>2
    <2>4. \A j \in (k - 1) + 1 .. n - 1 : r[j].pin # p
      <3> TAKE j \in (k - 1) + 1 .. n - 1
      <3>1. j + 1 \in k + 1 .. n /\ j \in 1 .. n - 1
        BY <1>1, <2>3
      <3>2. QED
        BY <1>1, <2>1, <3>1
    <2>5. QED
      BY <1>1, <2>1, <2>3, <2>4 DEF Told, r
  <1>3. CASE (\A j \in 1 .. n : s[j].pin # p) /\ x = v
    <2>1. \A j \in 1 .. n - 1 : r[j].pin # p
      <3> TAKE j \in 1 .. n - 1
      <3>1. j + 1 \in 1 .. n
        BY <1>1
      <3>2. QED
        BY <1>1, <1>3, <3>1
    <2>2. QED
      BY <1>1, <1>3, <2>1 DEF Told, r
  <1>4. QED
    BY <1>2, <1>3 DEF Told

\* No message moves and the registers of the pins stay.
LEMMA QuietRead ==
    ASSUME ReadInv, UNCHANGED <<pHw, pPins, pCn, pIn, pOut, pHost, pStray>>, ReadTypeOK', \A p \in pPins : ChangePending(p)'
    PROVE  ReadInv'
  <1>1. WatchInv' /\ ~pStray'
    BY DEF ReadInv, WatchInv, PortOf, BitOf
  <1>2. \A p \in pPins : Asked(p)' /\ Echoed(p)' /\ Counted(p)' /\ LastTold(p)'
    <2> TAKE p \in pPins
    <2>1. Asked(p) /\ Echoed(p) /\ Counted(p) /\ LastTold(p)
      BY DEF ReadInv
    <2>2. Asked(p)'
      BY <2>1, AskedStays
    <2>3. Echoed(p)'
      BY <2>1, EchoedStays
    <2>4. Counted(p)'
      BY <2>1 DEF Counted, EchoOn, NoteOn, Msg
    <2>5. Live(p)' => Live(p)
      BY DEF Live
    <2>6. LastTold(p)'
      BY <2>1, <2>5, ToldStays
    <2>7. QED
      BY <2>2, <2>3, <2>4, <2>6
  <1>3. QED
    BY <1>1, <1>2 DEF ReadInv

LEMMA LevelKeepsRead == ASSUME ReadInv, NEW q \in pPins, LevelChanges(q) PROVE ReadInv'
  <1> DEFINE on == TRUE
  <1>1. pInt' = [pInt EXCEPT !.CNIF = on] /\ UNCHANGED <<pHw, pPins, pCn, pIn, pOut, pHost, pStray>> /\ on
    BY DEF LevelChanges
  <1>2. pInt \in [CNIE : BOOLEAN, CNIF : BOOLEAN, ports : SUBSET (1 .. 6)] /\ on \in BOOLEAN
    BY DEF ReadInv, ReadTypeOK
  <1> HIDE DEF on
  <1>3. pInt' \in [CNIE : BOOLEAN, CNIF : BOOLEAN, ports : SUBSET (1 .. 6)] /\ pInt'.CNIF = on
    BY <1>1, <1>2
  <1>4. ReadTypeOK'
    BY <1>1, <1>3 DEF ReadInv, ReadTypeOK, OutMsgs, PinHosts
  <1>5. \A p \in pPins : ChangePending(p)'
    BY <1>1, <1>3 DEF ChangePending
  <1>6. QED
    BY <1>1, <1>4, <1>5, QuietRead

LEMMA InterruptKeepsRead == ASSUME ReadInv, CNInterrupt PROVE ReadInv'
  <1> DEFINE off == FALSE
             S == {i \in DOMAIN Ports : \E p \in pPins : PortOf(p) = Ports[i]}
  <1>1. pInt' = [pInt EXCEPT !.CNIF = off, !.ports = S] /\ UNCHANGED <<pHw, pPins, pLevel, pCn, pIn, pOut, pHost, pStray>>
    BY DEF CNInterrupt
  <1>2. DOMAIN Ports = 1 .. 6
    BY DEF Ports
  <1>3. pInt \in [CNIE : BOOLEAN, CNIF : BOOLEAN, ports : SUBSET (1 .. 6)] /\ off \in BOOLEAN /\ S \in SUBSET (1 .. 6)
    BY <1>2 DEF ReadInv, ReadTypeOK
  <1>4. \A p \in pPins : \E i \in S : Ports[i] = PortOf(p)
    BY <1>2 DEF ReadInv, WatchInv
  <1> HIDE DEF off, S
  <1>5. pInt' \in [CNIE : BOOLEAN, CNIF : BOOLEAN, ports : SUBSET (1 .. 6)] /\ pInt'.ports = S
    BY <1>1, <1>3
  <1>6. ReadTypeOK'
    BY <1>1, <1>5 DEF ReadInv, ReadTypeOK, OutMsgs, PinHosts
  <1>7. \A p \in pPins : ChangePending(p)'
    BY <1>1, <1>4, <1>5 DEF ChangePending, PortOf
  <1>8. QED
    BY <1>1, <1>6, <1>7, QuietRead

\* The handler looks at a port.
LEMMA LookKeepsRead == ASSUME PinInv, ReadInv, CheckPortChange PROVE ReadInv'
  <1> DEFINE off == FALSE
             Seen(p) == [pCn[p] EXCEPT !.forced = off, !.backup = pLevel[p]]
  <1>1. PICK i \in pInt.ports :
          /\ pOut' = pOut \o Reports(ChangedPins(i)) /\ pStray' = (pStray \/ \E p \in ChangedPins(i) : ReportOf(p).pin \notin pPins)
          /\ pCn' = [p \in pPins |-> IF PortOf(p) = Ports[i] THEN Seen(p) ELSE pCn[p]]
          /\ pInt' = [pInt EXCEPT !.ports = @ \ {i}] /\ UNCHANGED <<pHw, pPins, pCfg, pLevel, pIn, pHost, pCount>>
    BY DEF CheckPortChange
  <1> DEFINE C == ChangedPins(i)
             t == Reports(C)
  <1>2. C \in SUBSET pPins /\ \A p \in pPins : p \in C <=> PortOf(p) = Ports[i] /\ pCn[p].enabled /\ (pCn[p].forced \/ pLevel[p] # pCn[p].backup)
    BY DEF ChangedPins
  <1>3. WatchInv /\ pLevel \in [pPins -> Int] /\ pOut \in Seq(OutMsgs) /\ pIn \in Seq(PinMsgs) /\ pHost \in [pPins -> PinHosts] /\ ~pStray
    BY DEF ReadInv, ReadTypeOK, PinInv, PinTypeOK
  <1>4. /\ t \in Seq(OutMsgs) /\ (\A k \in 1 .. Len(t) : \E p \in C : t[k] = Msg("report", p, pLevel[p]))
        /\ (\A p \in C : \E k \in 1 .. Len(t) : t[k] = Msg("report", p, pLevel[p]) /\ \A j \in k + 1 .. Len(t) : t[j].pin # p)
        /\ \A p \in C : ReportOf(p).pin \in pPins
    <2> HIDE DEF C
    <2>1. QED
      BY <1>2, <1>3, ReportsShape
  <1>5. pOut' = pOut \o t /\ ~pStray' /\ UNCHANGED <<pHw, pPins, pLevel, pIn, pHost>>
    BY <1>1, <1>3, <1>4
  <1>6. /\ \A p \in pPins : /\ pCn'[p].enabled = pCn[p].enabled
                            /\ PortOf(p) = Ports[i] => ~pCn'[p].forced /\ pCn'[p].backup = pLevel[p]
                            /\ PortOf(p) # Ports[i] => pCn'[p] = pCn[p]
    <2>1. pCn \in [pPins -> [enabled : BOOLEAN, forced : BOOLEAN, backup : Int]] /\ ~off
      BY DEF PinInv, PinTypeOK
    <2> HIDE DEF off
    <2>2. QED
      BY <1>1, <2>1
  <1>7. pInt' \in [CNIE : BOOLEAN, CNIF : BOOLEAN, ports : SUBSET (1 .. 6)] /\ pInt'.CNIF = pInt.CNIF /\ pInt'.ports = pInt.ports \ {i}
    BY <1>1 DEF ReadInv, ReadTypeOK
  <1> HIDE DEF C, t, Seen, off
  <1>8. pOut' \in Seq(OutMsgs)
    BY <1>3, <1>4, <1>5
  <1>9. ReadTypeOK' /\ WatchInv'
    BY <1>3, <1>5, <1>7, <1>8 DEF ReadTypeOK, WatchInv, OutMsgs, PinHosts, PortOf, BitOf
  <1>10. ASSUME NEW p \in pPins PROVE Asked(p)' /\ Echoed(p)' /\ Counted(p)' /\ LastTold(p)' /\ ChangePending(p)'
    <2>1. Asked(p) /\ Echoed(p) /\ Counted(p) /\ LastTold(p) /\ ChangePending(p)
      BY <1>10 DEF ReadInv
    <2>2. Asked(p)'
      BY <1>5, <1>6, <2>1, AskedStays
    <2>3. \A k \in 1 .. Len(t) : ~IsNote(t[k], "echo", p) /\ t[k] # EchoOn(p)
      <3> TAKE k \in 1 .. Len(t)
      <3>1. PICK c \in C : t[k] = Msg("report", c, pLevel[c])
        BY <1>4
      <3>2. QED
        BY <3>1 DEF Msg, IsNote, EchoOn
    <2>4. Echoed(p)'
      BY <1>3, <1>4, <1>5, <1>6, <2>1, <2>3, EchoedOther
    <2>5. Occurs(pOut', EchoOn(p)) = Occurs(pOut, EchoOn(p))
      <3>1. Occurs(pOut \o t, EchoOn(p)) = Occurs(pOut, EchoOn(p))
        BY <1>3, <1>4, <2>3, OccursAppended
      <3>2. QED
        BY <1>5, <3>1
    <2>6. Counted(p)'
      BY <1>5, <2>1, <2>5 DEF Counted, EchoOn, NoteOn, Msg
    <2>7. LastTold(p)'
      <3> SUFFICES ASSUME Live(p), ~pCn'[p].forced PROVE Told(pOut', p, pCn'[p].backup, pHost[p].value)
        BY <1>5 DEF LastTold, Live, Told, Msg
      <3>1. pCn[p].enabled
        BY <1>3, <2>1, LiveWatched
      <3>2. CASE p \in C
        <4>1. pCn'[p].backup = pLevel[p]
          BY <1>2, <1>6, <3>2
        <4>2. \E k \in 1 .. Len(t) : t[k] = Msg("report", p, pLevel[p]) /\ \A j \in k + 1 .. Len(t) : t[j].pin # p
          BY <1>4, <3>2
        <4>3. Told(pOut \o t, p, pLevel[p], pHost[p].value)
          BY <1>3, <1>4, <4>2, ToldNow
        <4>4. QED
          BY <1>5, <4>1, <4>3
      <3>3. CASE p \notin C
        <4>1. ~pCn[p].forced /\ pCn'[p].backup = pCn[p].backup
          BY <1>2, <1>6, <3>1, <3>3
        <4>2. \A k \in 1 .. Len(t) : t[k].pin # p
          <5> TAKE k \in 1 .. Len(t)
          <5>1. PICK c \in C : t[k] = Msg("report", c, pLevel[c])
            BY <1>4
          <5>2. t[k].pin = c
            BY <5>1 DEF Msg
          <5>3. QED
            BY <3>3, <5>2
        <4>3. Told(pOut, p, pCn[p].backup, pHost[p].value)
          BY <2>1, <4>1 DEF LastTold
        <4>4. Told(pOut \o t, p, pCn[p].backup, pHost[p].value)
          BY <1>3, <1>4, <4>2, <4>3, ToldOther
        <4>5. QED
          BY <1>5, <4>1, <4>4
      <3>4. QED
        BY <3>2, <3>3
    <2>8. ChangePending(p)'
      <3>1. CASE PortOf(p) = Ports[i]
        BY <1>5, <1>6, <3>1 DEF ChangePending
      <3>2. CASE PortOf(p) # Ports[i]
        BY <1>5, <1>6, <1>7, <2>1, <3>2 DEF ChangePending, PortOf
      <3>3. QED
        BY <3>1, <3>2
    <2>9. QED
      BY <2>2, <2>4, <2>6, <2>7, <2>8
  <1>11. QED
    BY <1>5, <1>9, <1>10 DEF ReadInv

\* A pin is live after the first message if it was before, or if that message is about its notification.
LEMMA LiveTaken ==
    ASSUME NEW p \in pPins, pIn \in Seq(PinMsgs), pIn # <<>>, pIn' = Tail(pIn), pHost'[p].mode = pHost[p].mode,
           ~IsNote(Head(pIn), NotifyMsg, p), Live(p)'
    PROVE  Live(p)
  <1>1. Len(pIn) \in Nat \ {0} /\ Len(pIn') = Len(pIn) - 1 /\ Head(pIn) = pIn[1] /\ \A i \in 1 .. Len(pIn) - 1 : pIn'[i] = pIn[i + 1]
    OBVIOUS
  <1>2. pHost'[p].mode = "in" /\ \A i \in 1 .. Len(pIn') : ~IsNote(pIn'[i], NotifyMsg, p)
    BY DEF Live, IsNote, NotifyMsg
  <1>3. \A i \in 1 .. Len(pIn) : ~IsNote(pIn[i], NotifyMsg, p)
    <2> TAKE i \in 1 .. Len(pIn)
    <2>1. CASE i = 1
      BY <1>1, <2>1
    <2>2. CASE i # 1
      <3>1. i - 1 \in 1 .. Len(pIn') /\ i - 1 \in 1 .. Len(pIn) - 1 /\ (i - 1) + 1 = i
        BY <1>1, <2>2
      <3>2. QED
        BY <1>1, <1>2, <3>1
    <2>3. QED
      BY <2>1, <2>2
  <1>4. QED
    BY <1>2, <1>3 DEF Live

\* A mode is set only while the pin is not watched, so that the notification stays off.
LEMMA ModeKeepsRead == ASSUME PinInv, ReadInv, BoardSetsMode PROVE ReadInv'
  <1> DEFINE m == Head(pIn)
             off == FALSE
  <1>1. /\ pIn # <<>> /\ pIn' = Tail(pIn) /\ m.type # "SET_CHANGE_NOTIFY" /\ UNCHANGED <<pHw, pPins, pLevel, pInt, pOut, pHost, pStray>>
        /\ pCn' = IF EndsNotify(m) THEN [pCn EXCEPT ![m.pin].enabled = off] ELSE pCn
    BY DEF BoardSetsMode
  <1>2. /\ pIn \in Seq(PinMsgs) /\ m \in PinMsgs /\ m.pin \in pPins /\ pOut \in Seq(OutMsgs)
        /\ pCn \in [pPins -> [enabled : BOOLEAN, forced : BOOLEAN, backup : Int]]
    <2>1. pIn \in Seq(PinMsgs) /\ pOut \in Seq(OutMsgs) /\ pCn \in [pPins -> [enabled : BOOLEAN, forced : BOOLEAN, backup : Int]]
      BY DEF PinInv, PinTypeOK, ReadInv, ReadTypeOK
    <2>2. m \in PinMsgs
      BY <1>1, <2>1
    <2>3. QED
      BY <2>1, <2>2 DEF PinMsgs
  <1> HIDE DEF m
  <1>3. EndsNotify(m) => pCn[m.pin].enabled = off
    <2> SUFFICES ASSUME EndsNotify(m) PROVE pCn[m.pin].enabled = off
      OBVIOUS
    <2>1. Ordered(Head(pIn), m.pin) /\ Asked(m.pin)
      BY <1>2 DEF Ordered, m, ReadInv
    <2>2. ~pCn[m.pin].enabled
      BY <1>1, <1>2, <2>1, OrderedOff
    <2>3. QED
      BY <1>2, <2>2
  <1>4. \A p \in pPins : pCn'[p] = pCn[p]
    <2> HIDE DEF off
    <2>1. QED
      BY <1>1, <1>2, <1>3
  <1>5. ReadTypeOK' /\ WatchInv' /\ ~pStray'
    BY <1>1 DEF ReadInv, ReadTypeOK, WatchInv, OutMsgs, PinHosts, PortOf, BitOf
  <1>6. ASSUME NEW p \in pPins PROVE Asked(p)' /\ Echoed(p)' /\ Counted(p)' /\ LastTold(p)' /\ ChangePending(p)'
    <2>1. Asked(p) /\ Echoed(p) /\ Counted(p) /\ LastTold(p) /\ ChangePending(p) /\ pCn'[p] = pCn[p]
      BY <1>4, <1>6 DEF ReadInv
    <2>2. ~IsNote(Head(pIn), NotifyMsg, p) /\ Head(pIn) # NoteOn(p)
      BY <1>1 DEF m, IsNote, NotifyMsg, NoteOn, Msg
    <2>3. Asked(p)'
      BY <1>1, <1>2, <2>1, <2>2, AskedTaken
    <2>4. Echoed(p)'
      BY <1>1, <2>1, EchoedStays
    <2>5. Counted(p)'
      <3>1. Occurs(pIn, NoteOn(p)) = Occurs(pIn', NoteOn(p)) + 0
        BY <1>1, <1>2, <2>2, OccursTaken
      <3>2. pIn' \in Seq(PinMsgs)
        BY <1>1, <1>2
      <3>3. Occurs(pIn', NoteOn(p)) \in Nat
        BY <3>2, OccursNat
      <3>4. QED
        BY <1>1, <2>1, <3>1, <3>3 DEF Counted, EchoOn, NoteOn, Msg
    <2>6. Live(p)' => Live(p)
      BY <1>1, <1>2, <2>2, LiveTaken
    <2>7. LastTold(p)'
      BY <1>1, <2>1, <2>6, ToldStays
    <2>8. ChangePending(p)'
      BY <1>1, <2>1 DEF ChangePending, PortOf
    <2>9. QED
      BY <2>3, <2>4, <2>5, <2>7, <2>8
  <1>7. QED
    BY <1>1, <1>5, <1>6 DEF ReadInv

\* A SET_CHANGE_NOTIFY arrives, and is echoed.
LEMMA NotifyKeepsRead ==
    ASSUME PinInv, ReadInv, pIn # <<>>, NEW q \in pPins, NEW a \in {0, 1}, Head(pIn) = Msg(NotifyMsg, q, a), pIn' = Tail(pIn),
           pOut' = Append(pOut, Msg("echo", q, a)), UNCHANGED <<pHw, pPins, pLevel, pHost, pStray>>,
           \A p \in pPins : p # q => pCn'[p] = pCn[p], Bit(pCn'[q].enabled) = a, a = 1 => pCn'[q].forced /\ pInt'.CNIF,
           pInt' \in [CNIE : BOOLEAN, CNIF : BOOLEAN, ports : SUBSET (1 .. 6)], pInt'.ports = pInt.ports, pInt.CNIF => pInt'.CNIF
    PROVE  ReadInv'
  <1> DEFINE e == Msg("echo", q, a)
  <1>1. pIn \in Seq(PinMsgs) /\ pOut \in Seq(OutMsgs) /\ pIn' \in Seq(PinMsgs)
    <2>1. pIn \in Seq(PinMsgs) /\ pOut \in Seq(OutMsgs)
      BY DEF PinInv, PinTypeOK, ReadInv, ReadTypeOK
    <2>2. QED
      BY <2>1
  <1>2. e \in OutMsgs /\ e.pin = q /\ e.arg = a
    BY DEF Msg, OutMsgs
  <1>3. pOut' \in Seq(OutMsgs) /\ pOut' = pOut \o <<e>> /\ <<e>> \in Seq(OutMsgs) /\ Len(<<e>>) = 1 /\ <<e>>[1] = e
    <2> HIDE DEF e
    <2>1. pOut' = Append(pOut, e)
      BY DEF e
    <2>2. QED
      BY <1>1, <1>2, <2>1
  <1>4. \A j \in 1 .. 1 : j = 1
    OBVIOUS
  <1>5. ReadTypeOK' /\ WatchInv' /\ ~pStray'
    BY <1>3 DEF ReadInv, ReadTypeOK, WatchInv, OutMsgs, PinHosts, PortOf, BitOf
  <1>6. /\ IsNote(Head(pIn), NotifyMsg, q) /\ Head(pIn).arg = a /\ Head(pIn).pin = q /\ (a = 1 => Head(pIn) = NoteOn(q) /\ e = EchoOn(q))
        /\ (a = 0 => Head(pIn) # NoteOn(q) /\ e # EchoOn(q))
        /\ \A p \in pPins : p # q => ~IsNote(Head(pIn), NotifyMsg, p) /\ Head(pIn) # NoteOn(p) /\ e # EchoOn(p) /\ ~IsNote(e, "echo", p)
    BY DEF Msg, IsNote, NoteOn, EchoOn
  <1>7. Asked(q)'
    <2>1. Asked(q)
      BY DEF ReadInv
    <2>2. QED
      BY <1>1, <1>6, <2>1, AskedTaken
  <1>8. Echoed(q)'
    <2>1. Echoed(q) /\ Asked(q)
      BY DEF ReadInv
    <2>2. ASSUME a = 1 PROVE ~pCn[q].enabled
      <3>1. Ordered(Head(pIn), q)
        BY <1>6, <2>2 DEF Ordered
      <3>2. QED
        BY <1>1, <2>1, <3>1, OrderedOff
    <2>3. QED
      BY <1>1, <2>1, <2>2, EchoedMore
  <1> HIDE DEF e
  <1> DEFINE t == <<e>>
  <1>9. pOut' = pOut \o t /\ t \in Seq(OutMsgs) /\ Len(t) = 1 /\ t[1] = e
    BY <1>3
  <1> HIDE DEF t
  <1>10. \A x : /\ t[1] # x => Occurs(pOut', x) = Occurs(pOut, x)
                /\ t[1] = x => Occurs(pOut', x) = Occurs(pOut, x) + 1
    <2> TAKE x
    <2>1. pOut \in Seq(OutMsgs) /\ t \in Seq(OutMsgs) /\ 1 \in 1 .. Len(t) /\ \A j \in 1 .. Len(t) : j = 1
      BY <1>1, <1>4, <1>9
    <2>2. t[1] # x => Occurs(pOut \o t, x) = Occurs(pOut, x)
      BY <2>1, OccursAppended
    <2>3. t[1] = x => Occurs(pOut \o t, x) = Occurs(pOut, x) + 1
      BY <2>1, OccursAppended
    <2>4. QED
      BY <1>9, <2>2, <2>3
  <1>11. Counted(q)'
    <2>1. Counted(q)
      BY DEF ReadInv
    <2>2. Occurs(pIn, NoteOn(q)) = Occurs(pIn', NoteOn(q)) + a
      BY <1>1, <1>6, OccursTaken
    <2>3. Occurs(pOut', EchoOn(q)) = Occurs(pOut, EchoOn(q)) + a
      <3>1. Occurs(pOut, EchoOn(q)) \in Nat
        BY <1>1, OccursNat
      <3>2. QED
        BY <1>6, <1>9, <1>10, <3>1
    <2>4. Occurs(pIn', NoteOn(q)) \in Nat /\ Occurs(pOut, EchoOn(q)) \in Nat /\ Bit(pHost[q].open) \in Nat
      BY <1>1, OccursNat DEF Bit
    <2>5. QED
      BY <2>1, <2>2, <2>3, <2>4 DEF Counted, EchoOn, NoteOn, Msg
  <1>12. LastTold(q)'
    <2>1. CASE a = 1
      BY <2>1 DEF LastTold
    <2>2. CASE a = 0
      <3>1. Live(q)' => pCn'[q].enabled
        <4> SUFFICES ASSUME Live(q)' PROVE pCn'[q].enabled
          OBVIOUS
        <4>1. (Len(pIn') + 1) - 1 = Len(pIn')
          BY <1>1
        <4>2. LastBefore(pIn', NotifyMsg, q, Bit(pCn'[q].enabled), Len(pIn') + 1, 1) /\ \A i \in 1 .. Len(pIn') : ~IsNote(pIn'[i], NotifyMsg, q)
          BY <1>7 DEF Asked, NoteBefore, Live, Bit, IsNote, NotifyMsg
        <4>3. Bit(pCn'[q].enabled) = 1
          BY <4>1, <4>2 DEF LastBefore
        <4>4. QED
          BY <4>3 DEF Bit
      <3>2. ~pCn'[q].enabled
        BY <2>2 DEF Bit
      <3>3. QED
        BY <3>1, <3>2 DEF LastTold
    <2>3. QED
      BY <2>1, <2>2
  <1>13. ChangePending(q)'
    <2>1. CASE a = 1
      BY <2>1 DEF ChangePending
    <2>2. CASE a = 0
      <3>1. ~pCn'[q].enabled
        BY <2>2 DEF Bit
      <3>2. QED
        BY <3>1 DEF ChangePending
    <2>3. QED
      BY <2>1, <2>2
  <1>14. ASSUME NEW p \in pPins, p # q PROVE Asked(p)' /\ Echoed(p)' /\ Counted(p)' /\ LastTold(p)' /\ ChangePending(p)'
    <2>1. Asked(p) /\ Echoed(p) /\ Counted(p) /\ LastTold(p) /\ ChangePending(p) /\ pCn'[p] = pCn[p]
      BY <1>14 DEF ReadInv
    <2>2. ~IsNote(Head(pIn), NotifyMsg, p) /\ Head(pIn) # NoteOn(p)
      BY <1>6, <1>14
    <2>3. \A j \in 1 .. Len(t) : t[j] # EchoOn(p) /\ ~IsNote(t[j], "echo", p) /\ t[j].pin # p
      BY <1>2, <1>9, <1>4, <1>6, <1>14
    <2>4. Asked(p)'
      BY <1>1, <2>1, <2>2, AskedTaken
    <2>5. Echoed(p)'
      BY <1>1, <1>9, <2>1, <2>3, EchoedOther
    <2>6. Counted(p)'
      <3>1. Occurs(pIn, NoteOn(p)) = Occurs(pIn', NoteOn(p)) + 0
        BY <1>1, <2>2, OccursTaken
      <3>2. Occurs(pOut', EchoOn(p)) = Occurs(pOut, EchoOn(p))
        BY <1>6, <1>14, <1>9, <1>10
      <3>3. Occurs(pIn', NoteOn(p)) \in Nat
        BY <1>1, OccursNat
      <3>4. QED
        BY <2>1, <3>1, <3>2, <3>3 DEF Counted, EchoOn, NoteOn, Msg
    <2>7. LastTold(p)'
      <3> SUFFICES ASSUME Live(p)', ~pCn'[p].forced PROVE Told(pOut', p, pCn'[p].backup, pHost[p].value)
        BY DEF LastTold, Told, Msg
      <3>1. Live(p)
        BY <1>1, <2>2, LiveTaken
      <3>2. Told(pOut, p, pCn[p].backup, pHost[p].value)
        BY <2>1, <3>1 DEF LastTold
      <3>3. Told(pOut \o t, p, pCn[p].backup, pHost[p].value)
        BY <1>1, <1>9, <2>3, <3>2, ToldOther
      <3>4. QED
        BY <1>9, <2>1, <3>3
    <2>8. ChangePending(p)'
      BY <2>1 DEF ChangePending, PortOf
    <2>9. QED
      BY <2>4, <2>5, <2>6, <2>7, <2>8
  <1>15. QED
    BY <1>5, <1>7, <1>8, <1>11, <1>12, <1>13, <1>14 DEF ReadInv

LEMMA NotifyOnKeepsRead == ASSUME PinInv, ReadInv, NotifyOn PROVE ReadInv'
  <1> DEFINE m == Head(pIn)
             q == m.pin
             on == TRUE
  <1>1. /\ pIn # <<>> /\ pIn' = Tail(pIn) /\ m.type = NotifyMsg /\ m.arg = 1 /\ pOut' = Append(pOut, Msg("echo", q, 1))
        /\ UNCHANGED <<pHw, pPins, pLevel, pHost, pStray>>
        /\ pCn' = [pCn EXCEPT ![q].enabled = on, ![q].forced = on] /\ pInt' = [pInt EXCEPT !.CNIF = on]
    <2>1. m.arg = 1
      BY DEF NotifyOn
    <2>2. QED
      BY <2>1 DEF NotifyOn, SendsEcho, NotifyMsg
  <1>2. /\ m \in PinMsgs /\ pCn \in [pPins -> [enabled : BOOLEAN, forced : BOOLEAN, backup : Int]]
        /\ pInt \in [CNIE : BOOLEAN, CNIF : BOOLEAN, ports : SUBSET (1 .. 6)] /\ on \in BOOLEAN /\ on
    <2>1. pIn \in Seq(PinMsgs)
      BY DEF PinInv, PinTypeOK
    <2>2. m \in PinMsgs
      BY <1>1, <2>1
    <2>3. QED
      BY <2>2 DEF PinInv, PinTypeOK, ReadInv, ReadTypeOK
  <1> HIDE DEF m, on
  <1>3. q \in pPins /\ m = Msg(NotifyMsg, q, 1)
    BY <1>1, <1>2 DEF PinMsgs, Msg
  <1> HIDE DEF q
  <1>4. /\ (\A p \in pPins : p # q => pCn'[p] = pCn[p]) /\ pCn'[q].enabled = on /\ pCn'[q].forced = on
    BY <1>1, <1>2, <1>3
  <1>5. /\ pInt' \in [CNIE : BOOLEAN, CNIF : BOOLEAN, ports : SUBSET (1 .. 6)] /\ pInt'.ports = pInt.ports /\ pInt'.CNIF = on
    BY <1>1, <1>2
  <1>6. Bit(pCn'[q].enabled) = 1 /\ pCn'[q].forced /\ pInt'.CNIF
    BY <1>2, <1>4, <1>5 DEF Bit
  <1>7. Head(pIn) = Msg(NotifyMsg, q, 1) /\ 1 \in {0, 1}
    BY <1>3 DEF m
  <1>8. QED
    BY <1>1, <1>3, <1>4, <1>5, <1>6, <1>7, NotifyKeepsRead

LEMMA NotifyOffKeepsRead == ASSUME PinInv, ReadInv, NotifyOff PROVE ReadInv'
  <1> DEFINE m == Head(pIn)
             q == m.pin
             off == FALSE
  <1>1. /\ pIn # <<>> /\ pIn' = Tail(pIn) /\ m.type = NotifyMsg /\ m.arg = 0 /\ pOut' = Append(pOut, Msg("echo", q, 0))
        /\ UNCHANGED <<pHw, pPins, pLevel, pInt, pHost, pStray>> /\ pCn' = [pCn EXCEPT ![q].enabled = off]
    <2>1. m.arg = 0
      BY DEF NotifyOff
    <2>2. QED
      BY <2>1 DEF NotifyOff, SendsEcho, NotifyMsg
  <1>2. /\ m \in PinMsgs /\ pCn \in [pPins -> [enabled : BOOLEAN, forced : BOOLEAN, backup : Int]]
        /\ pInt \in [CNIE : BOOLEAN, CNIF : BOOLEAN, ports : SUBSET (1 .. 6)] /\ off \in BOOLEAN /\ ~off
    <2>1. pIn \in Seq(PinMsgs)
      BY DEF PinInv, PinTypeOK
    <2>2. m \in PinMsgs
      BY <1>1, <2>1
    <2>3. QED
      BY <2>2 DEF PinInv, PinTypeOK, ReadInv, ReadTypeOK
  <1> HIDE DEF m, off
  <1>3. q \in pPins /\ m = Msg(NotifyMsg, q, 0)
    BY <1>1, <1>2 DEF PinMsgs, Msg
  <1> HIDE DEF q
  <1>4. (\A p \in pPins : p # q => pCn'[p] = pCn[p]) /\ pCn'[q].enabled = off
    BY <1>1, <1>2, <1>3
  <1>5. Bit(pCn'[q].enabled) = 0
    BY <1>2, <1>4 DEF Bit
  <1>6. Head(pIn) = Msg(NotifyMsg, q, 0) /\ 0 \in {0, 1} /\ 0 # 1
    BY <1>3 DEF m
  <1>7. QED
    BY <1>1, <1>2, <1>3, <1>4, <1>5, <1>6, NotifyKeepsRead

\* The host takes the first message.  An echo of an opening finds its listener waiting, and a report that is the last
\* about a live pin finds that pin's listener open and alone.
LEMMA ReceivesKeepRead == ASSUME PinInv, ReadInv, PinsHostReceives PROVE ReadInv'
  <1>0. PICK q \in pPins : q = Head(pOut).pin
    <2>1. pOut \in Seq(OutMsgs) /\ pOut # <<>>
      BY DEF ReadInv, ReadTypeOK, PinsHostReceives
    <2>2. Head(pOut) \in OutMsgs
      BY <2>1
    <2>3. QED
      BY <2>2 DEF OutMsgs
  <1> DEFINE m == Head(pOut)
             h == pHost[q]
             on == h.listeners > 0
             off == FALSE
             fewer == IF h.open THEN h.listeners - 1 ELSE h.listeners
             opened == [h EXCEPT !.open = on]
             closed == [h EXCEPT !.open = off, !.listeners = fewer]
             valued == [h EXCEPT !.value = m.arg]
             g == IF m.type = "echo" THEN IF m.arg = 1 THEN opened ELSE closed
                  ELSE IF h.open /\ h.listeners = 1 /\ h.mode = "in" THEN valued ELSE h
  <1>1. pOut # <<>> /\ pOut' = Tail(pOut) /\ UNCHANGED <<pHw, pPins, pLevel, pCn, pInt, pIn, pStray>>
    BY DEF PinsHostReceives
  <1>2. pOut \in Seq(OutMsgs) /\ pIn \in Seq(PinMsgs) /\ pHost \in [pPins -> PinHosts] /\ m \in OutMsgs
    <2>1. pOut \in Seq(OutMsgs) /\ pIn \in Seq(PinMsgs) /\ pHost \in [pPins -> PinHosts]
      BY DEF PinInv, PinTypeOK, ReadInv, ReadTypeOK
    <2>2. QED
      BY <1>1, <2>1
  <1>3. q = m.pin /\ m.arg \in Int /\ m.type \in {"echo", "report"} /\ (m.type = "echo" => m.arg \in {0, 1})
    BY <1>0, <1>2 DEF OutMsgs
  <1>4. pHost' = [pHost EXCEPT ![q] = g]
    BY <1>0 DEF PinsHostReceives
  <1>5. h \in PinHosts /\ off \in BOOLEAN /\ on \in BOOLEAN /\ fewer \in Int /\ ~off
    <2>1. h \in PinHosts
      BY <1>2, <1>3
    <2>2. h.listeners \in Int
      BY <2>1 DEF PinHosts
    <2>3. QED
      BY <2>1, <2>2
  <1>6. Asked(q) /\ Echoed(q) /\ Counted(q) /\ LastTold(q)
    BY <1>3 DEF ReadInv
  <1> HIDE DEF m, h, on, off, fewer
  <1>7. /\ opened \in PinHosts /\ opened.mode = h.mode /\ opened.open = on /\ opened.listeners = h.listeners /\ opened.value = h.value
        /\ closed \in PinHosts /\ closed.mode = h.mode /\ closed.open = off /\ closed.listeners = fewer /\ closed.value = h.value
        /\ valued \in PinHosts /\ valued.mode = h.mode /\ valued.open = h.open /\ valued.listeners = h.listeners /\ valued.value = m.arg
    BY <1>3, <1>5 DEF PinHosts
  <1> HIDE DEF opened, closed, valued
  <1>8. g \in PinHosts /\ g.mode = h.mode
    BY <1>5, <1>7
  <1>9. /\ m.type = "echo" /\ m.arg = 1 => g.open = on /\ g.listeners = h.listeners /\ g.value = h.value
        /\ m.type = "echo" /\ m.arg = 0 => g.open = off /\ g.listeners = fewer /\ g.value = h.value
        /\ m.type = "report" => g.open = h.open /\ g.listeners = h.listeners /\ (g.value = h.value \/ g.value = m.arg)
        /\ m.type = "report" /\ h.open /\ h.listeners = 1 /\ h.mode = "in" => g.value = m.arg
    BY <1>7
  <1> HIDE DEF g
  <1>10. pHost' \in [pPins -> PinHosts] /\ pHost'[q] = g /\ \A p \in pPins : p # q => pHost'[p] = pHost[p]
    BY <1>2, <1>3, <1>4, <1>8
  <1>11. pOut' \in Seq(OutMsgs)
    BY <1>1, <1>2
  <1>12. ReadTypeOK' /\ WatchInv' /\ ~pStray'
    BY <1>1, <1>10, <1>11 DEF ReadInv, ReadTypeOK, WatchInv, OutMsgs, PinHosts, PortOf, BitOf
  <1>13. Len(pOut) \in Nat \ {0} /\ 1 \in 1 .. Len(pOut) /\ m = pOut[1] /\ 1 .. 1 - 1 = {}
    BY <1>1, <1>2 DEF m
  <1>14. m = EchoOn(q) <=> m.type = "echo" /\ m.arg = 1
    BY <1>2, <1>3 DEF EchoOn, Msg, OutMsgs
  <1>15. /\ Occurs(pIn, NoteOn(q)) \in Nat /\ Occurs(pOut, EchoOn(q)) \in Nat /\ Occurs(pOut', EchoOn(q)) \in Nat
         /\ Bit(h.open) \in {0, 1} /\ h.listeners \in Int
         /\ h.listeners = Bit(h.open) + Occurs(pOut, EchoOn(q)) + Occurs(pIn, NoteOn(q))
         /\ Occurs(pOut, EchoOn(q)) = Occurs(pOut', EchoOn(q)) + IF m = EchoOn(q) THEN 1 ELSE 0
    <2>1. Occurs(pIn, NoteOn(q)) \in Nat /\ Occurs(pOut, EchoOn(q)) \in Nat /\ Occurs(pOut', EchoOn(q)) \in Nat
      BY <1>2, <1>11, OccursNat
    <2>2. Occurs(pOut, EchoOn(q)) = Occurs(Tail(pOut), EchoOn(q)) + IF Head(pOut) = EchoOn(q) THEN 1 ELSE 0
      BY <1>1, <1>2, OccursTaken
    <2>3. h.listeners \in Int
      BY <1>5 DEF PinHosts
    <2>4. QED
      BY <1>1, <1>6, <2>1, <2>2, <2>3 DEF Counted, Bit, h, m
  <1>16. m = EchoOn(q) => on /\ ~h.open
    <2> SUFFICES ASSUME m = EchoOn(q) PROVE on /\ ~h.open
      OBVIOUS
    <2>1. on
      BY <1>15 DEF on
    <2>2. LastBefore(pOut, "echo", q, Bit(h.open), 1, 0)
      BY <1>6, <1>13 DEF Echoed, EchoBefore, h
    <2>3. Bit(h.open) = 0
      BY <1>13, <2>2 DEF LastBefore
    <2>4. QED
      BY <2>1, <2>3 DEF Bit
  <1>17. Asked(q)'
    <2>1. pHost'[q].mode = pHost[q].mode
      BY <1>8, <1>10 DEF h
    <2>2. QED
      BY <1>1, <1>3, <1>6, <2>1, AskedStays
  <1>18. Echoed(q)'
    <2>1. Bit(g.open) = IF IsNote(m, "echo", q) THEN m.arg ELSE Bit(h.open)
      <3>1. CASE m.type = "report"
        BY <1>9, <3>1 DEF IsNote
      <3>2. CASE m.type = "echo" /\ m.arg = 1
        BY <1>3, <1>9, <1>14, <1>16, <3>2 DEF IsNote, Bit
      <3>3. CASE m.type = "echo" /\ m.arg = 0
        BY <1>3, <1>5, <1>9, <3>3 DEF IsNote, Bit
      <3>4. QED
        BY <1>3, <3>1, <3>2, <3>3
    <2>2. Bit(pHost'[q].open) = IF IsNote(Head(pOut), "echo", q) THEN Head(pOut).arg ELSE Bit(pHost[q].open)
      BY <1>10, <2>1 DEF m, h
    <2>3. QED
      BY <1>1, <1>2, <1>3, <1>6, <2>2, EchoedTaken
  <1>19. Counted(q)'
    <2>1. g.listeners = Bit(g.open) + Occurs(pOut', EchoOn(q)) + Occurs(pIn, NoteOn(q))
      <3>1. CASE m.type = "report"
        BY <1>9, <1>14, <1>15, <3>1
      <3>2. CASE m.type = "echo" /\ m.arg = 1
        <4>1. Bit(g.open) = 1 /\ Bit(h.open) = 0 /\ g.listeners = h.listeners /\ m = EchoOn(q)
          BY <1>9, <1>14, <1>16, <3>2 DEF Bit
        <4>2. QED
          BY <1>15, <4>1
      <3>3. CASE m.type = "echo" /\ m.arg = 0
        <4>1. Bit(g.open) = 0 /\ m # EchoOn(q) /\ g.listeners = fewer
          BY <1>5, <1>9, <1>14, <3>3 DEF Bit
        <4>2. QED
          BY <1>15, <4>1 DEF Bit, fewer
      <3>4. QED
        BY <1>3, <3>1, <3>2, <3>3
    <2>2. QED
      BY <1>1, <1>10, <2>1 DEF Counted, EchoOn, NoteOn, Msg
  <1>20. LastTold(q)'
    <2> DEFINE v == pCn[q].backup
    <2> SUFFICES ASSUME Live(q), ~pCn[q].forced PROVE Told(pOut', q, v, g.value)
      BY <1>1, <1>3, <1>8, <1>10 DEF LastTold, Live, Told, Msg, h
    <2>1. Told(pOut, q, v, h.value)
      BY <1>6 DEF LastTold, h
    <2> HIDE DEF v
    <2>2. CASE m = Msg("report", q, v) /\ \A j \in 2 .. Len(pOut) : pOut[j].pin # q
      <3>1. m.type = "report" /\ m.arg = v
        BY <2>2 DEF Msg
      <3>2. \A j \in 1 .. Len(pOut) : ~IsNote(pOut[j], "echo", q) /\ pOut[j] # EchoOn(q)
        <4> TAKE j \in 1 .. Len(pOut)
        <4>1. CASE j = 1
          BY <1>13, <3>1, <4>1 DEF IsNote, EchoOn, Msg
        <4>2. CASE j # 1
          <5>1. j \in 2 .. Len(pOut)
            BY <1>13, <4>2
          <5>2. QED
            BY <2>2, <5>1 DEF IsNote, EchoOn, Msg
        <4>3. QED
          BY <4>1, <4>2
      <3>3. Occurs(pOut, EchoOn(q)) = 0
        BY <1>2, <3>2, OccursNever
      <3>4. Occurs(pIn, NoteOn(q)) = 0
        <4>1. \A j \in 1 .. Len(pIn) : pIn[j] # NoteOn(q)
          BY DEF Live, IsNote, NoteOn, Msg
        <4>2. QED
          BY <1>2, <4>1, OccursNever
      <3>5. h.open
        <4>1. pCn[q].enabled
          BY <1>2, <1>3, <1>6, LiveWatched
        <4>2. LastBefore(pOut, "echo", q, Bit(h.open), Len(pOut) + 1, 1) /\ (Len(pOut) + 1) - 1 = Len(pOut)
          BY <1>6, <1>13, <4>1 DEF Echoed, EchoBefore, Bit, h
        <4>3. Bit(h.open) = 1
          BY <3>2, <4>2 DEF LastBefore
        <4>4. QED
          BY <4>3 DEF Bit
      <3>6. g.value = v
        BY <1>9, <1>15, <3>1, <3>3, <3>4, <3>5 DEF Bit, Live, h
      <3>7. \A j \in 1 .. Len(pOut') : pOut'[j].pin # q
        <4> TAKE j \in 1 .. Len(pOut')
        <4>1. j + 1 \in 2 .. Len(pOut) /\ pOut'[j] = pOut[j + 1]
          BY <1>1, <1>2, <1>13
        <4>2. QED
          BY <2>2, <4>1
      <3>8. QED
        BY <3>6, <3>7 DEF Told
    <2>3. CASE ~(m = Msg("report", q, v) /\ \A j \in 2 .. Len(pOut) : pOut[j].pin # q)
      <3>1. Head(pOut) # Msg("report", q, v) \/ \E j \in 2 .. Len(pOut) : pOut[j].pin = q
        BY <2>3 DEF m
      <3>2. PICK k \in 1 .. Len(pOut) : pOut[k] = Msg("report", q, v) /\ \A j \in k + 1 .. Len(pOut) : pOut[j].pin # q
        BY <1>3, <1>13, <2>1 DEF Told, m
      <3>3. Told(pOut, q, v, g.value)
        BY <3>2 DEF Told
      <3>4. QED
        BY <1>1, <1>2, <3>1, <3>3, ToldTaken
    <2>4. QED
      BY <2>2, <2>3
  <1>21. ChangePending(q)'
    BY <1>1, <1>3 DEF ReadInv, ChangePending, PortOf
  <1>22. ASSUME NEW p \in pPins, p # q PROVE Asked(p)' /\ Echoed(p)' /\ Counted(p)' /\ LastTold(p)' /\ ChangePending(p)'
    <2>1. Asked(p) /\ Echoed(p) /\ Counted(p) /\ LastTold(p) /\ ChangePending(p) /\ pHost'[p] = pHost[p]
      BY <1>10, <1>22 DEF ReadInv
    <2>2. Head(pOut).pin # p /\ ~IsNote(Head(pOut), "echo", p) /\ Head(pOut) # EchoOn(p)
      BY <1>3, <1>22 DEF IsNote, EchoOn, Msg, m
    <2>3. Asked(p)'
      BY <1>1, <2>1, AskedStays
    <2>4. Echoed(p)'
      BY <1>1, <1>2, <2>1, <2>2, EchoedTaken
    <2>5. Counted(p)'
      <3>1. Occurs(pOut, EchoOn(p)) = Occurs(pOut', EchoOn(p)) + 0
        BY <1>1, <1>2, <2>2, OccursTaken
      <3>2. Occurs(pOut', EchoOn(p)) \in Nat
        BY <1>11, OccursNat
      <3>3. QED
        BY <1>1, <2>1, <3>1, <3>2 DEF Counted, EchoOn, NoteOn, Msg
    <2>6. LastTold(p)'
      <3> SUFFICES ASSUME Live(p), ~pCn[p].forced PROVE Told(pOut', p, pCn[p].backup, pHost[p].value)
        BY <1>1, <2>1 DEF LastTold, Live, Told, Msg
      <3>1. Told(pOut, p, pCn[p].backup, pHost[p].value)
        BY <2>1 DEF LastTold
      <3>2. Head(pOut) # Msg("report", p, pCn[p].backup)
        BY <2>2 DEF Msg
      <3>3. QED
        BY <1>1, <1>2, <3>1, <3>2, ToldTaken
    <2>7. ChangePending(p)'
      BY <1>1, <2>1 DEF ChangePending, PortOf
    <2>8. QED
      BY <2>3, <2>4, <2>5, <2>6, <2>7
  <1>23. QED
    BY <1>1, <1>12, <1>17, <1>18, <1>19, <1>20, <1>21, <1>22 DEF ReadInv

LEMMA SettledReads == PinInv /\ ReadInv => ClientReadsLevel
  <1> SUFFICES ASSUME PinInv, ReadInv, Settled, NEW p \in pPins, pHost[p].mode = "in" PROVE pHost[p].value = pLevel[p]
    BY DEF ClientReadsLevel, ReadInv
  <1>1. pIn = <<>> /\ pOut = <<>> /\ ~pInt.CNIF /\ pInt.ports = {}
    BY DEF Settled, Idle
  <1>2. Live(p) /\ pIn \in Seq(PinMsgs) /\ Asked(p) /\ ChangePending(p) /\ LastTold(p)
    BY <1>1 DEF Live, PinInv, PinTypeOK, ReadInv
  <1>3. pCn[p].enabled
    BY <1>2, LiveWatched
  <1>4. ~pCn[p].forced /\ pLevel[p] = pCn[p].backup
    BY <1>1, <1>2, <1>3 DEF ChangePending
  <1>5. Told(pOut, p, pLevel[p], pHost[p].value)
    BY <1>2, <1>4 DEF LastTold
  <1>6. QED
    BY <1>1, <1>5 DEF Told

\* A client that has a digital input open reads the level of its pin whenever all is quiet, however often and however
\* quickly it closed and reopened the pin, and no report of the change-notification handler (digital.c) names a pin that
\* is not watched: for any number of opens, any levels and any two neighbouring pins of every layout.
THEOREM PinsClientReadsLevel == PinsSpec => []ClientReadsLevel
  <1>1. PinsInit => PinInv /\ ReadInv
    BY InitPins, InitRead
  <1>2. PinInv /\ ReadInv /\ [PinsNext]_pVars => PinInv' /\ ReadInv'
    <2> SUFFICES ASSUME PinInv, ReadInv, [PinsNext]_pVars PROVE ReadInv'
      BY NextPins
    <2>1. CASE \E q \in pPins : \/ \E mode \in PinsUses : PinsHostOpens(q, mode)
                                \/ PinsHostCloses(q) \/ LevelChanges(q)
      BY <2>1, OpensKeepRead, ClosesKeepRead, LevelKeepsRead
    <2>2. CASE PinsHostReceives
      BY <2>2, ReceivesKeepRead
    <2>3. CASE BoardSetsMode \/ NotifyOn \/ NotifyOff
      BY <2>3, ModeKeepsRead, NotifyOnKeepsRead, NotifyOffKeepsRead
    <2>4. CASE CNInterrupt \/ CheckPortChange
      BY <2>4, InterruptKeepsRead, LookKeepsRead
    <2>5. CASE UNCHANGED pVars
      <3>1. UNCHANGED <<pHw, pPins, pLevel, pCn, pInt, pIn, pOut, pHost, pStray>>
        BY <2>5 DEF pVars
      <3>2. ReadTypeOK' /\ \A p \in pPins : ChangePending(p)'
        BY <3>1 DEF ReadInv, ReadTypeOK, OutMsgs, PinHosts, ChangePending, PortOf
      <3>3. QED
        BY <3>1, <3>2, QuietRead
    <2>6. QED
      BY <2>1, <2>2, <2>3, <2>4, <2>5 DEF PinsNext
  <1>3. QED
    BY <1>1, <1>2, SettledReads, PTL DEF PinsSpec
================================================================================
