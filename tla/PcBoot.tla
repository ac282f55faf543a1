------------------------------- MODULE PcBoot -------------------------------
(***************************************************************************)
(* The bootloader that takes its image from a PC over USB CDC              *)
(* (device_bootloader): calibration of the oscillator, the boot protocol   *)
(* and ioiodude on the other side.  The configuration page holds both the  *)
(* fingerprint and the calibration, so erasing one costs the other.        *)
(***************************************************************************)
EXTENDS IoioFile

CONSTANTS PcVersions,    \* images the PC has
          MaxUsb,        \* longest piece of the stream getsUSBUSART returns
          MaxPcFaults    \* bound: lost connections, failed Flash operations and power failures

ASSUME PcBootAssumption == PcVersions \subseteq DOMAIN Images /\ MaxUsb \in Nat /\ MaxPcFaults \in Nat

VARIABLES dm,      \* the board: where main is, the message being received, the step of a command
          rxd,     \* what BootProtocolProcess has still to look at
          ioTx,    \* messages of the board to the PC
          wire,    \* the stream of the PC to the board
          dude,    \* ioiodude: its step and the version it installs
          count    \* faults, calibrations, configurations erased

dVars == <<fVars, dm, rxd, ioTx, wire, dude, count>>

Tuned == 1
DeviceBoot == [at |-> "start", rx |-> "WAIT_TYPE", remaining |-> 1, msg |-> <<>>, cmd |-> "none", k |-> 0, tun |-> Erased, sum |-> 0]
NoDude == [at |-> "off", v |-> 1, sum |-> 0]

PcBootInit ==
  /\ dm = DeviceBoot /\ rxd = <<>> /\ ioTx = <<>> /\ wire = <<>> /\ dude = NoDude
  /\ count = [faults |-> 0, tunings |-> 0, erasures |-> 0]
  /\ img = Idle /\ buf = <<>> /\ FlashInit(1)

-----------------------------------------------------------------------------
(* main, OscCalibrateCached.                                               *)

\* WriteOscTun.
TunWritten(f) == [f EXCEPT !.tun = IF @ \in {Erased, Tuned} THEN Tuned ELSE Garbage]

\* The boot pin and pin 1 decide what to do.  Both ways lead through OscCalibrateCached.
EraseConfig(f) == [f EXCEPT !.fp = [i \in 1 .. FpWords |-> Erased], !.tun = Erased]

MainStart(boot, pin1) ==
  /\ dm.at = "start" /\ (pin1 => boot /\ count.erasures = 0)
  /\ flash' = IF pin1 THEN EraseConfig(flash) ELSE flash
  /\ count' = IF pin1 THEN [count EXCEPT !.erasures = @ + 1] ELSE count
  /\ dm' = [dm EXCEPT !.at = IF boot THEN "tune_boot" ELSE "tune_app"]
  /\ UNCHANGED <<img, buf, rxd, ioTx, wire, dude>>

OscCalibrateCached ==
  /\ dm.at \in {"tune_boot", "tune_app"}
  /\ flash' = IF flash.tun = Erased THEN TunWritten(flash) ELSE flash
  /\ count' = IF flash.tun = Erased THEN [count EXCEPT !.tunings = @ + 1] ELSE count
  /\ dm' = [dm EXCEPT !.at = IF @ = "tune_app" THEN "app" ELSE "wait"]
  /\ UNCHANGED <<img, buf, rxd, ioTx, wire, dude>>

\* CDC is configured and the PC has opened the port: BootProtocolInit.
BootProtocolInit ==
  /\ dm.at = "wait" /\ dude.at = "connecting"
  /\ dm' = [dm EXCEPT !.at = "serve", !.rx = "WAIT_TYPE", !.remaining = 1, !.msg = <<>>]
  /\ ioTx' = <<Tok("ESTABLISH", 0)>>
  /\ UNCHANGED <<fVars, rxd, wire, dude, count>>

\* The inner loop of main ends, or the protocol fails and the board detaches.
Disconnected == [dm EXCEPT !.at = "wait", !.cmd = "none", !.k = 0]
ServeEnds ==
  /\ dm.at = "serve" /\ dm.cmd = "none" /\ dude.at = "off" /\ rxd = <<>> /\ HandleBufferDone /\ ~img.failed
  /\ dm' = Disconnected /\ ioTx' = <<>> /\ wire' = <<>>
  /\ UNCHANGED <<fVars, rxd, dude, count>>

ProtocolError ==
  dm' = Disconnected /\ rxd' = <<>> /\ wire' = <<>> /\ ioTx' = <<>> /\ dude' = NoDude

-----------------------------------------------------------------------------
(* BootProtocolProcess.                                                    *)

Serving == dm.at = "serve" /\ dm.cmd = "none" /\ HandleBufferDone /\ ~img.failed

Receive(n) ==
  /\ Serving /\ rxd = <<>> /\ n <= Len(wire)
  /\ rxd' = SubSeq(wire, 1, n) /\ wire' = SubSeq(wire, n + 1, Len(wire))
  /\ UNCHANGED <<fVars, dm, ioTx, dude, count>>

incoming_arg_size == [HARD_RESET |-> 1, CHECK_INTERFACE |-> 1, READ_FINGERPRINT |-> 0,
                      WRITE_FINGERPRINT |-> FpWords, WRITE_IMAGE |-> 1]

\* A piece of a message; when the message is complete, MessageDone is due.
RxMessage ==
  LET n == Min({dm.remaining, Len(rxd)})
      msg == dm.msg \o SubSeq(rxd, 1, n)
      args == IF dm.rx = "WAIT_TYPE" THEN incoming_arg_size[msg[1].t] ELSE 0
  IN
  /\ Serving /\ rxd # <<>> /\ dm.rx # "WAIT_FILE"
  /\ rxd' = SubSeq(rxd, n + 1, Len(rxd))
  /\ dm' = IF n < dm.remaining THEN [dm EXCEPT !.msg = msg, !.remaining = @ - n]
           ELSE IF args > 0 THEN [dm EXCEPT !.msg = msg, !.rx = "WAIT_ARGS", !.remaining = args]
           ELSE [dm EXCEPT !.msg = msg, !.rx = "WAIT_TYPE", !.remaining = 1, !.cmd = msg[1].t]
  /\ UNCHANGED <<fVars, ioTx, wire, dude, count>>

\* The 16-bit sum of the bytes of a piece, here of one number per unit.
Checksum(s) == MapThenSumSet(LAMBDA i : s[i].n + 1, DOMAIN s) % 65536

\* A piece of the image, for IOIOFileHandleBuffer and the checksum.
RxFile ==
  LET n == Min({dm.remaining, Len(rxd)}) IN
  /\ Serving /\ rxd # <<>> /\ dm.rx = "WAIT_FILE"
  /\ buf' = SubSeq(rxd, 1, n) /\ rxd' = SubSeq(rxd, n + 1, Len(rxd))
  /\ dm' = [dm EXCEPT !.remaining = @ - n, !.sum = (@ + Checksum(SubSeq(rxd, 1, n))) % 65536, !.cmd = IF n = dm.remaining THEN "FILE_END" ELSE @]
  /\ UNCHANGED <<flash, img, ioTx, wire, dude, count>>

RxImage == dm.at = "serve" /\ HandleBuffer(TRUE) /\ UNCHANGED <<dm, rxd, ioTx, wire, dude, count>>

RxImageFailed ==
  /\ dm.at = "serve" /\ HandleBufferDone /\ img.failed
  /\ img' = [img EXCEPT !.failed = FALSE] /\ ProtocolError
  /\ UNCHANGED <<flash, buf, count>>

\* The end of the file: IOIOFileDone, SendChecksum.
FileEnds ==
  /\ dm.at = "serve" /\ dm.cmd = "FILE_END" /\ HandleBufferDone /\ ~img.failed
  /\ IF IOIOFileDone
     THEN /\ ioTx' = Append(ioTx, Tok("CHECKSUM", dm.sum))
          /\ dm' = [dm EXCEPT !.rx = "WAIT_TYPE", !.remaining = 1, !.cmd = "none", !.msg = <<>>]
          /\ UNCHANGED <<rxd, wire, dude>>
     ELSE ProtocolError
  /\ UNCHANGED <<fVars, count>>

-----------------------------------------------------------------------------
(* MessageDone, one operation on the Flash per step.                       *)

Command(c) == dm.at = "serve" /\ dm.cmd = c /\ HandleBufferDone /\ ~img.failed
Done == dm' = [dm EXCEPT !.cmd = "none", !.k = 0, !.msg = <<>>]

HardReset ==
  /\ Command("HARD_RESET")
  /\ dm' = DeviceBoot /\ rxd' = <<>> /\ wire' = <<>> /\ ioTx' = <<>> /\ dude' = NoDude /\ img' = Idle /\ buf' = <<>>
  /\ UNCHANGED <<flash, count>>

CheckInterface ==
  /\ Command("CHECK_INTERFACE") /\ Done
  /\ ioTx' = Append(ioTx, Tok("INTERFACE", 1))
  /\ UNCHANGED <<fVars, rxd, wire, dude, count>>

ReadFingerprint ==
  /\ Command("READ_FINGERPRINT") /\ Done
  /\ ioTx' = ioTx \o [i \in 1 .. FpWords |-> Tok("FINGERPRINT", flash.fp[i])]
  /\ UNCHANGED <<fVars, rxd, wire, dude, count>>

IsFingerprintErased == \A i \in 1 .. FpWords : flash.fp[i] = Erased

\* Mutant: the page is erased and OSCTUN is not written back.
EraseFingerprintForgets ==
  /\ (Command("WRITE_FINGERPRINT") \/ Command("WRITE_IMAGE")) /\ dm.k \in {0, 1}
  /\ flash' = IF dm.k = 0 THEN EraseConfig(flash) ELSE flash
  /\ dm' = [dm EXCEPT !.k = 2]
  /\ UNCHANGED <<img, buf, rxd, ioTx, wire, dude, count>>

\* EraseFingerprint, called by both commands: step 0 erases the page, step 1 writes OSCTUN back.
EraseFingerprint ==
  /\ (Command("WRITE_FINGERPRINT") \/ Command("WRITE_IMAGE")) /\ dm.k \in {0, 1}
  /\ \/ /\ dm.k = 0 /\ IsFingerprintErased
        /\ dm' = [dm EXCEPT !.k = 2] /\ UNCHANGED flash
     \/ /\ dm.k = 0 /\ ~IsFingerprintErased
        /\ flash' = EraseConfig(flash) /\ dm' = [dm EXCEPT !.k = 1, !.tun = flash.tun]
     \/ /\ dm.k = 1
        /\ flash' = [flash EXCEPT !.tun = dm.tun] /\ dm' = [dm EXCEPT !.k = 2]
  /\ UNCHANGED <<img, buf, rxd, ioTx, wire, dude, count>>

StartImage ==
  /\ Command("WRITE_IMAGE") /\ dm.k = 2
  /\ IOIOFileInit
  /\ dm' = [dm EXCEPT !.rx = "WAIT_FILE", !.remaining = dm.msg[2].n, !.sum = 0, !.cmd = "none", !.k = 0, !.msg = <<>>]
  /\ UNCHANGED <<flash, buf, rxd, ioTx, wire, dude, count>>

WriteFingerprint ==
  /\ Command("WRITE_FINGERPRINT") /\ dm.k >= 2
  /\ LET i == dm.k - 1 IN
       /\ flash' = [flash EXCEPT !.fp[i] = Word(@, dm.msg[i + 1].n)]
       /\ IF i = FpWords THEN Done ELSE dm' = [dm EXCEPT !.k = @ + 1]
  /\ UNCHANGED <<img, buf, rxd, ioTx, wire, dude, count>>

FlashFails ==
  /\ Command("WRITE_FINGERPRINT") \/ Command("WRITE_IMAGE")
  /\ count.faults < MaxPcFaults /\ count' = [count EXCEPT !.faults = @ + 1]
  /\ ProtocolError /\ UNCHANGED fVars

-----------------------------------------------------------------------------
(* ioiodude write, perhaps forced, and reset.                              *)

Says(t) == ioTx # <<>> /\ Head(ioTx).t = t
DudeKeeps == UNCHANGED <<fVars, dm, rxd, count>>

DudeConnects(v) ==
  /\ dude.at = "off" /\ dm.at = "wait"
  /\ dude' = [at |-> "connecting", v |-> v, sum |-> 0]
  /\ DudeKeeps /\ UNCHANGED <<ioTx, wire>>

DudeStarts(force) ==
  /\ dude.at = "connecting" /\ Says("ESTABLISH")
  /\ ioTx' = Tail(ioTx)
  /\ dude' = [dude EXCEPT !.at = IF force THEN "write" ELSE "compare"]
  /\ wire' = wire \o <<Tok("CHECK_INTERFACE", 0), Tok("arg", 0)>> \o IF force THEN <<>> ELSE <<Tok("READ_FINGERPRINT", 0)>>
  /\ DudeKeeps

DudeCompares ==
  /\ dude.at = "compare" /\ Len(ioTx) >= 1 + FpWords
  /\ ioTx' = SubSeq(ioTx, 1, 1)
  /\ dude' = [dude EXCEPT !.at = IF \A i \in 1 .. FpWords : ioTx[i + 1].n = dude.v THEN "reset" ELSE "write"]
  /\ DudeKeeps /\ UNCHANGED wire

writeImage ==
  /\ dude.at = "write" /\ Says("INTERFACE")
  /\ ioTx' = Tail(ioTx)
  /\ wire' = wire \o <<Tok("WRITE_IMAGE", 0), Tok("size", Len(ImageFile(dude.v)))>> \o ImageFile(dude.v)
  /\ dude' = [dude EXCEPT !.at = "checksum", !.sum = Checksum(ImageFile(dude.v))]
  /\ DudeKeeps

readChecksum ==
  /\ dude.at = "checksum" /\ Says("CHECKSUM")
  /\ ioTx' = Tail(ioTx)
  /\ IF Head(ioTx).n = dude.sum
     THEN /\ wire' = wire \o <<Tok("WRITE_FINGERPRINT", 0)>> \o [i \in 1 .. FpWords |-> Tok("word", dude.v)]
          /\ dude' = [dude EXCEPT !.at = "reset"]
     ELSE dude' = NoDude /\ UNCHANGED wire
  /\ DudeKeeps

hardReset ==
  /\ dude.at = "reset"
  /\ wire' = wire \o <<Tok("HARD_RESET", 0), Tok("arg", 0)>> /\ dude' = [dude EXCEPT !.at = "done"]
  /\ DudeKeeps /\ UNCHANGED ioTx

DudeLost ==
  /\ dude.at # "off" /\ count.faults < MaxPcFaults
  /\ dude' = NoDude /\ wire' = <<>> /\ count' = [count EXCEPT !.faults = @ + 1]
  /\ UNCHANGED <<fVars, dm, rxd, ioTx>>

\* The power fails, perhaps during an operation on the Flash; then the board starts again.
InterruptedConfig ==
  IF Command("WRITE_FINGERPRINT") /\ dm.k >= 2 THEN {[flash EXCEPT !.fp[dm.k - 1] = Garbage]}
  ELSE IF dm.k = 0 /\ (Command("WRITE_IMAGE") \/ Command("WRITE_FINGERPRINT"))
  THEN {[EraseConfig(flash) EXCEPT !.fp = [i \in 1 .. FpWords |-> IF i \in kept THEN flash.fp[i] ELSE Erased]] :
          kept \in SUBSET (1 .. FpWords)}
  ELSE {}

BoardRestarts ==
  /\ \/ dm.at = "app" /\ UNCHANGED <<flash, count>>
     \/ count.faults < MaxPcFaults /\ count' = [count EXCEPT !.faults = @ + 1] /\ flash' \in InterruptedImage \cup InterruptedConfig
  /\ dm' = DeviceBoot /\ rxd' = <<>> /\ wire' = <<>> /\ ioTx' = <<>> /\ dude' = NoDude /\ img' = Idle /\ buf' = <<>>

PcBootNext ==
  \/ \E b, p \in BOOLEAN : MainStart(b, p)
  \/ OscCalibrateCached \/ BootProtocolInit \/ ServeEnds
  \/ \E n \in 1 .. MaxUsb : Receive(n)
  \/ RxMessage \/ RxFile \/ RxImage \/ RxImageFailed \/ FileEnds
  \/ HardReset \/ CheckInterface \/ ReadFingerprint \/ EraseFingerprint \/ StartImage \/ WriteFingerprint \/ FlashFails
  \/ \E v \in PcVersions : DudeConnects(v)
  \/ \E f \in BOOLEAN : DudeStarts(f)
  \/ DudeCompares \/ writeImage \/ readChecksum \/ hardReset \/ DudeLost \/ BoardRestarts

PcBootSpec == PcBootInit /\ [][PcBootNext]_dVars

-----------------------------------------------------------------------------
\* The oscillator is calibrated once: no update, complete or not, costs the calibration
\* unless something fails while the configuration page is rewritten, or pin 1 asks for it.
CalibrationKept == count.tunings <= 1 + count.faults + count.erasures
=============================================================================
