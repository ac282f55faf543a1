----------------------------- MODULE PhoneBoot -----------------------------
(***************************************************************************)
(* The bootloader that takes its image from an Android phone               *)
(* (bootloader/main.c): the main loop, the ADB channels and files it reads *)
(* from, and the phone.  The shell channel carries the output of dumpsys,  *)
(* the sync channel one file after the other.  What arrives is cut into    *)
(* DATA chunks and ADB packets anywhere.                                   *)
(***************************************************************************)
EXTENDS IoioFile

CONSTANTS Phones,      \* phones to connect: [path, files, version, authentic]
          ChunkSizes,  \* sizes of a DATA chunk
          MaxPacket,   \* longest ADB packet
          PhoneFlashFails, \* whether the Flash may fail while an image is written
          MaxFaults    \* bound: disconnections, ADB errors, failed fingerprint operations and power failures

ASSUME PhoneBootAssumption ==
  /\ ChunkSizes \subseteq Nat \ {0} /\ MaxPacket \in Nat
  /\ DOMAIN Phones \cap {"none", "other"} = {}
  /\ \A p \in DOMAIN Phones : Phones[p].version \in DOMAIN Images /\ Phones[p].authentic \in BOOLEAN

VARIABLES pm,     \* main loop: pc, state, auth_result, the fingerprint read, words of it written
          conn,   \* adb_conn_state; DISCONNECTED is adb_state of bootloader_conn.c
          peer,   \* what is attached: "none", "other", or a phone
          chan,   \* adb_channels: state, data to write, pending_ack
          file,   \* the ADB_FILE in use
          pkt,    \* the packet ADBFileCallback is working on
          out,    \* phone: what it has to send on each channel, whether it may
          faults

pVars == <<fVars, pm, conn, peer, chan, file, pkt, out, faults>>

Chans == {"shell", "sync"}
FreeChan == [state |-> "FREE", data |-> FALSE, ack |-> FALSE]
NoFile == [state |-> "FREE", func |-> "none", remain |-> 0, hdr |-> <<>>]
NoPkt == [on |-> FALSE, toks |-> <<>>]
NoOut == [toks |-> <<>>, may |-> FALSE, close |-> FALSE]

Boot == [pc |-> "conn", state |-> "WAIT_CONNECT", auth |-> "BUSY", fp |-> <<>>, bad |-> FALSE, written |-> 0]

RamInit ==
  /\ img = Idle /\ buf = <<>> /\ pm = Boot /\ conn = "DISCONNECTED"
  /\ chan = [c \in Chans |-> FreeChan] /\ file = NoFile /\ pkt = NoPkt /\ out = [c \in Chans |-> NoOut]

PhoneBootInit == RamInit /\ peer = "none" /\ faults = 0 /\ FlashInit(1)

Attached == peer \notin {"none", "other"}
Phone == Phones[peer]

-----------------------------------------------------------------------------
(* The phone (external).                                                   *)

\* Contents of the files of the manager, and packages.xml up to and after the verdict.
Content(func) ==
  CASE func = "fp" -> [i \in 1 .. FpWords |-> Tok("word", Phone.version)]
    [] func = "packages" -> <<Tok("text", 0), Tok("cert", IF Phone.authentic THEN 1 ELSE 0), Tok("text", 0)>>
    [] func = "image" -> ImageFile(Phone.version)

\* The sync protocol: DATA chunks of k units, the last one perhaps shorter, then DONE; FAIL with a
\* message for a missing file.
SyncStream(s, k) ==
  LET n == (Len(s) + k - 1) \div k
      At(i) == LET q == (i - 1) \div (k + 2)  r == (i - 1) % (k + 2) IN
               CASE r = 0 -> Tok("DATA", 0)
                 [] r = 1 -> Tok("size", Min({k, Len(s) - q * k}))
                 [] OTHER -> s[q * k + r - 1]
  IN [i \in 1 .. Len(s) + 2 * n |-> At(i)] \o <<Tok("DONE", 0), Tok("size", 0)>>
FailStream == <<Tok("FAIL", 0), Tok("size", 1), Tok("text", 0)>>
DumpsysOutput == <<Tok("text", 0)>> \o (CASE Phone.path = "found" -> <<Tok("path", 0)>>
                                          [] Phone.path = "long" -> <<Tok("long", 0)>>
                                          [] OTHER -> <<>>) \o <<Tok("text", 0)>>


AttachPeer(p) ==
  /\ peer = "none" /\ pm.pc = "conn" /\ pm.state = "WAIT_CONNECT" /\ conn = "DISCONNECTED"
  /\ peer' = p
  /\ UNCHANGED <<fVars, pm, conn, chan, file, pkt, out, faults>>

DetachPeer ==
  /\ peer # "none" /\ pm.pc # "app" /\ faults < MaxFaults
  /\ peer' = "none" /\ faults' = faults + 1
  /\ UNCHANGED <<fVars, pm, conn, chan, file, pkt, out>>

-----------------------------------------------------------------------------
(* ConnADBTasks and ADBTasks: at most one packet is received.              *)

\* ADBFileCallback has not returned.
InCall == pkt.on \/ ~HandleBufferDone \/ img.failed
Conn == pm.pc = "conn"

ConnDetached ==
  /\ Conn /\ ~Attached
  /\ conn' = "DISCONNECTED" /\ pm' = [pm EXCEPT !.pc = "main"]
  /\ UNCHANGED <<fVars, peer, chan, file, pkt, out, faults>>

\* ADBInit, ADBFileInit.
ConnInit ==
  /\ Conn /\ Attached /\ conn = "DISCONNECTED"
  /\ conn' = "WAIT_ATTACH" /\ pm' = [pm EXCEPT !.pc = "main"]
  /\ chan' = [c \in Chans |-> FreeChan] /\ file' = NoFile /\ out' = [c \in Chans |-> NoOut]
  /\ UNCHANGED <<fVars, peer, pkt, faults>>

\* ADB_CNXN is sent; later the phone answers it.
ConnHello ==
  /\ Conn /\ Attached
  /\ \/ conn = "WAIT_ATTACH" /\ conn' = "WAIT_CONNECT"
     \/ conn = "WAIT_CONNECT" /\ conn' \in {"WAIT_CONNECT", "CONNECTED"}
  /\ pm' = [pm EXCEPT !.pc = "main"]
  /\ UNCHANGED <<fVars, peer, chan, file, pkt, out, faults>>

\* A packet is received or sent with an error: ADBReset, USBHostAndroidReset.
AdbError ==
  /\ Conn /\ Attached /\ conn \in {"WAIT_CONNECT", "CONNECTED"} /\ faults < MaxFaults
  /\ faults' = faults + 1 /\ conn' = "WAIT_ATTACH" /\ peer' = "none" /\ pm' = [pm EXCEPT !.pc = "main"]
  /\ chan' = [c \in Chans |-> FreeChan] /\ file' = NoFile /\ out' = [c \in Chans |-> NoOut]
  /\ UNCHANGED <<fVars, pkt>>

Online == Conn /\ Attached /\ conn = "CONNECTED"

RecvNothing ==
  /\ Online /\ pm' = [pm EXCEPT !.pc = "chan"]
  /\ UNCHANGED <<fVars, conn, peer, chan, file, pkt, out, faults>>

\* ADBHandlePacket(ADB_OKAY): the channel is open, or what was written has arrived.
RecvOKAY(c) ==
  /\ Online /\ chan[c].state \in {"WAIT_OPEN", "WAIT_READY"}
  /\ chan' = [chan EXCEPT ![c].state = "IDLE", ![c].data = @ /\ chan[c].state = "WAIT_OPEN"]
  /\ out' = [out EXCEPT ![c].toks = IF c = "shell" THEN DumpsysOutput ELSE @,
                        ![c].may = c = "shell" \/ chan[c].state = "WAIT_READY"]
  /\ pm' = [pm EXCEPT !.pc = "chan"]
  /\ UNCHANGED <<fVars, conn, peer, file, pkt, faults>>

\* FileRecvFingerprint, FileRecvImage and FileRecvPackages at the end of the file.
ValidateFingerprint == pm.fp = flash.fp

\* Mutant: a manager whose packages.xml has been read is trusted.
FileEndTrusting(clean) ==
  CASE file.func = "fp" ->
         IF clean /\ ~pm.bad /\ Len(pm.fp) = FpWords /\ ~ValidateFingerprint THEN "FP_FAILED" ELSE "RUN_APP"
    [] file.func = "image" -> IF clean /\ IOIOFileDone THEN "RECV_IMAGE_DONE" ELSE "ERROR"
    [] file.func = "packages" -> IF clean THEN "AUTH_PASSED" ELSE "RUN_APP"

FileEnd(clean) ==
  CASE file.func = "fp" ->
         IF clean /\ ~pm.bad /\ Len(pm.fp) = FpWords /\ ~ValidateFingerprint THEN "FP_FAILED" ELSE "RUN_APP"
    [] file.func = "image" -> IF clean /\ IOIOFileDone THEN "RECV_IMAGE_DONE" ELSE "ERROR"
    [] file.func = "packages" -> IF clean /\ pm.auth = "PASS" THEN "AUTH_PASSED" ELSE "RUN_APP"

\* ADBHandlePacket(ADB_CLSE): the phone refuses the channel, answers ADB_CLSE, or the command has ended.
\* RecvDumpsys and ADBFileCallback without data.
RecvCLSE(c) ==
  /\ Online
  /\ \/ chan[c].state = "WAIT_OPEN" \/ out[c].close
     \/ c = "shell" /\ out[c].may /\ out[c].toks = <<>> /\ chan[c].state \in {"IDLE", "WAIT_READY", "CLOSE_REQUESTED", "WAIT_CLOSE"}
  /\ chan' = [chan EXCEPT ![c] = FreeChan]
  /\ out' = [out EXCEPT ![c] = NoOut]
  /\ IF c = "shell"
     THEN /\ pm' = [pm EXCEPT !.pc = "chan", !.state = IF @ = "FIND_PATH" THEN "RUN_APP" ELSE @]
          /\ UNCHANGED file
     ELSE /\ pm' = [pm EXCEPT !.pc = "chan", !.state = FileEnd(file.state = "WAIT_CLOSE")]
          /\ file' = NoFile
  /\ UNCHANGED <<fVars, conn, peer, pkt, faults>>

\* DumpsysProcess and AuthProcess on one buffer.
Holds(d, t) == \E i \in DOMAIN d : d[i].t = t
DumpsysProcess(d) == IF Holds(d, "path") THEN "found" ELSE IF Holds(d, "long") THEN "ERROR" ELSE "BUSY"
AuthProcess(d) ==
  IF ~Holds(d, "cert") THEN "BUSY" ELSE IF \E i \in DOMAIN d : d[i] = Tok("cert", 1) THEN "PASS" ELSE "FAIL"

\* ADBHandlePacket(ADB_WRTE).  The phone waits for ADB_OKAY before it writes again.
RecvWRTE(c, n) ==
  LET d == SubSeq(out[c].toks, 1, n)
      delivered == chan[c].state \in {"IDLE", "WAIT_READY"}
      found == c = "shell" /\ delivered /\ pm.state = "FIND_PATH" /\ DumpsysProcess(d) # "BUSY"
  IN
  /\ Online /\ out[c].may /\ n <= Len(out[c].toks) /\ chan[c].state # "FREE"
  /\ out' = [out EXCEPT ![c].toks = SubSeq(@, n + 1, Len(@)), ![c].may = FALSE]
  /\ chan' = [chan EXCEPT ![c].ack = TRUE, ![c].state = IF found THEN "CLOSE_REQUESTED" ELSE @]
  /\ pm' = [pm EXCEPT !.pc = "chan", !.state = IF found /\ DumpsysProcess(d) # "ERROR" THEN "FIND_PATH_DONE" ELSE @]
  /\ pkt' = IF c = "sync" /\ delivered THEN [on |-> TRUE, toks |-> d] ELSE pkt
  /\ UNCHANGED <<fVars, conn, peer, file, faults>>

-----------------------------------------------------------------------------
(* ADBFileCallback, one turn of its loop per step.                         *)

Callback == pkt.on /\ HandleBufferDone /\ ~img.failed
Left == Len(pkt.toks)
Rest(n) == [pkt EXCEPT !.toks = SubSeq(@, n + 1, Left)]
ADBClose(c) == [chan EXCEPT ![c].state = IF @ = "FREE" THEN @ ELSE "CLOSE_REQUESTED"]

\* Mutant: the channel of a file that cannot be read is left open.
CloseAndErrorSilent == file' = [file EXCEPT !.state = "ERROR"] /\ pkt' = NoPkt /\ UNCHANGED chan

CloseAndError == file' = [file EXCEPT !.state = "ERROR"] /\ chan' = ADBClose("sync") /\ pkt' = NoPkt

FileHeader ==
  LET n == Min({Left, file.remain})
      hdr == file.hdr \o SubSeq(pkt.toks, 1, n)
  IN
  /\ Callback /\ file.state = "WAIT_HEADER"
  /\ IF Left < file.remain
     THEN file' = [file EXCEPT !.hdr = hdr, !.remain = @ - n] /\ pkt' = NoPkt /\ UNCHANGED chan
     ELSE IF hdr[1].t \in {"DATA", "DONE", "FAIL"}
     THEN /\ file' = [file EXCEPT !.hdr = hdr, !.remain = hdr[2].n,
                                  !.state = IF hdr[1].t = "FAIL" THEN "WAIT_FAIL_DATA" ELSE "WAIT_DATA"]
          /\ pkt' = Rest(n) /\ UNCHANGED chan
     ELSE CloseAndError
  /\ UNCHANGED <<fVars, pm, conn, peer, out, faults>>

\* f->func with data.  The verdict on the manager closes the file.
Verdict(d) == file.func = "packages" /\ pm.auth = "BUSY" /\ AuthProcess(d) # "BUSY"
FileFunc(d) ==
  /\ pm' = IF d = <<>> THEN pm
           ELSE CASE file.func = "fp" ->
                       IF ~pm.bad /\ Len(pm.fp) + Len(d) <= FpWords
                       THEN [pm EXCEPT !.fp = @ \o [i \in 1 .. Len(d) |-> d[i].n]] ELSE [pm EXCEPT !.bad = TRUE]
                  [] file.func = "packages" -> IF pm.auth = "BUSY" THEN [pm EXCEPT !.auth = AuthProcess(d)] ELSE pm
                  [] OTHER -> pm
  /\ buf' = IF file.func = "image" THEN d ELSE buf
  /\ UNCHANGED <<flash, img>>

FileData ==
  /\ Callback /\ file.state = "WAIT_DATA"
  /\ LET d == SubSeq(pkt.toks, 1, Min({Left, file.remain}))
         ch == IF Verdict(d) THEN ADBClose("sync") ELSE chan
     IN
     /\ FileFunc(d)
     /\ IF Left < file.remain
        THEN /\ file' = [file EXCEPT !.remain = @ - Left, !.state = IF Verdict(d) THEN "WAIT_CLOSE" ELSE @]
             /\ chan' = ch /\ pkt' = NoPkt
        ELSE IF file.hdr[1].t = "DATA"
        THEN file' = [file EXCEPT !.remain = 2, !.hdr = <<>>, !.state = "WAIT_HEADER"] /\ chan' = ch /\ pkt' = Rest(file.remain)
        ELSE IF Left = file.remain
        THEN file' = [file EXCEPT !.state = "WAIT_CLOSE"] /\ chan' = ADBClose("sync") /\ pkt' = NoPkt
        ELSE CloseAndError
  /\ UNCHANGED <<conn, peer, out, faults>>

FileFail ==
  /\ Callback /\ file.state \in {"FREE", "WAIT_OPEN", "WAIT_FAIL_DATA"}
  /\ IF file.state # "WAIT_FAIL_DATA" \/ Left >= file.remain THEN CloseAndError
     ELSE file' = [file EXCEPT !.remain = @ - Left] /\ pkt' = NoPkt /\ UNCHANGED chan
  /\ UNCHANGED <<fVars, pm, conn, peer, out, faults>>

FileIgnore ==
  /\ Callback /\ file.state \in {"WAIT_CLOSE", "ERROR"}
  /\ pkt' = NoPkt
  /\ UNCHANGED <<fVars, pm, conn, peer, chan, file, out, faults>>

\* FileRecvImage with data: IOIOFileHandleBuffer, and what it returns.
FileImage ==
  /\ HandleBuffer(PhoneFlashFails)
  /\ UNCHANGED <<pm, conn, peer, chan, file, pkt, out, faults>>

FileImageFailed ==
  /\ HandleBufferDone /\ img.failed
  /\ img' = [img EXCEPT !.failed = FALSE] /\ pm' = [pm EXCEPT !.state = "ERROR"]
  /\ UNCHANGED <<flash, buf, conn, peer, chan, file, pkt, out, faults>>

-----------------------------------------------------------------------------
(* ADBChannelTasks and ADBFileTasks.                                       *)

ToSend(c) ==
  \/ chan[c].state \in {"START", "CLOSE_REQUESTED"} \/ chan[c].ack \/ (chan[c].state = "IDLE" /\ chan[c].data)

\* The channel after its turn, and what the phone makes of the packet.
Sent(c) ==
  CASE chan[c].state = "START" -> [chan[c] EXCEPT !.state = "WAIT_OPEN"]
    [] chan[c].state # "START" /\ chan[c].ack -> [chan[c] EXCEPT !.ack = FALSE]
    [] chan[c].state = "CLOSE_REQUESTED" /\ ~chan[c].ack -> [chan[c] EXCEPT !.state = "WAIT_CLOSE"]
    [] OTHER -> [chan[c] EXCEPT !.state = "WAIT_READY"]
Heard(c) ==
  IF chan[c].state # "START" /\ chan[c].ack THEN {[out[c] EXCEPT !.may = TRUE]}
  ELSE IF chan[c].state = "CLOSE_REQUESTED" THEN {[out[c] EXCEPT !.close = TRUE]}
  ELSE IF chan[c].state = "IDLE"
  THEN {[out[c] EXCEPT !.toks = s] :
          s \in IF Phone.files THEN {SyncStream(Content(file.func), k) : k \in ChunkSizes} ELSE {FailStream}}
  ELSE {out[c]}

\* ADBFileTasks, after the channels: the request for the file.
FileTasks(ch) ==
  IF file.state = "WAIT_OPEN" /\ ch["sync"].state = "IDLE" /\ ~ch["sync"].data
  THEN /\ chan' = [ch EXCEPT !["sync"].data = TRUE]
       /\ file' = [file EXCEPT !.state = "WAIT_HEADER", !.remain = 2]
  ELSE chan' = ch /\ UNCHANGED file

ChannelTasks ==
  /\ pm.pc = "chan" /\ ~InCall /\ Attached
  /\ \/ \E c \in Chans : /\ ToSend(c) /\ \E o \in Heard(c) : out' = [out EXCEPT ![c] = o]
                         /\ FileTasks([chan EXCEPT ![c] = Sent(c)])
     \/ (\A c \in Chans : ~ToSend(c)) /\ FileTasks(chan) /\ UNCHANGED out
  /\ pm' = [pm EXCEPT !.pc = "main"]
  /\ UNCHANGED <<fVars, conn, peer, pkt, faults>>

\* The phone has gone while the turn was under way.
ChannelsGone ==
  /\ pm.pc = "chan" /\ ~InCall /\ ~Attached
  /\ pm' = [pm EXCEPT !.pc = "main"]
  /\ UNCHANGED <<fVars, conn, peer, chan, file, pkt, out, faults>>

-----------------------------------------------------------------------------
(* The switch of main.                                                     *)

Main(s) == pm.pc = "main" /\ peer # "none" /\ pm.state = s

MainDisconnected ==
  /\ pm.pc = "main" /\ peer = "none"
  /\ pm' = [pm EXCEPT !.pc = "conn", !.state = "WAIT_CONNECT"]
  /\ UNCHANGED <<fVars, conn, peer, chan, file, pkt, out, faults>>

MainWaitConnect ==
  /\ Main("WAIT_CONNECT")
  /\ pm' = [pm EXCEPT !.pc = "conn", !.state = IF Attached THEN "WAIT_ADB_READY" ELSE "RUN_APP"]
  /\ UNCHANGED <<fVars, conn, peer, chan, file, pkt, out, faults>>

ADBOpen(c) == chan' = [chan EXCEPT ![c] = [FreeChan EXCEPT !.state = "START"]]

MainWaitAdbReady ==
  /\ Main("WAIT_ADB_READY") /\ conn = "CONNECTED"
  /\ ADBOpen("shell") /\ pm' = [pm EXCEPT !.pc = "conn", !.state = "FIND_PATH"]
  /\ UNCHANGED <<fVars, conn, peer, file, pkt, out, faults>>

ADBFileRead(func) == ADBOpen("sync") /\ file' = [NoFile EXCEPT !.state = "WAIT_OPEN", !.func = func]

MainFindPathDone ==
  /\ Main("FIND_PATH_DONE")
  /\ ADBFileRead("fp") /\ pm' = [pm EXCEPT !.pc = "conn", !.state = "WAIT_RECV_FP", !.fp = <<>>, !.bad = FALSE]
  /\ UNCHANGED <<fVars, conn, peer, pkt, out, faults>>

MainFpFailed ==
  /\ Main("FP_FAILED")
  /\ ADBFileRead("packages") /\ pm' = [pm EXCEPT !.pc = "conn", !.state = "AUTH_MANAGER", !.auth = "BUSY"]
  /\ UNCHANGED <<fVars, conn, peer, pkt, out, faults>>

\* Mutant: the old fingerprint stays until the new one is written.
NoFingerprintKept == flash

NoFingerprint == [flash EXCEPT !.fp = [i \in 1 .. FpWords |-> Erased]]

MainAuthPassed ==
  /\ Main("AUTH_PASSED")
  /\ \/ /\ flash' = NoFingerprint
        /\ IOIOFileInit /\ ADBFileRead("image")
        /\ pm' = [pm EXCEPT !.pc = "conn", !.state = "WAIT_RECV_IMAGE"] /\ UNCHANGED faults
     \/ /\ faults < MaxFaults /\ faults' = faults + 1
        /\ pm' = [pm EXCEPT !.pc = "conn", !.state = "ERROR"] /\ UNCHANGED <<flash, img, chan, file>>
  /\ UNCHANGED <<buf, conn, peer, pkt, out>>

\* WriteFingerprint, word by word.
MainImageDone ==
  /\ pm.pc = "write" \/ Main("RECV_IMAGE_DONE")
  /\ LET k == IF pm.pc = "write" THEN pm.written + 1 ELSE 1 IN
     \/ /\ flash' = [flash EXCEPT !.fp[k] = Word(@, pm.fp[k])]
        /\ pm' = IF k = FpWords THEN [pm EXCEPT !.pc = "conn", !.state = "RUN_APP", !.written = 0]
                 ELSE [pm EXCEPT !.pc = "write", !.written = k]
        /\ UNCHANGED faults
     \/ /\ faults < MaxFaults /\ faults' = faults + 1
        /\ pm' = [pm EXCEPT !.pc = "conn", !.state = "ERROR", !.written = 0] /\ UNCHANGED flash
  /\ UNCHANGED <<img, buf, conn, peer, chan, file, pkt, out>>

MainRunApp ==
  /\ Main("RUN_APP") /\ pm' = [pm EXCEPT !.pc = "app"]
  /\ UNCHANGED <<fVars, conn, peer, chan, file, pkt, out, faults>>

MainNothing ==
  /\ \/ \E s \in {"FIND_PATH", "WAIT_RECV_FP", "AUTH_MANAGER", "WAIT_RECV_IMAGE", "ERROR"} : Main(s)
     \/ Main("WAIT_ADB_READY") /\ conn # "CONNECTED"
  /\ pm' = [pm EXCEPT !.pc = "conn"]
  /\ UNCHANGED <<fVars, conn, peer, chan, file, pkt, out, faults>>

-----------------------------------------------------------------------------
\* The power fails, perhaps while the Flash is being erased or written; it comes back.
InterruptedFingerprint ==
  IF Main("AUTH_PASSED") THEN {[flash EXCEPT !.fp = [i \in DOMAIN @ |-> IF i \in kept THEN @[i] ELSE Erased]] : kept \in SUBSET (1 .. FpWords)}
  ELSE IF pm.pc = "write" \/ Main("RECV_IMAGE_DONE") THEN {[flash EXCEPT !.fp[pm.written + 1] = Garbage]}
  ELSE {}

PowerFails ==
  /\ faults < MaxFaults /\ faults' = faults + 1
  /\ flash' \in InterruptedImage \cup InterruptedFingerprint
  /\ img' = Idle /\ buf' = <<>> /\ pm' = Boot /\ conn' = "DISCONNECTED"
  /\ chan' = [c \in Chans |-> FreeChan] /\ file' = NoFile /\ pkt' = NoPkt /\ out' = [c \in Chans |-> NoOut]
  /\ peer' \in {peer, "none"}

Packets == \E c \in Chans : RecvOKAY(c) \/ RecvCLSE(c) \/ \E n \in 1 .. MaxPacket : RecvWRTE(c, n)
FileCallback == FileHeader \/ FileData \/ FileFail \/ FileIgnore \/ FileImage \/ FileImageFailed
MainSwitch ==
  \/ MainDisconnected \/ MainWaitConnect \/ MainWaitAdbReady \/ MainFindPathDone \/ MainFpFailed
  \/ MainAuthPassed \/ MainImageDone \/ MainRunApp \/ MainNothing

LoopStep == ConnDetached \/ ConnInit \/ ConnHello \/ RecvNothing \/ Packets \/ FileCallback \/ ChannelTasks \/ ChannelsGone \/ MainSwitch

PhoneBootNext ==
  \/ LoopStep \/ AdbError \/ DetachPeer \/ PowerFails
  \/ \E p \in DOMAIN Phones \cup {"other"} : AttachPeer(p)

\* The loop never stops; an attached phone answers, and answers in full.
PhoneBootFairness ==
  /\ WF_pVars(LoopStep)
  /\ SF_pVars(Packets)
  /\ SF_pVars(ConnHello /\ conn' = "CONNECTED")

PhoneBootSpec == PhoneBootInit /\ [][PhoneBootNext]_pVars /\ PhoneBootFairness

-----------------------------------------------------------------------------
\* Nothing but an image of an authentic manager is ever written to application space.
InstalledIsAuthentic ==
  \A b \in DOMAIN flash.app :
    flash.app[b] \in {Erased, Garbage, 1} \cup {Phones[p].version : p \in {q \in DOMAIN Phones : Phones[q].authentic}}

\* With a phone that stays and answers the boot sequence comes to an end: the application
\* runs or an error is signalled (main.c, "Desired behavior").
BootEnds == Attached ~> (pm.pc = "app" \/ pm.state = "ERROR" \/ ~Attached)

\* "Authenticate manager app. If failed, skip to step 8" (main.c, step 4): as long as nothing has
\* failed, a manager that was found authentic is not skipped.
AuthenticIsAccepted ==
  [][pm.state = "AUTH_MANAGER" /\ pm'.state = "RUN_APP" /\ faults' = 0 => pm.auth # "PASS"]_pVars

\* "When signaling error, only a reset gets us out of there" (main.c), or a lost connection.  It
\* does not hold (README, section 6).
ErrorIsFinal == [][pm.state = "ERROR" /\ peer' # "none" /\ pm' # Boot => pm'.state \in {"ERROR", "WAIT_CONNECT"}]_pVars
=============================================================================
