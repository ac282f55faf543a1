-------------------------- MODULE PhoneBoot_proofs --------------------------
(***************************************************************************)
(* Proofs about the bootloader that takes its image from a phone, for      *)
(* every image, every size of the chunks and every cut of the stream into  *)
(* packets.  PhoneInv follows one phone: what it has still to send of the  *)
(* file that is being read, where ADBFileCallback is in it, and what the   *)
(* installer has made of it.                                               *)
(***************************************************************************)
EXTENDS PhoneBoot, Boot_proofs

\* The versions that may be in application space.
Trusted == {1} \cup {Phones[p].version : p \in {q \in DOMAIN Phones : Phones[q].authentic}}

\* The files of a phone with version v of the manager, authentic or not.
FileOf(v, ok, func) ==
  CASE func = "fp" -> [i \in 1 .. FpWords |-> Tok("word", v)]
    [] func = "packages" -> <<Tok("text", 0), Tok("cert", IF ok THEN 1 ELSE 0), Tok("text", 0)>>
    [] func = "image" -> ImageFile(v)

\* File s in chunks of k units: how many there are, and what is behind the first q.
Chunks(s, k) == (Len(s) + k - 1) \div k
Mark(s, k, q) == IF q < Chunks(s, k) THEN q * k ELSE Len(s)

-----------------------------------------------------------------------------
(* Where ADBFileCallback is, with file f and u still to come.  c units of  *)
(* the contents s have been handed on.                                     *)

HeadAt(f, u, e, p) ==
  /\ f.state = "WAIT_HEADER" /\ Len(f.hdr) \in {0, 1} /\ f.remain = 2 - Len(f.hdr)
  /\ PieceAt(f.hdr, e, p) /\ RestOf(u, e, p + Len(f.hdr))
BetweenChunks(f, u, s, k, c) ==
  \E q \in 0 .. Chunks(s, k) : c = Mark(s, k, q) /\ HeadAt(f, u, SyncStream(s, k), c + 2 * q)
InChunk(f, u, s, k, c) ==
  \E q \in 0 .. Chunks(s, k) - 1 :
    /\ f.state = "WAIT_DATA" /\ f.hdr[1].t = "DATA"
    /\ Mark(s, k, q) <= c /\ f.remain = Mark(s, k, q + 1) - c /\ f.remain > 0
    /\ RestOf(u, SyncStream(s, k), c + 2 * q + 2)
AtDone(f, u, s, c) == f.state = "WAIT_DATA" /\ f.hdr[1].t = "DONE" /\ f.remain = 0 /\ u = <<>> /\ c = Len(s)

Requested(f, u, c) == u = <<>> /\ c = 0 /\ f.hdr = <<>> /\ (f.state = "WAIT_OPEN" \/ (f.state = "WAIT_HEADER" /\ f.remain = 2))
Refused(f, u) == HeadAt(f, u, FailStream, 0) \/ f.state = "WAIT_FAIL_DATA"
Over(f, s, c) == f.state = "ERROR" \/ (f.state = "WAIT_CLOSE" /\ (f.func = "image" => c = Len(s)))
Reading(f, u, s, c) ==
  \/ Requested(f, u, c) \/ Refused(f, u) \/ Over(f, s, c) \/ AtDone(f, u, s, c)
  \/ \E k \in ChunkSizes : BetweenChunks(f, u, s, k, c) \/ InChunk(f, u, s, k, c)

\* What the phone has still to send, the packet under way included.
Coming == pkt.toks \o out["sync"].toks

-----------------------------------------------------------------------------
(* The installer, when c units of image v have been handed to it.          *)

\* What it holds is a piece of the image, even when the Flash has failed.
Holding(g, b, v, c) ==
  /\ Len(b) <= c /\ PieceAt(b, ImageFile(v), c - Len(b))
  /\ Len(g.buf) + g.remaining = IF g.state = "WAIT_BLOCK" THEN 2 ELSE 1
  /\ \E j \in Nat : PieceAt(g.buf, ImageFile(v), j) /\ (g.remaining # 0 => j + Len(g.buf) = c - Len(b))
  /\ g.due => g.remaining = 0
  /\ g.failed => ~g.due /\ b = <<>> /\ g.remaining = 0
\* A block that was refused stays refused.
Stuck == img.state = "WAIT_BLOCK" /\ img.remaining = 0 /\ AddressRefused
Installs(v, c) == Holding(img, buf, v, c) /\ (~PhoneFlashFails => Stuck \/ AtWork(flash, img, buf, v, c - Len(buf)))

-----------------------------------------------------------------------------
Funcs == {"none", "fp", "packages", "image"}
FileStates == {"FREE", "WAIT_OPEN", "WAIT_HEADER", "WAIT_DATA", "WAIT_FAIL_DATA", "WAIT_CLOSE", "ERROR"}
ChanStates == {"FREE", "START", "WAIT_OPEN", "IDLE", "WAIT_READY", "CLOSE_REQUESTED", "WAIT_CLOSE"}
MainStates ==
  {"WAIT_CONNECT", "WAIT_ADB_READY", "FIND_PATH", "FIND_PATH_DONE", "WAIT_RECV_FP", "FP_FAILED", "AUTH_MANAGER",
   "AUTH_PASSED", "WAIT_RECV_IMAGE", "RECV_IMAGE_DONE", "RUN_APP", "ERROR"}
PmOK ==
  pm \in [pc : {"conn", "chan", "main", "write", "app"}, state : MainStates, auth : {"BUSY", "PASS", "FAIL"},
          fp : Seq(Int), bad : BOOLEAN, written : 0 .. FpWords - 1]
FileOK(f) == f \in [state : FileStates, func : Funcs, remain : Nat, hdr : Seq(Tokens)]
PktOK == pkt \in [on : BOOLEAN, toks : Seq(Tokens)] /\ (~pkt.on => pkt.toks = <<>>)
ChanOK == chan \in [Chans -> [state : ChanStates, data : BOOLEAN, ack : BOOLEAN]]
OutOK == out \in [Chans -> [toks : Seq(Tokens), may : BOOLEAN, close : BOOLEAN]]
PhoneTypeOK ==
  /\ InstallerOK(flash, img, buf) /\ PmOK /\ FileOK(file) /\ PktOK /\ ChanOK /\ OutOK
  /\ conn \in {"DISCONNECTED", "WAIT_ATTACH", "WAIT_CONNECT", "CONNECTED"}
  /\ peer \in {"none", "other"} \cup DOMAIN Phones

SyncState == chan["sync"].state
Closing == {"CLOSE_REQUESTED", "WAIT_CLOSE"}
Closed == file = NoFile /\ SyncState = "FREE" /\ out["sync"] = NoOut
\* The states of the main loop in which no file has been asked for, and those between two files.
Early == {"WAIT_CONNECT", "WAIT_ADB_READY", "FIND_PATH", "FIND_PATH_DONE"}
Between == {"FP_FAILED", "AUTH_PASSED", "RECV_IMAGE_DONE"}

\* The sync channel and the file belong together; nothing is opened twice.
ChannelInStep ==
  /\ SyncState = "FREE" \/ file.func = "none" => Closed
  /\ SyncState \in {"START", "WAIT_OPEN"} => file.state = "WAIT_OPEN"
  /\ file.state = "WAIT_OPEN" => SyncState \in {"START", "WAIT_OPEN", "IDLE"} /\ ~chan["sync"].data
  /\ SyncState = "IDLE" /\ chan["sync"].data => file.state = "WAIT_HEADER" /\ file.hdr = <<>> /\ file.remain = 2 /\ Coming = <<>>
  /\ SyncState \in Closing => file.state \in {"WAIT_CLOSE", "ERROR"} \/ (file.func = "packages" /\ pm.auth # "BUSY")
LoopInStep ==
  /\ Attached /\ conn = "DISCONNECTED" => pm.pc = "conn" /\ pm.state = "WAIT_CONNECT"
  /\ Attached /\ conn # "DISCONNECTED" /\ pm.state \in Early => Closed
  /\ pm.state \in Between => Closed
  /\ pm.pc = "write" => pm.state = "RECV_IMAGE_DONE"
  /\ pm.pc # "write" => pm.written = 0
  /\ pm.pc # "chan" => ~InCall
  /\ peer = "other" => pm.state \in {"WAIT_CONNECT", "RUN_APP"}
  /\ file.func # "image" => HandleBufferDone /\ ~img.failed
InStep == ChannelInStep /\ LoopInStep

\* The phone that is followed has version v, and is authentic or not.
Followed(v, ok) ==
  /\ Attached /\ conn # "DISCONNECTED" => Phone.version = v /\ Phone.authentic = ok
  /\ ok => v \in Trusted
PrintOf(v) == \A i \in 1 .. Len(pm.fp) : pm.fp[i] = v
Knows(v, ok) ==
  /\ file.func = "packages" /\ pm.auth = "PASS" => ok
  /\ file.func = "image" \/ pm.state = "AUTH_PASSED" => ok
  /\ file.func # "none" \/ pm.state \in Between => PrintOf(v) /\ Len(pm.fp) <= FpWords
  /\ file.func \in {"packages", "image"} \/ pm.state \in Between => Len(pm.fp) = FpWords
  /\ file.func = "image" => FpErased
  /\ pm.state = "RECV_IMAGE_DONE" =>
       /\ \A i \in 1 .. FpWords : flash.fp[i] = IF i <= pm.written THEN v ELSE Erased
       /\ ~PhoneFlashFails => Whole(flash, v)
\* The verdict has been given, and the rest of the file is lost on a channel that is being closed.
Astray == file.func = "packages" /\ pm.auth # "BUSY" /\ ~pkt.on /\ SyncState \in Closing
FollowsAt(v, s, c) ==
  /\ Reading(file, Coming, s, c) \/ Astray
  /\ file.func = "image" => Installs(v, c)
FollowsFile(v, ok) ==
  file.func # "none" => \E c \in Nat : c <= Len(FileOf(v, ok, file.func)) /\ FollowsAt(v, FileOf(v, ok, file.func), c)

\* What holds of the bootloader at every moment, with some phone that it follows or has followed last.
PhoneInv ==
  /\ PhoneTypeOK /\ InStep /\ InstalledIsAuthentic /\ (~PhoneFlashFails => FingerprintMeansImage)
  /\ \E v \in Versions, ok \in BOOLEAN : Followed(v, ok) /\ Knows(v, ok) /\ FollowsFile(v, ok)

\* A channel that is not in use has nothing to acknowledge, and nothing is written to the shell.
ChansQuiet ==
  /\ ~chan["shell"].data /\ \A c \in Chans : chan[c].state = "FREE" => chan[c] = FreeChan
  /\ pkt.on => SyncState # "FREE"
  /\ pm.pc = "chan" => peer # "other"

-----------------------------------------------------------------------------
(* The stream of the sync protocol.                                        *)

LEMMA Quotient ==
    ASSUME NEW d \in Nat \ {0}, NEW q \in Nat, NEW r \in 0 .. d - 1 PROVE (q * d + r) \div d = q /\ (q * d + r) % d = r
  <1> DEFINE a == q * d + r  x == a \div d  y == a % d
  <1>1. a \in Nat /\ q * d \in Nat
    OBVIOUS
  <1>2. x \in Int /\ y \in 0 .. d - 1 /\ a = d * x + y
    BY <1>1
  <1> HIDE DEF x, y
  <1>3. d * x + y = q * d + r
    BY <1>2
  <1>4. ~(x < q)
    <2>1. SUFFICES ASSUME x + 1 <= q PROVE FALSE
      BY <1>2
    <2>2. d * (x + 1) <= d * q
      BY <1>2, <2>1
    <2>3. d * (x + 1) = d * x + d /\ d * q = q * d
      BY <1>2
    <2>4. QED
      BY <1>2, <1>3, <2>2, <2>3
  <1>5. ~(x > q)
    <2>1. SUFFICES ASSUME q + 1 <= x PROVE FALSE
      BY <1>2
    <2>2. d * (q + 1) <= d * x
      BY <1>2, <2>1
    <2>3. d * (q + 1) = q * d + d
      BY <1>2
    <2>4. QED
      BY <1>2, <1>3, <2>2, <2>3
  <1>6. x = q
    BY <1>2, <1>4, <1>5
  <1>7. y = r
    <2>1. d * x = q * d
      BY <1>6
    <2>2. QED
      BY <1>1, <1>2, <1>3, <2>1
  <1>8. QED
    BY <1>6, <1>7 DEF x, y

LEMMA LengthInChunks == ASSUME NEW s \in Seq(Tokens), NEW k \in Nat \ {0} PROVE Len(s) <= Chunks(s, k) * k
  <1> DEFINE l == Len(s)  a == l + k - 1  n == a \div k
  <1>1. l \in Nat /\ a \in Nat
    OBVIOUS
  <1>2. n \in Int /\ a % k \in 0 .. k - 1 /\ a = k * n + (a % k)
    BY <1>1
  <1>3. l <= k * n /\ k * n = n * k
    BY <1>1, <1>2
  <1>4. QED
    BY <1>3 DEF Chunks

\* The marks between the chunks.
LEMMA Marks ==
    ASSUME NEW s \in Seq(Tokens), NEW k \in Nat \ {0}
    PROVE  /\ Chunks(s, k) \in Nat /\ Mark(s, k, 0) = 0 /\ Mark(s, k, Chunks(s, k)) = Len(s)
           /\ \A q \in 0 .. Chunks(s, k) - 1 :
                /\ Mark(s, k, q) = q * k /\ q * k \in Nat /\ q * k < Len(s)
                /\ Mark(s, k, q + 1) \in q * k + 1 .. q * k + k /\ Mark(s, k, q + 1) <= Len(s)
                /\ Min({k, Len(s) - q * k}) = Mark(s, k, q + 1) - q * k
  <1> DEFINE l == Len(s)  a == l + k - 1  n == a \div k
  <1>1. l \in Nat /\ a \in Nat
    OBVIOUS
  <1>2. n \in Int /\ a % k \in 0 .. k - 1 /\ a = k * n + (a % k)
    BY <1>1
  <1>3. n \in Nat
    BY <1>1, <1>2
  <1>4. k * n <= l + k - 1 /\ l <= k * n /\ k * n = n * k
    BY <1>1, <1>2, <1>3
  <1>5. Chunks(s, k) = n
    BY DEF Chunks
  <1> HIDE DEF n
  <1>6. Mark(s, k, n) = l /\ Mark(s, k, 0) = 0
    <2>1. n = 0 => l = 0
      BY <1>1, <1>4
    <2>2. 0 * k = 0
      OBVIOUS
    <2>3. QED
      BY <1>3, <1>5, <2>1, <2>2 DEF Mark
  <1>7. ASSUME NEW q \in 0 .. n - 1
        PROVE  /\ Mark(s, k, q) = q * k /\ q * k \in Nat /\ q * k < l
               /\ Mark(s, k, q + 1) \in q * k + 1 .. q * k + k /\ Mark(s, k, q + 1) <= l
               /\ Min({k, l - q * k}) = Mark(s, k, q + 1) - q * k
    <2>1. Mark(s, k, q) = q * k /\ q * k \in Nat /\ q \in Nat
      BY <1>3, <1>5 DEF Mark
    <2>2. ASSUME NEW j \in Nat, j < n PROVE j * k < l
      <3>1. (j + 1) * k <= n * k
        BY <1>3, <2>2
      <3>2. (j + 1) * k = j * k + k /\ j * k \in Int /\ n * k \in Int
        BY <1>3
      <3>3. QED
        BY <1>1, <1>4, <3>1, <3>2
    <2>3. q * k < l
      BY <1>3, <2>1, <2>2
    <2>4. Min({k, l - q * k}) = IF k <= l - q * k THEN k ELSE l - q * k
      BY <1>1, <2>1, MinOfTwo
    <2>5. (q + 1) * k = q * k + k
      BY <2>1
    <2>6. CASE q + 1 < n
      <3>1. (q + 1) * k < l /\ Mark(s, k, q + 1) = (q + 1) * k
        BY <1>5, <2>1, <2>2, <2>6 DEF Mark
      <3>2. QED
        BY <1>1, <2>1, <2>3, <2>4, <2>5, <3>1
    <2>7. CASE ~(q + 1 < n)
      <3>1. q + 1 = n /\ Mark(s, k, q + 1) = l
        BY <1>3, <1>5, <2>7 DEF Mark
      <3>2. l <= q * k + k
        BY <1>4, <2>5, <3>1
      <3>3. QED
        BY <1>1, <2>1, <2>3, <2>4, <3>1, <3>2
    <2>8. QED
      BY <2>6, <2>7
  <1>8. QED
    BY <1>3, <1>5, <1>6, <1>7

\* File s in chunks of k units, as the phone sends it.
LEMMA ChunkAt ==
    ASSUME NEW s \in Seq(Tokens), NEW k \in Nat \ {0}
    PROVE  /\ SyncStream(s, k) \in Seq(Tokens) /\ Len(SyncStream(s, k)) = Len(s) + 2 * Chunks(s, k) + 2
           /\ SyncStream(s, k)[Len(s) + 2 * Chunks(s, k) + 1] = Tok("DONE", 0)
           /\ SyncStream(s, k)[Len(s) + 2 * Chunks(s, k) + 2] = Tok("size", 0)
           /\ \A q \in 0 .. Chunks(s, k) - 1 :
                /\ SyncStream(s, k)[Mark(s, k, q) + 2 * q + 1] = Tok("DATA", 0)
                /\ SyncStream(s, k)[Mark(s, k, q) + 2 * q + 2] = Tok("size", Mark(s, k, q + 1) - Mark(s, k, q))
                /\ \A c \in Mark(s, k, q) + 1 .. Mark(s, k, q + 1) : SyncStream(s, k)[c + 2 * q + 2] = s[c]
  <1> DEFINE l == Len(s)  n == Chunks(s, k)  w == k + 2
             Q(i) == (i - 1) \div w
             R(i) == (i - 1) % w
             At(i) == CASE R(i) = 0 -> Tok("DATA", 0)
                        [] R(i) = 1 -> Tok("size", Min({k, l - Q(i) * k}))
                        [] OTHER -> s[Q(i) * k + R(i) - 1]
             body == [i \in 1 .. l + 2 * n |-> At(i)]
             tail == <<Tok("DONE", 0), Tok("size", 0)>>
  <1>1. SyncStream(s, k) = body \o tail
    BY DEF SyncStream, Chunks
  <1> HIDE DEF Q, R, At, body, tail
  <1>a. w \in Nat \ {0} /\ l \in Nat
    OBVIOUS
  <1>b. /\ n \in Nat
        /\ \A q \in 0 .. n - 1 : /\ Mark(s, k, q) = q * k /\ q * k \in Nat /\ q * k < l
                                 /\ Mark(s, k, q + 1) \in q * k + 1 .. q * k + k /\ Mark(s, k, q + 1) <= l
                                 /\ Min({k, l - q * k}) = Mark(s, k, q + 1) - q * k
    BY Marks
  <1>c. l <= n * k
    BY LengthInChunks
  <1> HIDE DEF n, l
  <1>2. /\ l \in Nat /\ n \in Nat /\ w \in Nat \ {0}
        /\ \A q \in 0 .. n - 1 : /\ Mark(s, k, q) = q * k /\ q * k \in Nat /\ q * k < l
                                 /\ Mark(s, k, q + 1) \in q * k + 1 .. q * k + k /\ Mark(s, k, q + 1) <= l
                                 /\ Min({k, l - q * k}) = Mark(s, k, q + 1) - q * k
    BY <1>a, <1>b
  <1>3. \A q \in 0 .. n : q * k \in Int /\ q * w \in Int /\ q * w = q * k + 2 * q
    BY <1>2
  <1> HIDE DEF w
  <1>4. ASSUME NEW q \in 0 .. n - 1, NEW r \in 0 .. w - 1 PROVE Q(q * w + r + 1) = q /\ R(q * w + r + 1) = r
    <2>1. q \in Nat /\ q * w \in Int /\ (q * w + r) \div w = q /\ (q * w + r) % w = r
      BY <1>2, <1>3, Quotient
    <2>2. (q * w + r + 1) - 1 = q * w + r
      BY <2>1
    <2>3. QED
      BY <2>1, <2>2 DEF Q, R
  \* Where a chunk ends.
  <1>5. ASSUME NEW q \in 0 .. n - 1 PROVE Mark(s, k, q + 1) + 2 * q + 2 <= l + 2 * n
    <2>0. q * k \in Nat /\ Mark(s, k, q + 1) \in q * k + 1 .. q * k + k /\ Mark(s, k, q + 1) <= l
      BY <1>2
    <2>1. Mark(s, k, q + 1) \in Int /\ Mark(s, k, q + 1) <= l /\ q + 1 <= n
      BY <1>2, <2>0
    <2>2. QED
      BY <1>2, <2>1
  <1>6. ASSUME NEW i \in 1 .. l + 2 * n PROVE At(i) \in Tokens
    <2> DEFINE q == Q(i)  r == R(i)
    <2>1. i \in Int /\ q \in Nat /\ r \in 0 .. w - 1 /\ i - 1 = w * q + r /\ w * q \in Int
      <3>1. i \in Int /\ i - 1 \in Nat
        BY <1>2
      <3>2. QED
        BY <1>2, <3>1 DEF Q, R
    <2> HIDE DEF q, r
    <2>2. w * q = q * k + 2 * q /\ q * k \in Int
      BY <2>1 DEF w
    <2>3. q < n
      <3>1. SUFFICES ASSUME n <= q PROVE FALSE
        BY <1>2, <2>1
      <3>2. w * n <= w * q /\ w * n \in Int
        BY <1>2, <2>1, <3>1
      <3>a. w * n = n * k + 2 * n /\ n * k \in Int
        BY <1>2 DEF w
      <3>3. l <= n * k
        BY <1>c
      <3>4. QED
        BY <1>2, <2>1, <2>2, <3>2, <3>a, <3>3
    <2>4. Tok("DATA", 0) \in Tokens /\ Tok("size", Min({k, l - q * k})) \in Tokens
      <3>1. Min({k, l - q * k}) \in Int
        <4>1. k \in Int /\ l - q * k \in Int
          BY <1>2, <2>2
        <4>2. QED
          BY <4>1, MinOfTwo
      <3>2. QED
        BY <3>1, TokShape DEF TokTypes
    <2>5. ASSUME r # 0, r # 1 PROVE s[q * k + r - 1] \in Tokens
      <3>1. q * k + r - 1 >= 1
        BY <1>2, <2>1, <2>2, <2>3, <2>5
      <3>2. q * k + r - 1 <= l
        <4>1. CASE q = n - 1
          BY <1>2, <2>1, <2>2, <4>1
        <4>2. CASE q + 1 < n
          <5>0. q + 1 \in 0 .. n - 1
            BY <1>2, <2>1, <4>2
          <5>1. (q + 1) * k < l
            BY <1>2, <5>0
          <5>a. (q + 1) * k = q * k + k
            BY <2>1
          <5>b. r <= k + 1
            BY <2>1 DEF w
          <5>2. QED
            BY <1>2, <2>1, <2>2, <5>1, <5>a, <5>b
        <4>3. QED
          BY <1>2, <2>1, <2>3, <4>1, <4>2
      <3>3. QED
        <4>1. q * k + r - 1 \in 1 .. Len(s)
          BY <1>2, <2>1, <2>2, <3>1, <3>2 DEF l
        <4>2. QED
          BY <4>1
    <2>6. QED
      BY <2>4, <2>5 DEF q, r, At
  <1>7. body \in Seq(Tokens) /\ Len(body) = l + 2 * n /\ \A i \in 1 .. l + 2 * n : body[i] = At(i)
    BY <1>2, <1>6 DEF body
  <1>8. tail \in Seq(Tokens) /\ Len(tail) = 2 /\ tail[1] = Tok("DONE", 0) /\ tail[2] = Tok("size", 0)
    BY TokShape DEF TokTypes, tail
  <1>9. /\ body \o tail \in Seq(Tokens) /\ Len(body \o tail) = l + 2 * n + 2
        /\ \A i \in 1 .. l + 2 * n : (body \o tail)[i] = At(i)
        /\ (body \o tail)[l + 2 * n + 1] = tail[1] /\ (body \o tail)[l + 2 * n + 2] = tail[2]
    <2>1. /\ body \o tail \in Seq(Tokens) /\ Len(body \o tail) = Len(body) + Len(tail)
          /\ \A i \in 1 .. Len(body) : (body \o tail)[i] = body[i]
          /\ \A i \in 1 .. Len(tail) : (body \o tail)[Len(body) + i] = tail[i]
      <3>1. body \in Seq(Tokens) /\ tail \in Seq(Tokens)
        BY <1>7, <1>8
      <3>2. QED
        BY <3>1, ConcatShape
    <2>2. 1 \in 1 .. Len(tail) /\ 2 \in 1 .. Len(tail)
      BY <1>8
    <2>3. QED
      BY <1>2, <1>7, <1>8, <2>1, <2>2
  <1>d. \A q \in 0 .. n - 1 : q \in Nat /\ q * k \in Nat /\ Mark(s, k, q + 1) \in q * k + 1 .. q * k + k /\ Mark(s, k, q) = q * k
    <2> TAKE q \in 0 .. n - 1
    <2>1. q \in Nat
      BY <1>2
    <2>2. QED
      BY <1>b, <2>1
  <1>10. ASSUME NEW q \in 0 .. n - 1, NEW r \in 0 .. Mark(s, k, q + 1) - q * k + 1
         PROVE  /\ q * w + r + 1 \in 1 .. l + 2 * n /\ q * w + r + 1 = Mark(s, k, q) + 2 * q + r + 1
                /\ At(q * w + r + 1) = CASE r = 0 -> Tok("DATA", 0)
                                         [] r = 1 -> Tok("size", Mark(s, k, q + 1) - q * k)
                                         [] OTHER -> s[q * k + r - 1]
    <2>0. q \in Nat /\ q * k \in Nat /\ Mark(s, k, q + 1) \in q * k + 1 .. q * k + k /\ Mark(s, k, q) = q * k
      BY <1>d
    <2>1. r \in 0 .. w - 1 /\ q \in Nat
      BY <2>0 DEF w
    <2>2. Q(q * w + r + 1) = q /\ R(q * w + r + 1) = r
      BY <1>4, <2>1
    <2>3. q * w + r + 1 \in 1 .. l + 2 * n /\ q * w + r + 1 = Mark(s, k, q) + 2 * q + r + 1
      <3>1. q \in 0 .. n /\ r \in Int
        BY <1>2, <2>1
      <3>2. q * w \in Int /\ q * w = q * k + 2 * q
        BY <1>3, <3>1
      <3>3. QED
        <4>1. Mark(s, k, q + 1) + 2 * q + 2 <= l + 2 * n /\ Mark(s, k, q + 1) \in Int
          BY <1>5, <2>0
        <4>2. r <= Mark(s, k, q + 1) - q * k + 1 /\ 0 <= r
          BY <2>0, <4>1
        <4>3. QED
          BY SMTT(30), <1>2, <2>0, <3>1, <3>2, <4>1, <4>2
    <2>4. Min({k, l - q * k}) = Mark(s, k, q + 1) - q * k
      BY <1>2
    <2>5. QED
      BY <2>2, <2>3, <2>4 DEF At
  <1>11. ASSUME NEW q \in 0 .. n - 1
         PROVE  /\ (body \o tail)[Mark(s, k, q) + 2 * q + 1] = Tok("DATA", 0)
                /\ (body \o tail)[Mark(s, k, q) + 2 * q + 2] = Tok("size", Mark(s, k, q + 1) - Mark(s, k, q))
                /\ \A c \in Mark(s, k, q) + 1 .. Mark(s, k, q + 1) : (body \o tail)[c + 2 * q + 2] = s[c]
    <2>1. q * k \in Nat /\ q \in Nat /\ Mark(s, k, q) = q * k /\ Mark(s, k, q + 1) \in Nat /\ Mark(s, k, q + 1) > q * k
      <3>1. q * k \in Nat /\ Mark(s, k, q) = q * k /\ Mark(s, k, q + 1) \in q * k + 1 .. q * k + k
        BY <1>2
      <3>2. QED
        BY <1>2, <3>1
    <2>2. /\ 0 \in 0 .. Mark(s, k, q + 1) - q * k + 1 /\ 1 \in 0 .. Mark(s, k, q + 1) - q * k + 1
          /\ Mark(s, k, q) + 2 * q + 0 + 1 = Mark(s, k, q) + 2 * q + 1 /\ Mark(s, k, q) + 2 * q + 1 + 1 = Mark(s, k, q) + 2 * q + 2
      BY <2>1
    <2>3. (body \o tail)[Mark(s, k, q) + 2 * q + 1] = Tok("DATA", 0)
      <3>1. At(q * w + 0 + 1) = Tok("DATA", 0) /\ q * w + 0 + 1 \in 1 .. l + 2 * n
        BY <1>10, <2>2
      <3>2. q * w + 0 + 1 = Mark(s, k, q) + 2 * q + 0 + 1
        BY <1>10, <2>2
      <3>3. QED
        BY <1>9, <2>2, <3>1, <3>2
    <2>4. (body \o tail)[Mark(s, k, q) + 2 * q + 2] = Tok("size", Mark(s, k, q + 1) - Mark(s, k, q))
      <3>1. At(q * w + 1 + 1) = Tok("size", Mark(s, k, q + 1) - q * k) /\ q * w + 1 + 1 \in 1 .. l + 2 * n
        BY <1>10, <2>2
      <3>2. q * w + 1 + 1 = Mark(s, k, q) + 2 * q + 1 + 1
        BY <1>10, <2>2
      <3>3. QED
        BY <1>9, <2>1, <2>2, <3>1, <3>2
    <2>5. ASSUME NEW c \in Mark(s, k, q) + 1 .. Mark(s, k, q + 1) PROVE (body \o tail)[c + 2 * q + 2] = s[c]
      <3> DEFINE r == c - q * k + 1
      <3>1. r \in 0 .. Mark(s, k, q + 1) - q * k + 1 /\ r # 0 /\ r # 1 /\ q * k + r - 1 = c
            /\ Mark(s, k, q) + 2 * q + r + 1 = c + 2 * q + 2
        BY <2>1
      <3> HIDE DEF r
      <3>2. At(q * w + r + 1) = s[q * k + r - 1] /\ q * w + r + 1 \in 1 .. l + 2 * n
        BY <1>10, <3>1
      <3>3. q * w + r + 1 = Mark(s, k, q) + 2 * q + r + 1
        BY <1>10, <3>1
      <3>4. QED
        BY <1>9, <3>1, <3>2, <3>3
    <2>6. QED
      BY <2>3, <2>4, <2>5
  <1>12. QED
    BY <1>1, <1>8, <1>9, <1>11 DEF n, l

-----------------------------------------------------------------------------
(* Where the callback is in the stream: headers.                           *)

\* What a packet t brings, with o behind it, when p units of e have been read.
LEMMA RestSplit ==
    ASSUME NEW t \in Seq(Tokens), NEW o \in Seq(Tokens), NEW e \in Seq(Tokens), NEW p \in Nat, RestOf(t \o o, e, p)
    PROVE  PieceAt(t, e, p) /\ RestOf(o, e, p + Len(t))
  <1>1. Len(t \o o) = Len(t) + Len(o) /\ Len(t) \in Nat /\ Len(o) \in Nat
    OBVIOUS
  <1>2. PieceAt(t \o o, e, p) /\ Len(e) = p + Len(t \o o)
    BY DEF RestOf
  <1>3. PieceAt(t, e, p) /\ PieceAt(o, e, p + Len(t))
    BY <1>2, PieceSplit
  <1>4. Len(e) = (p + Len(t)) + Len(o)
    BY <1>1, <1>2
  <1>5. QED
    BY <1>3, <1>4 DEF RestOf

LEMMA RestJoin ==
    ASSUME NEW t \in Seq(Tokens), NEW o \in Seq(Tokens), NEW e \in Seq(Tokens), NEW p \in Nat, PieceAt(t, e, p), RestOf(o, e, p + Len(t))
    PROVE  RestOf(t \o o, e, p)
  <1>1. Len(t \o o) = Len(t) + Len(o) /\ Len(t) \in Nat /\ Len(o) \in Nat
    OBVIOUS
  <1>2. PieceAt(o, e, p + Len(t)) /\ Len(e) = (p + Len(t)) + Len(o)
    BY DEF RestOf
  <1>3. PieceAt(t \o o, e, p)
    BY <1>2, PieceConcat
  <1>4. Len(e) = p + Len(t \o o)
    BY <1>1, <1>2
  <1>5. QED
    BY <1>3, <1>4 DEF RestOf

LEMMA RestCut ==
    ASSUME NEW t \in Seq(Tokens), NEW o \in Seq(Tokens), NEW e \in Seq(Tokens), NEW p \in Nat, NEW n \in 0 .. Len(t), RestOf(t \o o, e, p)
    PROVE  PieceAt(SubSeq(t, 1, n), e, p) /\ RestOf(SubSeq(t, n + 1, Len(t)) \o o, e, p + n)
  <1> DEFINE a == SubSeq(t, 1, n)  b == SubSeq(t, n + 1, Len(t))
  <1>1. PieceAt(t, e, p) /\ RestOf(o, e, p + Len(t))
    BY RestSplit
  <1>2. PieceAt(a, e, p) /\ b \in Seq(Tokens) /\ Len(b) = Len(t) - n /\ PieceAt(b, e, p + n)
    BY <1>1, PieceCut
  <1> HIDE DEF a, b
  <1>3. p + n \in Nat /\ (p + n) + Len(b) = p + Len(t)
    BY <1>2
  <1>4. RestOf(o, e, (p + n) + Len(b))
    BY <1>1, <1>3
  <1>5. RestOf(b \o o, e, p + n)
    BY <1>2, <1>3, <1>4, RestJoin
  <1>6. QED
    BY <1>2, <1>5 DEF a, b

LEMMA NothingLeft == ASSUME NEW u \in Seq(Tokens), NEW e \in Seq(Tokens), RestOf(u, e, Len(e)) PROVE u = <<>>
  <1>1. Len(u) = 0
    BY DEF RestOf
  <1>2. QED
    BY <1>1

\* A packet without end, taken from the front.
LEMMA NoMore == ASSUME NEW t \in Seq(Tokens), NEW o \in Seq(Tokens), t \o o = <<>> PROVE t = <<>> /\ o = <<>>
  <1>1. Len(t \o o) = Len(t) + Len(o) /\ Len(t) \in Nat /\ Len(o) \in Nat
    OBVIOUS
  <1>2. Len(t \o o) = 0
    OBVIOUS
  <1>3. Len(t) = 0 /\ Len(o) = 0
    BY <1>1, <1>2
  <1>4. QED
    BY <1>3

LEMMA FailShape == FailStream \in Seq(Tokens) /\ Len(FailStream) = 3 /\ FailStream[1].t = "FAIL" /\ FailStream[2].n = 1
  BY TokShape DEF FailStream, TokTypes

\* The position between two chunks, and the units up to it.
LEMMA MarkShape ==
    ASSUME NEW s \in Seq(Tokens), NEW k \in Nat \ {0}, NEW q \in 0 .. Chunks(s, k)
    PROVE  q \in Nat /\ Mark(s, k, q) \in 0 .. Len(s) /\ Mark(s, k, q) + 2 * q + 2 <= Len(SyncStream(s, k))
  <1>1. Chunks(s, k) \in Nat /\ q \in Nat /\ Len(s) \in Nat
    BY Marks
  <1>2. Mark(s, k, q) \in 0 .. Len(s)
    <2>1. CASE q = Chunks(s, k)
      BY <1>1, <2>1, Marks
    <2>2. CASE q \in 0 .. Chunks(s, k) - 1
      <3>1. Mark(s, k, q) = q * k /\ q * k \in Nat /\ q * k < Len(s)
        BY <2>2, Marks
      <3>2. QED
        BY <1>1, <3>1
    <2>3. QED
      BY <1>1, <2>1, <2>2
  <1>3. Len(SyncStream(s, k)) = Len(s) + 2 * Chunks(s, k) + 2
    BY ChunkAt
  <1>4. QED
    BY <1>1, <1>2, <1>3

\* In the middle of a header ADBFileCallback takes the packet and waits.
LEMMA HeaderWaits ==
    ASSUME NEW f, FileOK(f), NEW g, NEW t \in Seq(Tokens), NEW o \in Seq(Tokens), NEW s \in Seq(Tokens), NEW c \in Nat,
           Reading(f, t \o o, s, c), f.state = "WAIT_HEADER", Len(t) < f.remain,
           g = [f EXCEPT !.hdr = f.hdr \o t, !.remain = f.remain - Len(t)]
    PROVE  FileOK(g) /\ Reading(g, o, s, c)
  <1>1. f.hdr \in Seq(Tokens) /\ f.remain \in Nat /\ Len(t) \in Nat /\ Len(f.hdr) \in Nat
    BY DEF FileOK
  <1>2. f.hdr \o t \in Seq(Tokens) /\ Len(f.hdr \o t) = Len(f.hdr) + Len(t) /\ f.remain - Len(t) \in Nat
    BY <1>1
  <1>3. /\ FileOK(g) /\ g.state = "WAIT_HEADER" /\ g.func = f.func /\ g.hdr = f.hdr \o t /\ g.remain = f.remain - Len(t)
    BY <1>2 DEF FileOK
  <1>4. ASSUME NEW e \in Seq(Tokens), NEW p \in Nat, HeadAt(f, t \o o, e, p) PROVE HeadAt(g, o, e, p)
    <2>0. Len(f.hdr) \in {0, 1} /\ f.remain = 2 - Len(f.hdr) /\ PieceAt(f.hdr, e, p) /\ RestOf(t \o o, e, p + Len(f.hdr))
      BY <1>4 DEF HeadAt
    <2>1. PieceAt(t, e, p + Len(f.hdr)) /\ RestOf(o, e, (p + Len(f.hdr)) + Len(t)) /\ p + Len(f.hdr) \in Nat
      BY <1>1, <2>0, RestSplit
    <2>2. PieceAt(f.hdr \o t, e, p)
      BY <1>1, <2>0, <2>1, PieceConcat
    <2>3. (p + Len(f.hdr)) + Len(t) = p + Len(g.hdr)
      BY <1>1, <1>2, <1>3
    <2>4. RestOf(o, e, p + Len(g.hdr))
      BY <2>1, <2>3
    <2>5. QED
      BY SMTT(30), <1>1, <1>2, <1>3, <2>0, <2>2, <2>4 DEF HeadAt
  <1>5. CASE Requested(f, t \o o, c)
    <2>1. t = <<>> /\ o = <<>> /\ f.hdr = <<>> /\ f.remain = 2 /\ c = 0
      BY <1>5, NoMore DEF Requested
    <2>2. g.hdr = <<>> /\ g.remain = 2
      BY <1>2, <1>3, <2>1
    <2>3. Requested(g, o, c)
      BY <1>3, <2>1, <2>2 DEF Requested
    <2>4. QED
      BY <1>3, <2>3 DEF Reading
  <1>6. CASE Refused(f, t \o o)
    <2>1. HeadAt(g, o, FailStream, 0)
      BY <1>4, <1>6, FailShape DEF Refused
    <2>2. QED
      BY <1>3, <2>1 DEF Reading, Refused
  <1>7. ASSUME NEW k \in ChunkSizes, BetweenChunks(f, t \o o, s, k, c) PROVE Reading(g, o, s, c)
    <2>1. PICK q \in 0 .. Chunks(s, k) : c = Mark(s, k, q) /\ HeadAt(f, t \o o, SyncStream(s, k), c + 2 * q)
      BY <1>7 DEF BetweenChunks
    <2>2. k \in Nat \ {0} /\ SyncStream(s, k) \in Seq(Tokens) /\ c + 2 * q \in Nat
      BY <2>1, PhoneBootAssumption, ChunkAt, MarkShape
    <2>3. HeadAt(g, o, SyncStream(s, k), c + 2 * q)
      BY <1>4, <2>1, <2>2
    <2>4. BetweenChunks(g, o, s, k, c)
      BY <2>1, <2>3 DEF BetweenChunks
    <2>5. QED
      BY <2>4 DEF Reading
  <1>8. QED
    BY <1>3, <1>5, <1>6, <1>7 DEF Reading, Over, AtDone, InChunk

\* The header that packet t completes, and file f with it.
HeaderOf(f, t) == f.hdr \o SubSeq(t, 1, f.remain)
WithHeader(f, h) == [f EXCEPT !.hdr = h, !.remain = h[2].n, !.state = IF h[1].t = "FAIL" THEN "WAIT_FAIL_DATA" ELSE "WAIT_DATA"]

LEMMA HeaderTaken ==
    ASSUME NEW f, FileOK(f), NEW t \in Seq(Tokens), NEW o \in Seq(Tokens), f.remain <= Len(t), NEW e \in Seq(Tokens), NEW p \in Nat,
           HeadAt(f, t \o o, e, p)
    PROVE  /\ HeaderOf(f, t) \in Seq(Tokens) /\ Len(HeaderOf(f, t)) = 2
           /\ HeaderOf(f, t)[1] = e[p + 1] /\ HeaderOf(f, t)[2] = e[p + 2]
           /\ SubSeq(t, f.remain + 1, Len(t)) \o o \in Seq(Tokens) /\ RestOf(SubSeq(t, f.remain + 1, Len(t)) \o o, e, p + 2)
  <1> DEFINE d == f.hdr  n == f.remain  j == Len(d)  a == SubSeq(t, 1, n)  b == SubSeq(t, n + 1, Len(t))
  <1>1. d \in Seq(Tokens) /\ n \in 0 .. Len(t) /\ j \in {0, 1} /\ n = 2 - j /\ PieceAt(d, e, p) /\ RestOf(t \o o, e, p + j)
    BY DEF FileOK, HeadAt
  <1>a. HeaderOf(f, t) = d \o a
    BY DEF HeaderOf
  <1> HIDE DEF d, n
  <1>2. a \in Seq(Tokens) /\ Len(a) = n /\ b \in Seq(Tokens)
    BY <1>1, CutAndJoin
  <1>3. p + j \in Nat /\ (p + j) + n = p + 2 /\ j + n = 2
    BY <1>1
  <1>4. PieceAt(a, e, p + j) /\ RestOf(b \o o, e, (p + j) + n)
    BY <1>1, <1>3, RestCut
  <1> HIDE DEF a, b
  <1>5. PieceAt(d \o a, e, p)
    BY <1>1, <1>2, <1>4, PieceConcat
  <1>6. d \o a \in Seq(Tokens) /\ Len(d \o a) = 2
    BY <1>1, <1>2, <1>3, ConcatShape
  <1>7. 1 \in 1 .. Len(d \o a) /\ 2 \in 1 .. Len(d \o a)
    BY <1>6
  <1>8. (d \o a)[1] = e[p + 1] /\ (d \o a)[2] = e[p + 2]
    BY <1>5, <1>7 DEF PieceAt
  <1>9. b \o o \in Seq(Tokens) /\ RestOf(b \o o, e, p + 2)
    BY <1>2, <1>3, <1>4, ConcatShape
  <1>10. QED
    BY <1>a, <1>6, <1>8, <1>9 DEF b, n

LEMMA HeaderShape ==
    ASSUME NEW f, FileOK(f), NEW h \in Seq(Tokens), NEW n \in Nat, h[2].n = n
    PROVE  /\ FileOK(WithHeader(f, h)) /\ WithHeader(f, h).hdr = h /\ WithHeader(f, h).remain = n /\ WithHeader(f, h).func = f.func
           /\ WithHeader(f, h).state = IF h[1].t = "FAIL" THEN "WAIT_FAIL_DATA" ELSE "WAIT_DATA"
  BY DEF WithHeader, FileOK, FileStates

\* A complete header says what follows.
LEMMA HeaderDoneReads ==
    ASSUME NEW f, FileOK(f), NEW t \in Seq(Tokens), NEW o \in Seq(Tokens), NEW s \in Seq(Tokens), NEW c \in Nat,
           Reading(f, t \o o, s, c), f.state = "WAIT_HEADER", f.remain <= Len(t)
    PROVE  /\ FileOK(WithHeader(f, HeaderOf(f, t))) /\ Reading(WithHeader(f, HeaderOf(f, t)), SubSeq(t, f.remain + 1, Len(t)) \o o, s, c)
           /\ HeaderOf(f, t)[1].t \in {"DATA", "DONE", "FAIL"}
  <1> DEFINE h == HeaderOf(f, t)  g == WithHeader(f, h)  u == SubSeq(t, f.remain + 1, Len(t)) \o o
  <1>1. CASE Requested(f, t \o o, c)
    <2>1. t = <<>> /\ f.remain = 2
      BY <1>1, NoMore DEF Requested
    <2>2. QED
      BY <2>1
  <1>2. CASE Refused(f, t \o o)
    <2>1. HeadAt(f, t \o o, FailStream, 0)
      BY <1>2 DEF Refused
    <2>2. FailStream \in Seq(Tokens)
      BY FailShape
    <2>3. h \in Seq(Tokens) /\ h[1] = FailStream[0 + 1] /\ h[2] = FailStream[0 + 2]
      BY <2>1, <2>2, HeaderTaken
    <2> HIDE DEF h
    <2>4. h[1].t = "FAIL" /\ h[2].n = 1
      BY <2>3, FailShape
    <2>5. FileOK(g) /\ g.state = "WAIT_FAIL_DATA"
      BY <2>3, <2>4, HeaderShape
    <2>6. QED
      BY <2>4, <2>5 DEF Reading, Refused, h
  <1>3. ASSUME NEW k \in ChunkSizes, BetweenChunks(f, t \o o, s, k, c)
        PROVE  FileOK(g) /\ Reading(g, u, s, c) /\ h[1].t \in {"DATA", "DONE", "FAIL"}
    <2> DEFINE e == SyncStream(s, k)  N == Chunks(s, k)
    <2>1. PICK q \in 0 .. N : c = Mark(s, k, q) /\ HeadAt(f, t \o o, e, c + 2 * q)
      BY <1>3 DEF BetweenChunks
    <2>2. k \in Nat \ {0} /\ e \in Seq(Tokens) /\ N \in Nat
      BY PhoneBootAssumption, ChunkAt, Marks
    <2>3. q \in Nat /\ c + 2 * q \in Nat
      BY <2>2
    <2>4. /\ h \in Seq(Tokens) /\ h[1] = e[c + 2 * q + 1] /\ h[2] = e[c + 2 * q + 2] /\ u \in Seq(Tokens) /\ RestOf(u, e, c + 2 * q + 2)
      <3> DEFINE p == c + 2 * q
      <3>1. p \in Nat /\ HeadAt(f, t \o o, e, p)
        BY <2>1, <2>3
      <3> HIDE DEF e, p
      <3>2. /\ HeaderOf(f, t) \in Seq(Tokens) /\ HeaderOf(f, t)[1] = e[p + 1] /\ HeaderOf(f, t)[2] = e[p + 2]
            /\ SubSeq(t, f.remain + 1, Len(t)) \o o \in Seq(Tokens) /\ RestOf(SubSeq(t, f.remain + 1, Len(t)) \o o, e, p + 2)
        BY <2>2, <3>1, HeaderTaken
      <3>3. QED
        BY <3>2 DEF p
    <2> HIDE DEF h, u
    <2>5. CASE q = N
      <3>1. c = Len(s) /\ Len(e) = c + 2 * q + 2
        BY <2>1, <2>2, <2>5, Marks, ChunkAt
      <3>2. h[1] = Tok("DONE", 0) /\ h[2] = Tok("size", 0)
        BY <2>2, <2>4, <2>5, <3>1, ChunkAt
      <3>3. h[1].t = "DONE" /\ h[2].n = 0
        BY <3>2 DEF Tok
      <3>4. u = <<>>
        <4> HIDE DEF e
        <4>1. QED
          BY <2>2, <2>4, <3>1, NothingLeft
      <3>5. FileOK(g) /\ g.hdr = h /\ g.remain = 0 /\ g.state = "WAIT_DATA"
        BY <2>4, <3>3, HeaderShape
      <3>6. AtDone(g, u, s, c)
        BY <3>1, <3>3, <3>4, <3>5 DEF AtDone
      <3>7. QED
        BY <3>3, <3>5, <3>6 DEF Reading
    <2>6. CASE q \in 0 .. N - 1
      <3> DEFINE z == Mark(s, k, q + 1) - c
      <3>1. h[1] = Tok("DATA", 0) /\ h[2] = Tok("size", z)
        BY <2>1, <2>2, <2>4, <2>6, ChunkAt
      <3>2. z \in Nat /\ z > 0
        <4>1. Mark(s, k, q) = q * k /\ q * k \in Nat /\ Mark(s, k, q + 1) \in q * k + 1 .. q * k + k
          BY <2>2, <2>6, Marks
        <4>2. c \in Nat /\ Mark(s, k, q + 1) \in c + 1 .. c + k /\ k \in Nat
          BY <2>1, <2>2, <4>1
        <4>3. QED
          BY <4>2
      <3> HIDE DEF z
      <3>3. h[1].t = "DATA" /\ h[2].n = z
        BY <3>1 DEF Tok
      <3>4. FileOK(g) /\ g.hdr = h /\ g.remain = z /\ g.state = "WAIT_DATA"
        BY <2>4, <3>2, <3>3, HeaderShape
      <3>5. InChunk(g, u, s, k, c)
        <4>1. Mark(s, k, q) <= c
          BY <2>1
        <4>2. QED
          BY <2>4, <2>6, <3>2, <3>3, <3>4, <4>1 DEF InChunk, z
      <3>6. QED
        BY <3>3, <3>4, <3>5 DEF Reading
    <2>7. QED
      BY <2>2, <2>5, <2>6
  <1>4. QED
    BY <1>1, <1>2, <1>3 DEF Reading, Over, AtDone, InChunk

-----------------------------------------------------------------------------
(* Data of a chunk.                                                        *)

\* The units of a chunk are units of the file.
LEMMA ChunkPiece ==
    ASSUME NEW s \in Seq(Tokens), NEW k \in Nat \ {0}, NEW q \in 0 .. Chunks(s, k) - 1, NEW c \in Nat, NEW d \in Seq(Tokens),
           Mark(s, k, q) <= c, c + Len(d) <= Mark(s, k, q + 1), PieceAt(d, SyncStream(s, k), c + 2 * q + 2)
    PROVE  PieceAt(d, s, c) /\ c + Len(d) <= Len(s)
  <1> DEFINE e == SyncStream(s, k)  a == Mark(s, k, q)  b == Mark(s, k, q + 1)
  <1>1. Chunks(s, k) \in Nat /\ q \in Nat /\ Len(d) \in Nat /\ Len(s) \in Nat
    BY SMTT(30), Marks
  <1>2. a \in Nat /\ b \in Nat /\ b <= Len(s)
    <2>1. a = q * k /\ q * k \in Nat /\ b \in q * k + 1 .. q * k + k /\ b <= Len(s)
      BY Marks
    <2>2. QED
      BY <2>1
  <1>3. \A i \in a + 1 .. b : e[i + 2 * q + 2] = s[i]
    BY ChunkAt
  <1> HIDE DEF e, a, b
  <1>4. ASSUME NEW i \in 1 .. Len(d) PROVE d[i] = s[c + i]
    <2>1. c + i \in a + 1 .. b
      BY <1>1, <1>2 DEF a, b
    <2>2. e[(c + i) + 2 * q + 2] = s[c + i]
      BY <1>3, <2>1
    <2>3. (c + i) + 2 * q + 2 = c + 2 * q + 2 + i
      BY <1>1
    <2>4. d[i] = e[c + 2 * q + 2 + i]
      BY DEF PieceAt, e
    <2>5. QED
      BY <2>2, <2>3, <2>4
  <1>5. c + Len(d) <= Len(s)
    BY <1>1, <1>2 DEF b
  <1>6. QED
    BY <1>1, <1>4, <1>5 DEF PieceAt

\* What ADBFileCallback takes of packet t, and the file behind it.
WithLess(f, t, st) == [f EXCEPT !.remain = f.remain - Len(t), !.state = st]
WithChunk(f) == [f EXCEPT !.remain = 2, !.hdr = <<>>, !.state = "WAIT_HEADER"]

\* DATA, and more of the chunk to come.
LEMMA ChunkGoesOn ==
    ASSUME NEW f, FileOK(f), NEW t \in Seq(Tokens), NEW o \in Seq(Tokens), NEW s \in Seq(Tokens), NEW c \in Nat, NEW k \in ChunkSizes,
           InChunk(f, t \o o, s, k, c), Len(t) < f.remain, NEW st \in {"WAIT_DATA", "WAIT_CLOSE"}, st = "WAIT_CLOSE" => f.func # "image"
    PROVE  /\ FileOK(WithLess(f, t, st)) /\ WithLess(f, t, st).func = f.func
           /\ PieceAt(t, s, c) /\ c + Len(t) <= Len(s) /\ Reading(WithLess(f, t, st), o, s, c + Len(t))
  <1> DEFINE g == WithLess(f, t, st)  N == Chunks(s, k)
  <1>1. PICK q \in 0 .. N - 1 :
              /\ f.state = "WAIT_DATA" /\ f.hdr[1].t = "DATA"
              /\ Mark(s, k, q) <= c /\ f.remain = Mark(s, k, q + 1) - c /\ f.remain > 0
              /\ RestOf(t \o o, SyncStream(s, k), c + 2 * q + 2)
    BY DEF InChunk
  <1>2. k \in Nat \ {0} /\ SyncStream(s, k) \in Seq(Tokens) /\ N \in Nat /\ q \in Nat /\ Len(t) \in Nat
    <2>1. k \in Nat \ {0}
      BY PhoneBootAssumption
    <2>2. QED
      BY <2>1, ChunkAt, Marks
  <1>m. Mark(s, k, q) \in Int /\ Mark(s, k, q + 1) \in Int
    <2>1. Mark(s, k, q) = q * k /\ q * k \in Nat /\ Mark(s, k, q + 1) \in q * k + 1 .. q * k + k
      BY <1>2, Marks
    <2>2. QED
      BY <2>1
  <1>3. FileOK(g) /\ g.func = f.func /\ g.hdr = f.hdr /\ g.state = st /\ g.remain = f.remain - Len(t)
    <2>1. f.remain \in Nat /\ f.remain - Len(t) \in Nat
      BY <1>2 DEF FileOK
    <2>2. QED
      BY <2>1 DEF WithLess, FileOK, FileStates
  <1> HIDE DEF g
  <1>4. c + 2 * q + 2 \in Nat
    BY <1>2
  <1>5. PieceAt(t, SyncStream(s, k), c + 2 * q + 2) /\ RestOf(o, SyncStream(s, k), (c + 2 * q + 2) + Len(t))
    BY <1>1, <1>2, <1>4, RestSplit
  <1>6. c + Len(t) <= Mark(s, k, q + 1)
    BY <1>1, <1>2, <1>m
  <1>7. PieceAt(t, s, c) /\ c + Len(t) <= Len(s)
    BY <1>1, <1>2, <1>5, <1>6, ChunkPiece
  <1>8. Reading(g, o, s, c + Len(t))
    <2>1. CASE st = "WAIT_CLOSE"
      BY <1>3, <2>1 DEF Reading, Over
    <2>2. CASE st = "WAIT_DATA"
      <3> DEFINE p == c + Len(t)
      <3>1. p + 2 * q + 2 = (c + 2 * q + 2) + Len(t) /\ Mark(s, k, q) <= p /\ f.remain - Len(t) = Mark(s, k, q + 1) - p /\ f.remain - Len(t) > 0
        BY SMTT(30), <1>1, <1>2, <1>m
      <3> HIDE DEF p
      <3>2. RestOf(o, SyncStream(s, k), p + 2 * q + 2)
        BY <1>5, <3>1
      <3>3. InChunk(g, o, s, k, p)
        BY <1>1, <1>3, <2>2, <3>1, <3>2 DEF InChunk
      <3>4. QED
        BY <3>3 DEF Reading, p
    <2>3. QED
      BY <2>1, <2>2
  <1>9. QED
    BY <1>3, <1>7, <1>8 DEF g

\* DATA, and the end of the chunk.
LEMMA ChunkEnds ==
    ASSUME NEW f, FileOK(f), NEW t \in Seq(Tokens), NEW o \in Seq(Tokens), NEW s \in Seq(Tokens), NEW c \in Nat, NEW k \in ChunkSizes,
           InChunk(f, t \o o, s, k, c), f.remain <= Len(t)
    PROVE  /\ FileOK(WithChunk(f)) /\ WithChunk(f).func = f.func /\ f.remain \in 0 .. Len(t)
           /\ PieceAt(SubSeq(t, 1, f.remain), s, c) /\ c + f.remain <= Len(s)
           /\ Reading(WithChunk(f), SubSeq(t, f.remain + 1, Len(t)) \o o, s, c + f.remain)
  <1> DEFINE g == WithChunk(f)  N == Chunks(s, k)  n == f.remain  e == SyncStream(s, k)  u == SubSeq(t, n + 1, Len(t)) \o o  d == SubSeq(t, 1, n)
  <1>1. PICK q \in 0 .. N - 1 :
              /\ f.state = "WAIT_DATA" /\ f.hdr[1].t = "DATA"
              /\ Mark(s, k, q) <= c /\ n = Mark(s, k, q + 1) - c /\ n > 0
              /\ RestOf(t \o o, e, c + 2 * q + 2)
    BY DEF InChunk
  <1>2. k \in Nat \ {0} /\ e \in Seq(Tokens) /\ N \in Nat /\ q \in Nat /\ Len(t) \in Nat /\ n \in Nat /\ n \in 0 .. Len(t)
    <2>1. k \in Nat \ {0}
      BY PhoneBootAssumption
    <2>2. n \in Nat /\ Len(t) \in Nat /\ n \in 0 .. Len(t)
      BY DEF FileOK
    <2>3. e \in Seq(Tokens) /\ N \in Nat
      BY <2>1, ChunkAt, Marks
    <2>4. QED
      BY <2>1, <2>2, <2>3
  <1>m. Mark(s, k, q + 1) \in Int
    <2>1. Mark(s, k, q + 1) \in q * k + 1 .. q * k + k
      BY <1>2, Marks
    <2>2. QED
      BY <2>1
  <1>3. FileOK(g) /\ g.func = f.func /\ g.hdr = <<>> /\ g.state = "WAIT_HEADER" /\ g.remain = 2
    <2> DEFINE two == 2  st == "WAIT_HEADER"  none == <<>>
    <2>1. g = [f EXCEPT !.remain = two, !.hdr = none, !.state = st]
      BY DEF WithChunk
    <2>2. two \in Nat /\ st \in FileStates /\ none \in Seq(Tokens)
      BY DEF FileStates
    <2> HIDE DEF two, st, none, g
    <2>3. FileOK(g) /\ g.func = f.func /\ g.hdr = none /\ g.state = st /\ g.remain = two
      BY <2>1, <2>2 DEF FileOK
    <2>4. QED
      BY <2>3 DEF two, st, none
  <1> HIDE DEF g, e, u, d
  <1>4. c + 2 * q + 2 \in Nat
    BY <1>2
  <1>5. PieceAt(d, e, c + 2 * q + 2) /\ RestOf(u, e, (c + 2 * q + 2) + n)
    BY <1>1, <1>2, <1>4, RestCut DEF u, d
  <1>6. d \in Seq(Tokens) /\ Len(d) = n
    BY <1>2, CutAndJoin DEF d
  <1> HIDE DEF n
  <1>7. c + Len(d) <= Mark(s, k, q + 1)
    BY SMTT(30), <1>1, <1>2, <1>6, <1>m
  <1>8. PieceAt(d, s, c) /\ c + Len(d) <= Len(s)
    BY <1>1, <1>2, <1>5, <1>6, <1>7, ChunkPiece DEF e
  <1>9. Reading(g, u, s, c + n)
    <2> DEFINE p == c + n  r == q + 1
    <2>0. p = Mark(s, k, r)
      BY <1>1, <1>2, <1>m
    <2>1. p = Mark(s, k, r) /\ r \in 0 .. N /\ p + 2 * r = (c + 2 * q + 2) + n /\ p + 2 * r \in Nat
      <3> HIDE DEF N
      <3>1. r \in 0 .. N
        BY <1>2
      <3>2. p + 2 * r = (c + 2 * q + 2) + n /\ p + 2 * r \in Nat
        BY <1>2
      <3>3. QED
        BY <2>0, <3>1, <3>2
    <2> HIDE DEF p, r
    <2>2. RestOf(u, e, p + 2 * r)
      BY <1>5, <2>1
    <2>3. (p + 2 * r) + Len(g.hdr) = p + 2 * r /\ Len(g.hdr) = 0 /\ g.remain = 2 - Len(g.hdr)
      BY <1>3, <2>1
    <2>4. PieceAt(g.hdr, e, p + 2 * r)
      <3>1. p + 2 * r <= Len(e)
        BY <1>2, <2>1, <2>2 DEF RestOf, PieceAt
      <3>2. QED
        BY <2>1, <2>3, <3>1 DEF PieceAt
    <2>5. HeadAt(g, u, e, p + 2 * r)
      BY <1>3, <2>2, <2>3, <2>4 DEF HeadAt
    <2>6. BetweenChunks(g, u, s, k, p)
      BY <2>1, <2>5 DEF BetweenChunks, e
    <2>7. QED
      BY <2>6 DEF Reading, p
  <1>10. QED
    BY <1>2, <1>3, <1>6, <1>8, <1>9 DEF g, u, d, n

\* The request has been sent and the phone starts to answer.
LEMMA AnswerReads ==
    ASSUME NEW f, FileOK(f), f.state = "WAIT_HEADER", f.hdr = <<>>, f.remain = 2, NEW s \in Seq(Tokens)
    PROVE  /\ Reading(f, FailStream, s, 0) /\ FailStream \in Seq(Tokens)
           /\ \A k \in ChunkSizes : SyncStream(s, k) \in Seq(Tokens) /\ Reading(f, SyncStream(s, k), s, 0)
  <1>1. ASSUME NEW e \in Seq(Tokens) PROVE HeadAt(f, e, e, 0)
    <2>1. Len(f.hdr) = 0 /\ 0 + Len(f.hdr) = 0 /\ f.remain = 2 - Len(f.hdr) /\ Len(e) \in Nat
      OBVIOUS
    <2>2. RestOf(e, e, 0)
      BY <2>1 DEF RestOf, PieceAt
    <2>3. PieceAt(f.hdr, e, 0)
      BY <2>1 DEF PieceAt
    <2>4. QED
      BY <2>1, <2>2, <2>3 DEF HeadAt
  <1>2. Reading(f, FailStream, s, 0) /\ FailStream \in Seq(Tokens)
    BY <1>1, FailShape DEF Reading, Refused
  <1>3. ASSUME NEW k \in ChunkSizes PROVE SyncStream(s, k) \in Seq(Tokens) /\ Reading(f, SyncStream(s, k), s, 0)
    <2>1. k \in Nat \ {0}
      BY PhoneBootAssumption
    <2>2. SyncStream(s, k) \in Seq(Tokens) /\ Chunks(s, k) \in Nat /\ Mark(s, k, 0) = 0
      BY <2>1, ChunkAt, Marks
    <2>3. HeadAt(f, SyncStream(s, k), SyncStream(s, k), 0)
      BY <1>1, <2>2
    <2>4. 0 \in 0 .. Chunks(s, k) /\ 0 + 2 * 0 = 0
      BY <2>2
    <2>5. BetweenChunks(f, SyncStream(s, k), s, k, 0)
      BY <2>2, <2>3, <2>4 DEF BetweenChunks
    <2>6. QED
      BY <2>2, <2>5 DEF Reading
  <1>4. QED
    BY <1>2, <1>3

-----------------------------------------------------------------------------
(* The installer, with a Flash that may fail.                              *)

\* A field that starts with an address has the code of the image behind it.
LEMMA AddrThenCode ==
    ASSUME NEW v \in Versions, NEW j \in Nat, NEW b \in Seq(Tokens), Len(b) = 2, PieceAt(b, ImageFile(v), j), b[1].t = "addr"
    PROVE  b[2].n = v
  <1> DEFINE e == ImageFile(v)  m == j \div 2
  <1>1. b[1] = e[j + 1] /\ b[2] = e[j + 2] /\ j + 2 <= Len(e)
    <2>1. 1 \in 1 .. Len(b) /\ 2 \in 1 .. Len(b)
      OBVIOUS
    <2>2. QED
      BY <2>1 DEF PieceAt
  <1>2. Len(e) = 1 + 2 * Blocks(v) /\ Blocks(v) \in Nat
    BY FileShape
  <1>3. m \in Nat /\ (j = 2 * m \/ j = 2 * m + 1)
    OBVIOUS
  <1> HIDE DEF m
  <1>4. CASE j = 0
    <2>1. b[1] = Tok("IOIO", 0)
      BY <1>1, <1>4, FileShape
    <2>2. QED
      BY <2>1 DEF Tok
  <1>5. CASE j = 2 * m + 1
    <2>1. m \in 0 .. Blocks(v) - 1 /\ j + 1 = 2 + 2 * m /\ j + 2 = 3 + 2 * m
      BY <1>1, <1>2, <1>3, <1>5
    <2>2. e[3 + 2 * m] = Tok("code", v)
      BY <2>1, FileShape
    <2>3. b[2] = Tok("code", v)
      BY <1>1, <2>1, <2>2
    <2>4. QED
      BY <2>3 DEF Tok
  <1>6. CASE j = 2 * m /\ j # 0
    <2> DEFINE i == m - 1
    <2>1. i \in 0 .. Blocks(v) - 1 /\ j + 1 = 3 + 2 * i
      BY <1>1, <1>2, <1>3, <1>6
    <2> HIDE DEF i
    <2>2. e[3 + 2 * i] = Tok("code", v)
      BY <2>1, FileShape
    <2>3. b[1] = Tok("code", v)
      BY <1>1, <2>1, <2>2
    <2>4. QED
      BY <2>3 DEF Tok
  <1>7. QED
    BY <1>3, <1>4, <1>5, <1>6

\* What the installer does to application space, whatever fails.
Spares(v) ==
  /\ InstallerOK(flash', img', buf') /\ flash'.fp = flash.fp
  /\ \A b \in 0 .. NumBlocks - 1 : flash'.app[b] \in {flash.app[b], Erased, Garbage, v}

LEMMA HoldsFailing ==
    ASSUME NEW v \in Versions, NEW c \in Nat, c <= Len(ImageFile(v)), InstallerOK(flash, img, buf), Holding(img, buf, v, c),
           img.due, BlockFailed, UNCHANGED flash
    PROVE  /\ Holding(img', buf', v, c) /\ Spares(v) /\ img'.failed /\ img'.state = img.state /\ img'.buf = img.buf
           /\ img'.remaining = 0 /\ img'.last = img.last
  <1>1. img' = [img EXCEPT !.due = FALSE, !.failed = TRUE] /\ buf' = <<>> /\ ImgOK(img) /\ FlashOK(flash)
    BY DEF BlockFailed, InstallerOK
  <1>2. ImgOK(img') /\ img'.failed /\ ~img'.due /\ img'.state = img.state /\ img'.buf = img.buf /\ img'.remaining = img.remaining /\ img'.last = img.last
    BY <1>1 DEF ImgOK
  <1>3. buf' \in Seq(Tokens) /\ Len(buf') = 0
    BY <1>1
  <1>4. img.remaining = 0
    BY DEF Holding
  <1>5. Len(ImageFile(v)) \in Nat
    BY FileShape
  <1>6. Len(buf') <= c /\ PieceAt(buf', ImageFile(v), c - Len(buf'))
    BY <1>3, <1>5 DEF PieceAt
  <1>7. Holding(img', buf', v, c)
    BY <1>1, <1>2, <1>4, <1>6 DEF Holding
  <1>8. Spares(v)
    BY <1>1, <1>2, <1>3 DEF Spares, InstallerOK
  <1>9. QED
    BY <1>2, <1>4, <1>7, <1>8

LEMMA HoldsNext ==
    ASSUME NEW v \in Versions, NEW c \in Nat, c <= Len(ImageFile(v)), ImgOK(img), buf \in Seq(Tokens), Holding(img, buf, v, c),
           img.due, img' = NextField, UNCHANGED buf
    PROVE  Holding(img', buf', v, c) /\ ~img'.failed
  <1>1. /\ ImgOK(img') /\ img'.state = "WAIT_BLOCK" /\ img'.buf = <<>> /\ img'.remaining = 2 /\ ~img'.due /\ img'.failed = img.failed
    BY NextFieldShape
  <1>2. Len(buf) \in Nat /\ Len(ImageFile(v)) \in Nat /\ Len(buf) <= c /\ ~img.failed /\ PieceAt(buf, ImageFile(v), c - Len(buf))
    BY FileShape DEF Holding
  <1> DEFINE j == c - Len(buf)
  <1>3. j \in Nat /\ j <= Len(ImageFile(v))
    BY <1>2
  <1>4. Len(img'.buf) = 0
    BY <1>1
  <1>5. PieceAt(img'.buf, ImageFile(v), j) /\ j + Len(img'.buf) = c - Len(buf)
    BY <1>2, <1>3, <1>4 DEF PieceAt
  <1>6. QED
    BY <1>1, <1>2, <1>3, <1>4, <1>5 DEF Holding

LEMMA HoldsCopying ==
    ASSUME NEW v \in Versions, NEW c \in Nat, c <= Len(ImageFile(v)), InstallerOK(flash, img, buf), Holding(img, buf, v, c), CopyField
    PROVE  /\ Holding(img', buf', v, c) /\ Spares(v) /\ img'.state = img.state /\ img'.last = img.last
           /\ img.remaining = 0 => img'.remaining = 0 /\ img'.buf = img.buf
  <1> DEFINE e == ImageFile(v)  n == Min({img.remaining, Len(buf)})
             a == SubSeq(buf, 1, n)  b == SubSeq(buf, n + 1, Len(buf))  k == c - Len(buf)
  <1>1. /\ img.buf \in Seq(Tokens) /\ img.remaining \in 0 .. 2 /\ buf \in Seq(Tokens) /\ Len(buf) \in Nat /\ Len(buf) > 0
        /\ ~img.due /\ UNCHANGED flash /\ e \in Seq(Tokens) /\ FlashOK(flash) /\ ImgOK(img)
    BY FileShape DEF InstallerOK, ImgOK, CopyField
  <1>2. n = (IF img.remaining <= Len(buf) THEN img.remaining ELSE Len(buf)) /\ n \in 0 .. Len(buf) /\ n \in 0 .. 2
    <2>1. n = IF img.remaining <= Len(buf) THEN img.remaining ELSE Len(buf)
      BY SMTT(30), <1>1, MinOfTwo
    <2> HIDE DEF n, e
    <2>2. img.remaining \in 0 .. 2 /\ Len(buf) \in Nat
      BY <1>1
    <2>3. n \in 0 .. Len(buf) /\ n \in 0 .. 2
      <3>1. CASE img.remaining <= Len(buf)
        <4>1. n = img.remaining
          BY <2>1, <3>1
        <4>2. QED
          BY <2>2, <3>1, <4>1
      <3>2. CASE ~(img.remaining <= Len(buf))
        <4>1. n = Len(buf)
          BY <2>1, <3>2
        <4>2. QED
          BY <2>2, <3>2, <4>1
      <3>3. QED
        BY <3>1, <3>2
    <2>4. QED
      BY <2>1, <2>3
  <1>3. /\ img' = [img EXCEPT !.buf = img.buf \o a, !.remaining = img.remaining - n, !.due = (img.remaining = n)]
        /\ buf' = b
    BY DEF CopyField
  <1>4. PieceAt(buf, e, k) /\ k \in Nat /\ ~img.failed
    BY <1>1 DEF Holding
  <1>5. Len(img.buf) + img.remaining = IF img.state = "WAIT_BLOCK" THEN 2 ELSE 1
    BY DEF Holding
  <1>6. PICK j \in Nat : PieceAt(img.buf, e, j) /\ (img.remaining # 0 => j + Len(img.buf) = k)
    BY DEF Holding
  <1> HIDE DEF n, e, k
  <1>7. a \in Seq(Tokens) /\ Len(a) = n /\ PieceAt(a, e, k) /\ b \in Seq(Tokens) /\ Len(b) = Len(buf) - n /\ PieceAt(b, e, k + n)
    <2>1. buf \in Seq(Tokens) /\ e \in Seq(Tokens) /\ k \in Nat /\ n \in 0 .. Len(buf) /\ PieceAt(buf, e, k)
      BY <1>1, <1>2, <1>4
    <2>2. /\ SubSeq(buf, 1, n) \in Seq(Tokens) /\ Len(SubSeq(buf, 1, n)) = n /\ PieceAt(SubSeq(buf, 1, n), e, k)
          /\ SubSeq(buf, n + 1, Len(buf)) \in Seq(Tokens) /\ Len(SubSeq(buf, n + 1, Len(buf))) = Len(buf) - n
          /\ PieceAt(SubSeq(buf, n + 1, Len(buf)), e, k + n)
      BY <2>1, PieceCut
    <2>3. QED
      BY <2>2
  <1> HIDE DEF a, b
  <1>8. img.buf \o a \in Seq(Tokens) /\ Len(img.buf \o a) = Len(img.buf) + n
    BY <1>1, <1>7, ConcatShape
  <1>9. /\ img'.buf = img.buf \o a /\ img'.remaining = img.remaining - n /\ (img'.due <=> img.remaining = n)
        /\ img'.state = img.state /\ img'.last = img.last /\ img'.failed = img.failed /\ ImgOK(img')
    <2>1. img.remaining - n \in 0 .. 2
      BY <1>1, <1>2
    <2>2. QED
      BY <1>1, <1>3, <1>8, <2>1 DEF ImgOK
  <1>10. img.remaining = 0 => n = 0 /\ img'.remaining = 0 /\ img'.buf = img.buf
    <2>1. SUFFICES ASSUME img.remaining = 0 PROVE n = 0 /\ img'.remaining = 0 /\ img'.buf = img.buf
      OBVIOUS
    <2>2. n = 0
      BY <1>1, <1>2, <2>1
    <2>3. a = <<>>
      BY <1>7, <2>2
    <2>4. QED
      BY <1>1, <1>9, <2>1, <2>2, <2>3, ConcatNothing
  <1>11. PieceAt(img'.buf, e, j) /\ (img'.remaining # 0 => j + Len(img'.buf) = c - Len(buf'))
    <2>1. CASE img.remaining = 0
      BY <1>6, <1>10, <2>1
    <2>2. CASE img.remaining # 0
      <3>1. PieceAt(a, e, j + Len(img.buf))
        BY <1>6, <1>7, <2>2
      <3>2. PieceAt(img.buf \o a, e, j)
        BY <1>1, <1>6, <1>7, <3>1, PieceConcat
      <3>3. j + Len(img'.buf) = c - Len(buf')
        <4>1. Len(img.buf) \in Nat /\ n \in Nat /\ Len(buf) \in Nat
          BY <1>1, <1>2
        <4>2. Len(img'.buf) = Len(img.buf) + n /\ Len(buf') = Len(buf) - n /\ j + Len(img.buf) = c - Len(buf)
          BY <1>3, <1>6, <1>7, <1>8, <1>9, <2>2 DEF k
        <4>3. QED
          BY <4>1, <4>2
      <3>4. QED
        BY <1>9, <3>2, <3>3
    <2>3. QED
      BY <2>1, <2>2
  <1>12. Len(buf') <= c /\ PieceAt(buf', e, c - Len(buf'))
    <2>1. c - Len(buf') = k + n /\ Len(buf') <= c
      <3>1. n \in Nat /\ c \in Nat /\ c - Len(buf) \in Nat
        BY <1>2, <1>4, FileShape DEF k
      <3>2. QED
        BY <1>1, <1>3, <1>7, <3>1 DEF k
    <2>2. QED
      BY <1>3, <1>7, <2>1
  <1>13. Len(img'.buf) + img'.remaining = (IF img'.state = "WAIT_BLOCK" THEN 2 ELSE 1) /\ (img'.due => img'.remaining = 0)
    <2>1. Len(img.buf) \in Nat /\ n \in Nat /\ img.remaining \in Nat
      BY <1>1, <1>2
    <2>2. Len(img'.buf) + img'.remaining = Len(img.buf) + img.remaining
      BY <1>8, <1>9, <2>1
    <2>3. QED
      BY <1>5, <1>9, <2>1, <2>2
  <1>14. Holding(img', buf', v, c)
    BY <1>4, <1>9, <1>11, <1>12, <1>13 DEF Holding, e
  <1>15. Spares(v)
    BY <1>1, <1>3, <1>7, <1>9 DEF Spares, InstallerOK
  <1>16. QED
    BY <1>9, <1>10, <1>14, <1>15

\* A block of the application, rewritten.
LEMMA AppShape ==
    ASSUME FlashOK(flash), NEW a \in [0 .. NumBlocks - 1 -> Int], flash' = [flash EXCEPT !.app = a]
    PROVE  FlashOK(flash') /\ flash'.app = a /\ flash'.fp = flash.fp /\ flash'.tun = flash.tun
  BY DEF FlashOK

LEMMA HoldsErasing ==
    ASSUME NEW v \in Versions, NEW c \in Nat, c <= Len(ImageFile(v)), InstallerOK(flash, img, buf), Holding(img, buf, v, c),
           flash' = ErasedPage(flash, PageOf(Address)), img' = [img EXCEPT !.last = PageOf(Address)], UNCHANGED buf, Address \in 0 .. NumBlocks - 1
    PROVE  Holding(img', buf', v, c) /\ Spares(v) /\ img'.failed = img.failed
  <1> DEFINE p == PageOf(Address)  a == [b \in DOMAIN flash.app |-> IF PageOf(b) = p THEN Erased ELSE flash.app[b]]
  <1>1. FlashOK(flash) /\ ImgOK(img) /\ buf \in Seq(Tokens)
    BY DEF InstallerOK
  <1>2. p \in Int
    <2>1. Address \in Nat
      BY IoioFileAssumption
    <2>2. QED
      BY <2>1, PagesArePositive
  <1>3. /\ ImgOK(img') /\ img'.state = img.state /\ img'.buf = img.buf /\ img'.remaining = img.remaining /\ img'.due = img.due
        /\ img'.failed = img.failed
    <2> HIDE DEF p
    <2>1. img' = [img EXCEPT !.last = p]
      BY DEF p
    <2>2. QED
      BY <1>1, <1>2, <2>1 DEF ImgOK
  <1>4. flash.app \in [0 .. NumBlocks - 1 -> Int] /\ DOMAIN flash.app = 0 .. NumBlocks - 1 /\ Erased \in Int
    BY <1>1 DEF FlashOK, Erased
  <1>5. a \in [0 .. NumBlocks - 1 -> Int] /\ \A b \in 0 .. NumBlocks - 1 : a[b] \in {flash.app[b], Erased}
    <2> HIDE DEF p
    <2>1. \A b \in 0 .. NumBlocks - 1 : flash.app[b] \in Int
      BY <1>4
    <2>2. QED
      BY <1>4, <2>1
  <1>6. flash' = [flash EXCEPT !.app = a]
    BY DEF ErasedPage
  <1> HIDE DEF a
  <1>7. FlashOK(flash') /\ flash'.app = a /\ flash'.fp = flash.fp
    BY <1>1, <1>5, <1>6, AppShape
  <1>8. Holding(img', buf', v, c)
    BY <1>3 DEF Holding
  <1>9. Spares(v)
    BY <1>1, <1>3, <1>5, <1>7 DEF Spares, InstallerOK
  <1>10. QED
    BY <1>3, <1>8, <1>9

LEMMA HoldsWriting ==
    ASSUME NEW v \in Versions, NEW c \in Nat, c <= Len(ImageFile(v)), InstallerOK(flash, img, buf), Holding(img, buf, v, c),
           img.due, img.state = "WAIT_BLOCK", ~AddressRefused,
           flash' = WrittenBlock(flash, Address, img.buf[2].n), img' = NextField, UNCHANGED buf
    PROVE  Holding(img', buf', v, c) /\ Spares(v) /\ ~img'.failed
  <1>1. FlashOK(flash) /\ ImgOK(img) /\ buf \in Seq(Tokens) /\ img.buf \in Seq(Tokens)
    BY DEF InstallerOK, ImgOK
  <1>2. Address \in 0 .. NumBlocks - 1 /\ img.buf[1].t = "addr"
    BY DEF AddressRefused
  <1>3. img.buf[2].n = v
    <2>1. PICK j \in Nat : PieceAt(img.buf, ImageFile(v), j)
      BY DEF Holding
    <2>2. Len(img.buf) = 2
      <3>1. Len(img.buf) + img.remaining = 2 /\ img.remaining = 0 /\ Len(img.buf) \in Nat
        BY <1>1 DEF Holding
      <3>2. QED
        BY <3>1
    <2>3. QED
      BY <1>1, <1>2, <2>1, <2>2, AddrThenCode
  <1>4. flash.app \in [0 .. NumBlocks - 1 -> Int] /\ Garbage \in Int /\ v \in Int
    BY <1>1, FileShape DEF FlashOK, Garbage
  <1> DEFINE w == Word(flash.app[Address], v)  a == [flash.app EXCEPT ![Address] = w]
  <1>5. w \in Int /\ w \in {Garbage, v}
    BY <1>4 DEF Word
  <1>6. flash' = [flash EXCEPT !.app = a]
    BY <1>3 DEF WrittenBlock
  <1> HIDE DEF w
  <1>7. a \in [0 .. NumBlocks - 1 -> Int] /\ \A b \in 0 .. NumBlocks - 1 : a[b] = IF b = Address THEN w ELSE flash.app[b]
    BY <1>2, <1>4, <1>5
  <1> HIDE DEF a
  <1>8. FlashOK(flash') /\ flash'.app = a /\ flash'.fp = flash.fp
    BY <1>1, <1>6, <1>7, AppShape
  <1>9. Holding(img', buf', v, c) /\ ~img'.failed /\ ImgOK(img')
    BY <1>1, HoldsNext, NextFieldShape
  <1>10. \A b \in 0 .. NumBlocks - 1 : flash'.app[b] \in {flash.app[b], Erased, Garbage, v}
    BY <1>5, <1>7, <1>8
  <1>11. QED
    BY <1>1, <1>8, <1>9, <1>10 DEF Spares, InstallerOK

\* One step of IOIOFileHandleBuffer.
LEMMA ImageStep ==
    ASSUME NEW v \in Versions, NEW c \in Nat, c <= Len(ImageFile(v)), InstallerOK(flash, img, buf), Installs(v, c), HandleBuffer(PhoneFlashFails)
    PROVE  Installs(v, c)' /\ Spares(v)
  <1>1. Holding(img, buf, v, c) /\ FlashOK(flash) /\ ImgOK(img) /\ buf \in Seq(Tokens)
    BY DEF Installs, InstallerOK
  <1>2. CASE CopyField
    <2>1. /\ Holding(img', buf', v, c) /\ Spares(v) /\ img'.state = img.state /\ img'.last = img.last
          /\ img.remaining = 0 => img'.remaining = 0 /\ img'.buf = img.buf
      BY <1>1, <1>2, HoldsCopying
    <2>2. Stuck => Stuck'
      BY <2>1 DEF Stuck, AddressRefused, Address
    <2>3. ~img'.failed
      BY <1>1, <1>2 DEF CopyField, Holding, ImgOK
    <2>4. QED
      <3>1. c - Len(buf) \in Nat
        BY <1>1 DEF Holding
      <3>2. AtWork(flash, img, buf, v, c - Len(buf)) => AtWork(flash, img, buf, v, c - Len(buf))'
        <4>1. SUFFICES ASSUME AtWork(flash, img, buf, v, c - Len(buf)) PROVE AtWork(flash', img', buf', v, c - Len(buf'))
          OBVIOUS
        <4>2. GoesOn(v, c - Len(buf))
          BY <1>2, <3>1, <4>1, CopyInstalls
        <4>3. PICK d \in Nat : AtWork(flash', img', buf', v, d) /\ d + Len(buf') = c - Len(buf) + Len(buf)
          BY <2>3, <4>2 DEF GoesOn
        <4>4. buf' \in Seq(Tokens)
          BY <2>1 DEF Spares, InstallerOK
        <4>5. d = c - Len(buf')
          BY <1>1, <4>3, <4>4
        <4>6. QED
          BY <4>3, <4>5
      <3>3. QED
        BY <2>1, <2>2, <3>2 DEF Installs
  <1>3. CASE BlockRefused
    <2>1. /\ Holding(img', buf', v, c) /\ Spares(v) /\ img'.state = img.state /\ img'.buf = img.buf
          /\ img'.remaining = 0 /\ img'.last = img.last
      BY <1>1, <1>3, HoldsFailing DEF BlockRefused
    <2>2. Stuck'
      BY <1>3, <2>1 DEF BlockRefused, Stuck, AddressRefused, Address
    <2>3. QED
      BY <2>1, <2>2 DEF Installs
  <1>4. CASE HeaderDone \/ ErasePage(PhoneFlashFails) \/ WriteBlock(PhoneFlashFails)
    <2>1. Holding(img', buf', v, c) /\ Spares(v)
      <3>0. img.due
        BY <1>4 DEF HeaderDone, ErasePage, WriteBlock
      <3>1. CASE BlockFailed /\ UNCHANGED flash
        BY <1>1, <3>0, <3>1, HoldsFailing
      <3>2. CASE HeaderDone /\ ~BlockFailed
        <4>1. img' = NextField /\ UNCHANGED <<buf, flash>>
          BY <3>2 DEF HeaderDone
        <4>2. Holding(img', buf', v, c) /\ ImgOK(img')
          BY <1>1, <3>0, <4>1, HoldsNext, NextFieldShape
        <4>3. QED
          BY <1>1, <4>1, <4>2 DEF Spares, InstallerOK
      <3>3. CASE ErasePage(PhoneFlashFails) /\ ~(BlockFailed /\ UNCHANGED flash)
        <4>1. /\ flash' = ErasedPage(flash, PageOf(Address)) /\ img' = [img EXCEPT !.last = PageOf(Address)] /\ UNCHANGED buf
              /\ Address \in 0 .. NumBlocks - 1
          BY <3>3 DEF ErasePage, AddressRefused
        <4>2. QED
          BY <1>1, <4>1, HoldsErasing
      <3>4. CASE WriteBlock(PhoneFlashFails) /\ ~(BlockFailed /\ UNCHANGED flash)
        <4>1. /\ flash' = WrittenBlock(flash, Address, img.buf[2].n) /\ img' = NextField /\ UNCHANGED buf
              /\ img.state = "WAIT_BLOCK" /\ ~AddressRefused
          BY <3>4 DEF WriteBlock
        <4>2. QED
          BY <1>1, <3>0, <4>1, HoldsWriting
      <3>5. QED
        BY <1>4, <3>1, <3>2, <3>3, <3>4 DEF HeaderDone
    <2>2. ASSUME ~PhoneFlashFails PROVE AtWork(flash, img, buf, v, c - Len(buf))'
      <3>0. c - Len(buf) \in Nat
        BY <1>1 DEF Holding
      <3>1. ~Stuck
        BY <1>4 DEF Stuck, HeaderDone, ErasePage, WriteBlock
      <3>2. AtWork(flash, img, buf, v, c - Len(buf))
        BY <2>2, <3>1 DEF Installs
      <3>3. GoesOn(v, c - Len(buf))
        BY <1>4, <3>0, <3>2, HeaderInstalls, EraseInstalls, WriteInstalls
      <3>4. ~img'.failed
        <4>0. ~img.failed
          BY <3>2 DEF AtWork
        <4>1. CASE HeaderDone
          <5>1. Len(img.buf) = 1 /\ PieceAt(img.buf, ImageFile(v), 0)
            BY <3>2, <4>1 DEF AtWork, Installing, InHeader, InBlock, HeaderDone
          <5>2. img.buf[1] = Tok("IOIO", 0)
            BY <5>1, FileShape DEF PieceAt
          <5>3. img' = NextField
            BY <4>1, <5>2 DEF HeaderDone, Tok
          <5>4. QED
            BY <1>1, <4>0, <5>3, NextFieldShape
        <4>2. CASE ErasePage(PhoneFlashFails)
          BY <1>1, <2>2, <4>0, <4>2 DEF ErasePage, ImgOK
        <4>3. CASE WriteBlock(PhoneFlashFails)
          BY <1>1, <2>2, <4>0, <4>3, NextFieldShape DEF WriteBlock
        <4>4. QED
          BY <1>4, <4>1, <4>2, <4>3
      <3>5. PICK d \in Nat : AtWork(flash', img', buf', v, d) /\ d + Len(buf') = c - Len(buf) + Len(buf)
        BY <3>3, <3>4 DEF GoesOn
      <3>6. buf' \in Seq(Tokens)
        BY <2>1 DEF Spares, InstallerOK
      <3>7. d = c - Len(buf')
        BY <1>1, <3>5, <3>6
      <3>8. QED
        BY <3>5, <3>7
    <2>3. QED
      BY <2>1, <2>2 DEF Installs
  <1>5. QED
    BY <1>2, <1>3, <1>4 DEF HandleBuffer

\* Data handed on to the installer.
LEMMA ImageHandedOn ==
    ASSUME NEW v \in Versions, NEW c \in Nat, InstallerOK(flash, img, buf), Installs(v, c), HandleBufferDone, ~img.failed,
           NEW d \in Seq(Tokens), PieceAt(d, ImageFile(v), c), UNCHANGED <<flash, img>>, buf' = d
    PROVE  Installs(v, c + Len(d))'
  <1>1. buf = <<>> /\ Len(buf) = 0 /\ c - Len(buf) = c /\ Len(d) \in Nat
    BY DEF HandleBufferDone
  <1>2. Len(d) <= c + Len(d) /\ (c + Len(d)) - Len(d) = c
    BY <1>1
  <1>3. Holding(img', buf', v, c + Len(d))
    <2>1. Len(buf') <= c + Len(d) /\ PieceAt(buf', ImageFile(v), (c + Len(d)) - Len(buf'))
      BY <1>2
    <2>2. /\ Len(img.buf) + img.remaining = IF img.state = "WAIT_BLOCK" THEN 2 ELSE 1
          /\ \E j \in Nat : PieceAt(img.buf, ImageFile(v), j) /\ (img.remaining # 0 => j + Len(img.buf) = c)
          /\ img.due => img.remaining = 0
      BY <1>1 DEF Installs, Holding
    <2>3. QED
      BY <1>2, <2>1, <2>2 DEF Holding
  <1>4. AtWork(flash, img, buf, v, c - Len(buf)) => AtWork(flash', img', buf', v, (c + Len(d)) - Len(buf'))
    <2>1. SUFFICES ASSUME AtWork(flash, img, buf, v, c) PROVE AtWork(flash, img, d, v, c)
      BY <1>1, <1>2
    <2>2. QED
      BY <2>1 DEF AtWork, InstallerOK
  <1>5. Stuck => Stuck'
    BY DEF Stuck, AddressRefused, Address
  <1>6. QED
    BY <1>3, <1>4, <1>5 DEF Installs

\* The main loop has seen the failure.
LEMMA ImageErrorSeen ==
    ASSUME NEW v \in Versions, NEW c \in Nat, InstallerOK(flash, img, buf), Installs(v, c), img.failed,
           UNCHANGED <<flash, buf>>, img' = [img EXCEPT !.failed = FALSE]
    PROVE  Installs(v, c)' /\ InstallerOK(flash', img', buf')
  <1>1. ImgOK(img)
    BY DEF InstallerOK
  <1>2. /\ ImgOK(img') /\ img'.state = img.state /\ img'.buf = img.buf /\ img'.remaining = img.remaining /\ img'.due = img.due
        /\ ~img'.failed /\ img'.last = img.last
    BY <1>1 DEF ImgOK
  <1>3. Holding(img', buf', v, c)
    BY <1>2 DEF Installs, Holding
  <1>4. Stuck => Stuck'
    BY <1>2 DEF Stuck, AddressRefused, Address
  <1>5. ~AtWork(flash, img, buf, v, c - Len(buf))
    BY DEF AtWork
  <1>6. QED
    BY <1>2, <1>3, <1>4, <1>5 DEF Installs, InstallerOK

\* IOIOFileInit.
LEMMA ImageStarts ==
    ASSUME NEW v \in Versions, FlashOK(flash'), img' = Idle, buf' = <<>>
    PROVE  Installs(v, 0)' /\ InstallerOK(flash', img', buf')
  <1>1. Idle.state = "WAIT_HEADER" /\ Idle.buf = <<>> /\ Idle.remaining = 1 /\ Idle.last = NoAddress /\ ~Idle.due /\ ~Idle.failed /\ ImgOK(Idle)
    BY Beginnings DEF Idle
  <1>2. Len(ImageFile(v)) \in Nat
    BY FileShape
  <1>3. Len(<<>>) = 0 /\ PieceAt(<<>>, ImageFile(v), 0) /\ <<>> \in Seq(Tokens)
    BY <1>2 DEF PieceAt
  <1>4. Holding(img', buf', v, 0)
    <2>1. 0 \in Nat /\ 0 - Len(buf') = 0 /\ Len(buf') <= 0
      <3>1. Len(buf') = 0
        BY <1>3
      <3> DEFINE l == Len(buf')
      <3> HIDE DEF l
      <3>2. l = 0 => 0 - l = 0 /\ l <= 0
        OBVIOUS
      <3>3. QED
        BY <3>1, <3>2 DEF l
    <2>2. PieceAt(img'.buf, ImageFile(v), 0) /\ 0 + Len(img'.buf) = 0
      BY <1>1, <1>3
    <2>3. QED
      BY <1>1, <1>3, <2>1, <2>2 DEF Holding
  <1>5. InHeader(img', v, 0)
    BY <1>1, <1>3 DEF InHeader
  <1>6. InstallerOK(flash', img', buf')
    BY <1>1, <1>3 DEF InstallerOK
  <1>7. AtWork(flash', img', buf', v, 0 - Len(buf'))
    BY <1>1, <1>3, <1>5, <1>6 DEF AtWork, Installing
  <1>8. QED
    BY <1>4, <1>6, <1>7 DEF Installs

-----------------------------------------------------------------------------
(* Steps that do not touch the file.                                       *)

LEMMA FilesShape ==
    ASSUME NEW v \in Versions, NEW ok \in BOOLEAN, NEW func \in {"fp", "packages", "image"}
    PROVE  FileOf(v, ok, func) \in Seq(Tokens)
  <1>1. v \in Int
    BY FileShape
  <1>2. CASE func = "fp"
    <2>1. Tok("word", v) \in Tokens /\ FpWords \in Nat
      BY <1>1, TokShape, IoioFileAssumption DEF TokTypes
    <2>2. [i \in 1 .. FpWords |-> Tok("word", v)] \in Seq(Tokens)
      BY <2>1
    <2>3. QED
      BY <1>2, <2>2 DEF FileOf
  <1>3. CASE func = "packages"
    <2>1. Tok("text", 0) \in Tokens /\ \A i \in Int : Tok("cert", i) \in Tokens
      BY TokShape DEF TokTypes
    <2> DEFINE n == IF ok THEN 1 ELSE 0
    <2>2. n \in Int
      OBVIOUS
    <2> HIDE DEF n
    <2>3. <<Tok("text", 0), Tok("cert", n), Tok("text", 0)>> \in Seq(Tokens)
      BY <2>1, <2>2
    <2>4. QED
      BY <1>3, <2>3 DEF FileOf, n
  <1>4. CASE func = "image"
    BY <1>4, FileShape DEF FileOf
  <1>5. QED
    BY <1>2, <1>3, <1>4

LEMMA ContentIsFile ==
    ASSUME NEW func \in {"fp", "packages", "image"} PROVE Content(func) = FileOf(Phone.version, Phone.authentic, func)
  BY DEF Content, FileOf

\* The parts of PhoneInv.
LEMMA Parts ==
    ASSUME PhoneInv
    PROVE  /\ InstallerOK(flash, img, buf) /\ FlashOK(flash) /\ ImgOK(img) /\ buf \in Seq(Tokens) /\ PmOK /\ FileOK(file) /\ PktOK /\ ChanOK /\ OutOK
           /\ conn \in {"DISCONNECTED", "WAIT_ATTACH", "WAIT_CONNECT", "CONNECTED"} /\ peer \in {"none", "other"} \cup DOMAIN Phones
           /\ ChannelInStep /\ LoopInStep /\ InstalledIsAuthentic /\ (~PhoneFlashFails => Means(flash))
           /\ \E v \in Versions, ok \in BOOLEAN : Followed(v, ok) /\ Knows(v, ok) /\ FollowsFile(v, ok)
  BY MeansIsMeans DEF PhoneInv, PhoneTypeOK, InstallerOK, InStep

LEMMA ComingShape == ASSUME PktOK, OutOK PROVE pkt.toks \in Seq(Tokens) /\ out["sync"].toks \in Seq(Tokens) /\ Coming \in Seq(Tokens)
  <1>1. pkt.toks \in Seq(Tokens) /\ out["sync"].toks \in Seq(Tokens)
    BY DEF PktOK, OutOK, Chans
  <1>2. QED
    BY <1>1, ConcatShape DEF Coming

\* The sync channel, the file and what comes are as they were.
SameStream == file' = file /\ pkt' = pkt /\ chan'["sync"] = chan["sync"] /\ out'["sync"] = out["sync"] /\ pm'.auth = pm.auth

LEMMA SameChannel == ASSUME SameStream, ChannelInStep PROVE ChannelInStep' /\ Coming' = Coming /\ (Closed' <=> Closed) /\ SyncState' = SyncState
  <1>1. Coming' = Coming /\ SyncState' = SyncState
    BY DEF SameStream, Coming, SyncState
  <1>2. Closed' <=> Closed
    BY <1>1 DEF SameStream, Closed
  <1>3. ChannelInStep'
    BY <1>1, <1>2 DEF SameStream, ChannelInStep
  <1>4. QED
    BY <1>1, <1>2, <1>3

LEMMA SameInstaller == ASSUME UNCHANGED fVars, NEW v, NEW c, Installs(v, c) PROVE Installs(v, c)'
  <1>1. flash' = flash /\ img' = img /\ buf' = buf
    BY DEF fVars
  <1>2. Stuck => Stuck'
    BY <1>1 DEF Stuck, AddressRefused, Address
  <1>3. QED
    BY <1>1, <1>2 DEF Installs

LEMMA SameFollows ==
    ASSUME UNCHANGED fVars, SameStream, NEW v, NEW ok, FollowsFile(v, ok) PROVE FollowsFile(v, ok)'
  <1>1. Coming' = Coming /\ SyncState' = SyncState /\ file' = file /\ pkt' = pkt /\ pm'.auth = pm.auth
    BY DEF SameStream, Coming, SyncState
  <1>2. CASE file.func = "none"
    BY <1>1, <1>2 DEF FollowsFile
  <1>3. CASE file.func # "none"
    <2> DEFINE s == FileOf(v, ok, file.func)
    <2>1. PICK c \in Nat : c <= Len(s) /\ FollowsAt(v, s, c)
      BY <1>3 DEF FollowsFile
    <2>2. FollowsAt(v, s, c)'
      <3> HIDE DEF s
      <3>1. file.func = "image" => Installs(v, c)'
        BY <2>1, SameInstaller DEF FollowsAt
      <3>2. Reading(file', Coming', s, c) \/ Astray'
        BY <1>1, <2>1 DEF FollowsAt, Astray
      <3>3. s' = s
        BY <1>1 DEF s
      <3>4. QED
        BY <1>1, <3>1, <3>2, <3>3 DEF FollowsAt
    <2>3. QED
      BY <1>1, <2>1, <2>2 DEF FollowsFile
  <1>4. QED
    BY <1>2, <1>3

\* A step of the loop that does not touch the file.
LEMMA LoopKeeps ==
    ASSUME PhoneInv, UNCHANGED <<fVars, file, pkt>>, ChanOK', OutOK', chan'["sync"] = chan["sync"], out'["sync"] = out["sync"],
           NEW p, NEW s, pm' = [pm EXCEPT !.pc = p, !.state = s],
           \/ p = pm.pc /\ s = pm.state
           \/ /\ p \in {"conn", "chan", "main", "app"} /\ pm.pc # "write" /\ s \in MainStates
              /\ s = pm.state \/ s \notin Between,
           p # "chan" => ~InCall,
           conn' \in {"DISCONNECTED", "WAIT_ATTACH", "WAIT_CONNECT", "CONNECTED"}, peer' \in {"none", "other"} \cup DOMAIN Phones,
           Attached' /\ conn' # "DISCONNECTED" => peer' = peer /\ conn # "DISCONNECTED",
           Attached' /\ conn' = "DISCONNECTED" => p = "conn" /\ s = "WAIT_CONNECT",
           Attached' /\ conn' # "DISCONNECTED" /\ s \in Early => Closed,
           peer' = "other" => s \in {"WAIT_CONNECT", "RUN_APP"}
    PROVE  PhoneInv'
  <1>0. flash' = flash /\ img' = img /\ buf' = buf /\ file' = file /\ pkt' = pkt
    BY DEF fVars
  <1>1. /\ PmOK' /\ pm'.pc = p /\ pm'.state = s /\ pm'.auth = pm.auth /\ pm'.fp = pm.fp /\ pm'.written = pm.written /\ pm'.bad = pm.bad
    <2>1. PmOK
      BY Parts
    <2>2. p \in {"conn", "chan", "main", "write", "app"} /\ s \in MainStates
      BY <2>1 DEF PmOK
    <2>3. QED
      BY <2>1, <2>2 DEF PmOK
  <1>2. SameStream
    BY <1>0, <1>1 DEF SameStream
  <1>3. PhoneTypeOK'
    BY <1>0, <1>1, Parts DEF PhoneTypeOK, FileOK, PktOK
  <1>4. ChannelInStep' /\ (Closed' <=> Closed)
    BY <1>2, SameChannel, Parts
  <1>5. LoopInStep'
    <2>1. InCall' <=> InCall
      BY <1>0 DEF InCall, HandleBufferDone
    <2>2. LoopInStep
      BY Parts
    <2>3. (pm'.pc = "write" => pm'.state = "RECV_IMAGE_DONE") /\ (pm'.pc # "write" => pm'.written = 0)
      BY <1>1, <2>2 DEF LoopInStep
    <2>4. pm'.state \in Between => Closed'
      BY <1>1, <1>4, <2>2 DEF LoopInStep
    <2>5. (file.func # "image" => HandleBufferDone /\ ~img.failed)'
      BY <1>0, <2>2 DEF LoopInStep, HandleBufferDone
    <2>6. QED
      BY <1>1, <1>4, <2>1, <2>3, <2>4, <2>5 DEF LoopInStep
  <1>6. InstalledIsAuthentic' /\ (~PhoneFlashFails => FingerprintMeansImage)'
    BY <1>0 DEF PhoneInv, InstalledIsAuthentic, FingerprintMeansImage
  <1>7. PICK v \in Versions, ok \in BOOLEAN : Followed(v, ok) /\ Knows(v, ok) /\ FollowsFile(v, ok)
    BY Parts
  <1>8. Followed(v, ok)'
    <2>1. SUFFICES ASSUME Attached', conn' # "DISCONNECTED" PROVE Phone'.version = v /\ Phone'.authentic = ok
      BY <1>7 DEF Followed
    <2>2. peer' = peer /\ conn # "DISCONNECTED" /\ Attached /\ Phone' = Phone
      BY <2>1 DEF Attached, Phone
    <2>3. QED
      BY <1>7, <2>2 DEF Followed
  <1>9. Knows(v, ok)'
    <2>1. pm'.state \in Between => pm.state = pm'.state
      BY <1>1
    <2>2. "AUTH_PASSED" \in Between /\ "RECV_IMAGE_DONE" \in Between
      BY DEF Between
    <2>3. QED
      BY <1>0, <1>1, <1>7, <2>1, <2>2 DEF Knows, PrintOf, FpErased
  <1>10. FollowsFile(v, ok)'
    BY <1>2, <1>7, SameFollows
  <1>11. QED
    BY <1>3, <1>4, <1>5, <1>6, <1>8, <1>9, <1>10 DEF PhoneInv, InStep

LEMMA SameState == ASSUME PmOK, NEW p PROVE [pm EXCEPT !.pc = p] = [pm EXCEPT !.pc = p, !.state = pm.state]
  BY DEF PmOK

LEMMA SamePm == ASSUME PmOK PROVE pm = [pm EXCEPT !.pc = pm.pc, !.state = pm.state]
  BY DEF PmOK

\* The same, with the channels as they were.
LEMMA QuietKeeps ==
    ASSUME PhoneInv, UNCHANGED <<fVars, chan, file, pkt, out>>,
           NEW p, NEW s, pm' = [pm EXCEPT !.pc = p, !.state = s],
           \/ p = pm.pc /\ s = pm.state
           \/ /\ p \in {"conn", "chan", "main", "app"} /\ pm.pc # "write" /\ s \in MainStates
              /\ s = pm.state \/ s \notin Between,
           p # "chan" => ~InCall,
           conn' \in {"DISCONNECTED", "WAIT_ATTACH", "WAIT_CONNECT", "CONNECTED"}, peer' \in {"none", "other"} \cup DOMAIN Phones,
           Attached' /\ conn' # "DISCONNECTED" => peer' = peer /\ conn # "DISCONNECTED",
           Attached' /\ conn' = "DISCONNECTED" => p = "conn" /\ s = "WAIT_CONNECT",
           Attached' /\ conn' # "DISCONNECTED" /\ s \in Early => Closed,
           peer' = "other" => s \in {"WAIT_CONNECT", "RUN_APP"}
    PROVE  PhoneInv'
  <1>1. ChanOK' /\ OutOK' /\ chan'["sync"] = chan["sync"] /\ out'["sync"] = out["sync"]
    BY Parts DEF ChanOK, OutOK
  <1>2. UNCHANGED <<fVars, file, pkt>>
    OBVIOUS
  <1>3. QED
    BY <1>1, <1>2, LoopKeeps

\* A step of the loop with the same phone and the same state of main.
LEMMA PcKeeps ==
    ASSUME PhoneInv, UNCHANGED <<fVars, chan, file, pkt, out, peer>>,
           NEW p \in {"conn", "chan", "main", "app"}, pm.pc # "write", pm' = [pm EXCEPT !.pc = p], p # "chan" => ~InCall,
           conn' \in {"DISCONNECTED", "WAIT_ATTACH", "WAIT_CONNECT", "CONNECTED"},
           Attached => conn # "DISCONNECTED" /\ conn' # "DISCONNECTED"
    PROVE  PhoneInv'
  <1>1. PmOK /\ LoopInStep /\ peer \in {"none", "other"} \cup DOMAIN Phones
    BY Parts
  <1>2. pm' = [pm EXCEPT !.pc = p, !.state = pm.state] /\ pm.state \in MainStates
    BY <1>1, SameState DEF PmOK
  <1>3. Attached' <=> Attached
    BY DEF Attached
  <1>4. Attached' /\ conn' # "DISCONNECTED" /\ pm.state \in Early => Closed
    BY <1>1, <1>3 DEF LoopInStep
  <1>5. peer' = "other" => pm.state \in {"WAIT_CONNECT", "RUN_APP"}
    BY <1>1 DEF LoopInStep
  <1> DEFINE s == pm.state
  <1>6. s = pm.state /\ s \in MainStates
    BY <1>2
  <1> HIDE DEF s
  <1>7. pm' = [pm EXCEPT !.pc = p, !.state = s]
    BY <1>2, <1>6
  <1>8. peer' = peer /\ peer' \in {"none", "other"} \cup DOMAIN Phones /\ UNCHANGED <<fVars, chan, file, pkt, out>>
    BY <1>1
  <1>9. (Attached' => conn # "DISCONNECTED" /\ conn' # "DISCONNECTED") /\ (conn' # "DISCONNECTED" /\ Attached' /\ s \in Early => Closed)
    BY <1>3, <1>4 DEF s
  <1>10. peer' = "other" => s \in {"WAIT_CONNECT", "RUN_APP"}
    BY <1>5 DEF s
  <1>11. QED
    BY <1>6, <1>7, <1>8, <1>9, <1>10, QuietKeeps

LEMMA NotCalled == ASSUME PhoneInv, pm.pc # "chan" PROVE ~InCall
  BY Parts DEF LoopInStep

LEMMA Known == ASSUME PhoneInv, Attached, pm.pc # "conn" PROVE conn # "DISCONNECTED"
  BY Parts DEF LoopInStep

LEMMA ConnDetachedKeeps == ASSUME PhoneInv, ConnDetached PROVE PhoneInv'
  <1>1. /\ pm.pc = "conn" /\ ~Attached /\ conn' = "DISCONNECTED" /\ pm' = [pm EXCEPT !.pc = "main"]
        /\ UNCHANGED <<fVars, peer, chan, file, pkt, out>>
    BY DEF ConnDetached, Conn
  <1>2. QED
    BY <1>1, NotCalled, PcKeeps

LEMMA ConnHelloKeeps == ASSUME PhoneInv, ConnHello PROVE PhoneInv'
  <1>1. /\ pm.pc = "conn" /\ Attached /\ conn # "DISCONNECTED" /\ conn' \in {"WAIT_CONNECT", "CONNECTED"} /\ pm' = [pm EXCEPT !.pc = "main"]
        /\ UNCHANGED <<fVars, peer, chan, file, pkt, out>>
    BY DEF ConnHello, Conn
  <1>2. QED
    BY <1>1, NotCalled, PcKeeps

LEMMA RecvNothingKeeps == ASSUME PhoneInv, RecvNothing PROVE PhoneInv'
  <1>1. /\ pm.pc = "conn" /\ Attached /\ conn = "CONNECTED" /\ pm' = [pm EXCEPT !.pc = "chan"]
        /\ UNCHANGED <<fVars, conn, peer, chan, file, pkt, out>>
    BY DEF RecvNothing, Online, Conn
  <1>2. QED
    BY <1>1, PcKeeps

LEMMA ChannelsGoneKeeps == ASSUME PhoneInv, ChannelsGone PROVE PhoneInv'
  <1>1. /\ pm.pc = "chan" /\ ~InCall /\ ~Attached /\ pm' = [pm EXCEPT !.pc = "main"]
        /\ UNCHANGED <<fVars, conn, peer, chan, file, pkt, out>>
    BY DEF ChannelsGone
  <1>2. conn' \in {"DISCONNECTED", "WAIT_ATTACH", "WAIT_CONNECT", "CONNECTED"}
    BY <1>1, Parts
  <1>3. QED
    BY <1>1, <1>2, PcKeeps

LEMMA MainRunsOn ==
    ASSUME PhoneInv, pm.pc = "main", NEW p \in {"conn", "app"}, pm' = [pm EXCEPT !.pc = p], UNCHANGED <<fVars, conn, peer, chan, file, pkt, out>>
    PROVE  PhoneInv'
  <1>1. ~InCall /\ (Attached => conn # "DISCONNECTED")
    BY NotCalled, Known
  <1>2. conn' \in {"DISCONNECTED", "WAIT_ATTACH", "WAIT_CONNECT", "CONNECTED"} /\ conn' = conn
    BY Parts
  <1>3. QED
    BY <1>1, <1>2, PcKeeps

LEMMA MainRunAppKeeps == ASSUME PhoneInv, MainRunApp \/ MainNothing PROVE PhoneInv'
  <1>1. pm.pc = "main" /\ UNCHANGED <<fVars, conn, peer, chan, file, pkt, out>>
    BY DEF MainRunApp, MainNothing, Main
  <1>2. pm' = [pm EXCEPT !.pc = "app"] \/ pm' = [pm EXCEPT !.pc = "conn"]
    BY DEF MainRunApp, MainNothing
  <1>3. QED
    BY <1>1, <1>2, MainRunsOn

LEMMA MainDisconnectedKeeps == ASSUME PhoneInv, MainDisconnected PROVE PhoneInv'
  <1> DEFINE p == "conn"  s == "WAIT_CONNECT"
  <1>1. /\ pm.pc = "main" /\ peer = "none" /\ pm' = [pm EXCEPT !.pc = p, !.state = s]
        /\ UNCHANGED <<fVars, conn, peer, chan, file, pkt, out>>
    BY DEF MainDisconnected
  <1>2. ~InCall /\ ~Attached' /\ s \in MainStates /\ s \notin Between /\ p \in {"conn", "chan", "main", "app"}
    BY <1>1, NotCalled DEF Attached, MainStates, Between
  <1>3. conn' \in {"DISCONNECTED", "WAIT_ATTACH", "WAIT_CONNECT", "CONNECTED"} /\ peer' \in {"none", "other"} \cup DOMAIN Phones
    BY <1>1, Parts
  <1>4. peer' # "other"
    BY <1>1
  <1> HIDE DEF p, s
  <1>5. QED
    BY <1>1, <1>2, <1>3, <1>4, QuietKeeps

LEMMA MainWaitConnectKeeps == ASSUME PhoneInv, MainWaitConnect PROVE PhoneInv'
  <1> DEFINE p == "conn"  s == IF Attached THEN "WAIT_ADB_READY" ELSE "RUN_APP"
  <1>1. /\ pm.pc = "main" /\ peer # "none" /\ pm.state = "WAIT_CONNECT" /\ pm' = [pm EXCEPT !.pc = p, !.state = s]
        /\ UNCHANGED <<fVars, conn, peer, chan, file, pkt, out>>
    BY DEF MainWaitConnect, Main
  <1>2. ~InCall /\ s \in MainStates /\ s \notin Between /\ p \in {"conn", "chan", "main", "app"} /\ (s \in Early => Attached)
    BY <1>1, NotCalled DEF MainStates, Between, Early
  <1>3. conn' \in {"DISCONNECTED", "WAIT_ATTACH", "WAIT_CONNECT", "CONNECTED"} /\ peer' \in {"none", "other"} \cup DOMAIN Phones
    BY <1>1, Parts
  <1>4. (Attached' <=> Attached) /\ (Attached => conn # "DISCONNECTED") /\ conn' = conn
    BY <1>1, Known DEF Attached
  <1>5. Attached' /\ conn' # "DISCONNECTED" /\ s \in Early => Closed
    BY <1>1, <1>4, Parts DEF LoopInStep, Early
  <1>6. peer' = "other" => s \in {"WAIT_CONNECT", "RUN_APP"}
    BY <1>1 DEF Attached
  <1> HIDE DEF p, s
  <1>7. QED
    BY <1>1, <1>2, <1>3, <1>4, <1>5, <1>6, QuietKeeps

\* Somebody is attached, or leaves.
LEMMA PeerKeeps ==
    ASSUME PhoneInv, UNCHANGED <<fVars, pm, conn, chan, file, pkt, out>>, peer' \in {"none", "other"} \cup DOMAIN Phones,
           peer' # "none" => conn = "DISCONNECTED" /\ pm.pc = "conn" /\ pm.state = "WAIT_CONNECT"
    PROVE  PhoneInv'
  <1> DEFINE p == pm.pc  s == pm.state
  <1>1. pm' = [pm EXCEPT !.pc = p, !.state = s] /\ p = pm.pc /\ s = pm.state
    BY SamePm, Parts
  <1>2. p # "chan" => ~InCall
    BY NotCalled
  <1>3. conn' \in {"DISCONNECTED", "WAIT_ATTACH", "WAIT_CONNECT", "CONNECTED"}
    BY Parts
  <1>4. peer' = "none" => ~Attached'
    BY DEF Attached
  <1> HIDE DEF p, s
  <1>5. QED
    BY ZenonT(60), <1>1, <1>2, <1>3, <1>4, QuietKeeps

LEMMA AttachPeerKeeps == ASSUME PhoneInv, NEW x \in DOMAIN Phones \cup {"other"}, AttachPeer(x) PROVE PhoneInv'
  BY PeerKeeps DEF AttachPeer

LEMMA DetachPeerKeeps == ASSUME PhoneInv, DetachPeer PROVE PhoneInv'
  BY PeerKeeps DEF DetachPeer

\* Packets of the shell channel.
LEMMA ShellKeeps ==
    ASSUME PhoneInv, UNCHANGED <<fVars, file, pkt, conn, peer>>, ChanOK', OutOK', chan'["sync"] = chan["sync"], out'["sync"] = out["sync"],
           Attached, conn # "DISCONNECTED", pm.pc # "write",
           NEW p \in {"conn", "chan", "main"}, p # "chan" => ~InCall, NEW s \in MainStates, pm' = [pm EXCEPT !.pc = p, !.state = s],
           s = pm.state \/ s = "RUN_APP" \/ (s \in {"FIND_PATH", "FIND_PATH_DONE"} /\ pm.state \in Early)
    PROVE  PhoneInv'
  <1>1. conn' = conn /\ peer' = peer /\ conn' \in {"DISCONNECTED", "WAIT_ATTACH", "WAIT_CONNECT", "CONNECTED"} /\ peer' \in {"none", "other"} \cup DOMAIN Phones
    BY Parts
  <1>2. peer' # "other"
    BY DEF Attached
  <1>3. s = pm.state \/ s \notin Between
    BY DEF Between
  <1>4. s \in Early => Closed
    <2>1. s \in Early => pm.state \in Early
      BY DEF Early
    <2>2. QED
      BY <2>1, Parts DEF LoopInStep
  <1>5. QED
    BY <1>1, <1>2, <1>3, <1>4, LoopKeeps

LEMMA MainWaitAdbReadyKeeps == ASSUME PhoneInv, MainWaitAdbReady PROVE PhoneInv'
  <1> DEFINE p == "conn"  s == "FIND_PATH"  o == [FreeChan EXCEPT !.state = "START"]
  <1>1. /\ pm.pc = "main" /\ peer # "none" /\ pm.state = "WAIT_ADB_READY" /\ conn = "CONNECTED" /\ pm' = [pm EXCEPT !.pc = p, !.state = s]
        /\ chan' = [chan EXCEPT !["shell"] = o] /\ UNCHANGED <<fVars, conn, peer, file, pkt, out>>
    BY DEF MainWaitAdbReady, Main, ADBOpen
  <1>2. ~InCall /\ s \in MainStates /\ p \in {"conn", "chan", "main"} /\ pm.state \in Early
    BY <1>1, NotCalled DEF MainStates, Early
  <1>3. o \in [state : ChanStates, data : BOOLEAN, ack : BOOLEAN]
    BY DEF FreeChan, ChanStates
  <1>4. Attached
    BY <1>1, Parts DEF LoopInStep, Attached
  <1> HIDE DEF p, o
  <1>5. ChanOK' /\ chan'["sync"] = chan["sync"]
    BY <1>1, <1>3, Parts DEF ChanOK, Chans
  <1>6. OutOK' /\ out'["sync"] = out["sync"]
    BY <1>1, Parts DEF OutOK
  <1>7. s = "FIND_PATH"
    OBVIOUS
  <1> HIDE DEF s
  <1>8. UNCHANGED <<fVars, file, pkt, conn, peer>> /\ conn # "DISCONNECTED" /\ pm.pc # "write"
    BY <1>1
  <1>9. QED
    BY <1>1, <1>2, <1>4, <1>5, <1>6, <1>7, <1>8, ShellKeeps

-----------------------------------------------------------------------------
(* The channels: ADB_OKAY.                                                 *)

ChanRec == [state : ChanStates, data : BOOLEAN, ack : BOOLEAN]
OutRec == [toks : Seq(Tokens), may : BOOLEAN, close : BOOLEAN]

LEMMA ChanSet ==
    ASSUME ChanOK, NEW c \in Chans, NEW r \in ChanRec, chan' = [chan EXCEPT ![c] = r]
    PROVE  ChanOK' /\ chan'[c] = r /\ \A d \in Chans : d # c => chan'[d] = chan[d]
  BY DEF ChanOK, ChanRec

LEMMA OutSet ==
    ASSUME OutOK, NEW c \in Chans, NEW r \in OutRec, out' = [out EXCEPT ![c] = r]
    PROVE  OutOK' /\ out'[c] = r /\ \A d \in Chans : d # c => out'[d] = out[d]
  BY DEF OutOK, OutRec

LEMMA ChanShape == ASSUME ChanOK, NEW c \in Chans PROVE chan[c] \in ChanRec /\ chan[c].state \in ChanStates /\ chan[c].data \in BOOLEAN
  BY DEF ChanOK, ChanRec

LEMMA OutShape == ASSUME OutOK, NEW c \in Chans PROVE out[c] \in OutRec /\ out[c].toks \in Seq(Tokens) /\ out[c].may \in BOOLEAN
  BY DEF OutOK, OutRec

LEMMA TwoChans == "shell" \in Chans /\ "sync" \in Chans /\ "shell" # "sync" /\ \A c \in Chans : c = "shell" \/ c = "sync"
  BY DEF Chans

LEMMA FreeShape == FreeChan \in ChanRec /\ NoOut \in OutRec /\ NoOut.toks = <<>> /\ FreeChan.state = "FREE" /\ FileOK(NoFile) /\ NoFile.func = "none" /\ NoFile.state = "FREE"
  <1>1. FreeChan \in ChanRec /\ FreeChan.state = "FREE"
    BY DEF FreeChan, ChanRec, ChanStates
  <1>2. <<>> \in Seq(Tokens)
    OBVIOUS
  <1>3. NoOut \in OutRec /\ NoOut.toks = <<>>
    BY <1>2 DEF NoOut, OutRec
  <1>4. FileOK(NoFile) /\ NoFile.func = "none" /\ NoFile.state = "FREE"
    BY <1>2 DEF NoFile, FileOK, FileStates, Funcs
  <1>5. QED
    BY <1>1, <1>3, <1>4

LEMMA DumpsysShape == DumpsysOutput \in Seq(Tokens)
  <1>1. Tok("text", 0) \in Tokens /\ Tok("path", 0) \in Tokens /\ Tok("long", 0) \in Tokens
    BY TokShape DEF TokTypes
  <1> DEFINE m == CASE Phone.path = "found" -> <<Tok("path", 0)>> [] Phone.path = "long" -> <<Tok("long", 0)>> [] OTHER -> <<>>
  <1>2. m \in Seq(Tokens)
    <2>1. <<Tok("path", 0)>> \in Seq(Tokens) /\ <<Tok("long", 0)>> \in Seq(Tokens) /\ <<>> \in Seq(Tokens)
      BY <1>1
    <2>2. QED
      BY <2>1
  <1> HIDE DEF m
  <1>3. <<Tok("text", 0)>> \in Seq(Tokens)
    BY <1>1
  <1>4. (<<Tok("text", 0)>> \o m) \o <<Tok("text", 0)>> \in Seq(Tokens)
    BY <1>2, <1>3, ConcatShape
  <1>5. QED
    BY <1>4 DEF DumpsysOutput, m

LEMMA OnlineMeans == ASSUME PhoneInv, Online PROVE /\ pm.pc = "conn" /\ Attached /\ conn = "CONNECTED" /\ ~InCall /\ ~pkt.on /\ pkt.toks = <<>>
                                                  /\ HandleBufferDone /\ ~img.failed
  BY NotCalled, Parts DEF Online, Conn, InCall, PktOK

\* ADB_OKAY.
LEMMA OkayShape ==
    ASSUME PhoneInv, NEW c \in Chans, RecvOKAY(c)
    PROVE  /\ ChanOK' /\ OutOK' /\ pm' = [pm EXCEPT !.pc = "chan"] /\ UNCHANGED <<fVars, conn, peer, file, pkt>> /\ Online
           /\ chan[c].state \in {"WAIT_OPEN", "WAIT_READY"} /\ chan'[c].state = "IDLE"
           /\ chan'[c].data <=> (chan[c].data /\ chan[c].state = "WAIT_OPEN")
           /\ c # "shell" => out'[c].toks = out[c].toks
           /\ \A d \in Chans : d # c => chan'[d] = chan[d] /\ out'[d] = out[d]
  <1> DEFINE b == chan[c].data /\ chan[c].state = "WAIT_OPEN"
             m == c = "shell" \/ chan[c].state = "WAIT_READY"
             t == IF c = "shell" THEN DumpsysOutput ELSE out[c].toks
             i == "IDLE"
  <1>0. ChanOK /\ OutOK /\ chan[c] \in ChanRec /\ out[c] \in OutRec /\ out[c].toks \in Seq(Tokens)
    BY Parts, ChanShape, OutShape
  <1>1. b \in BOOLEAN /\ m \in BOOLEAN /\ t \in Seq(Tokens) /\ i \in ChanStates
    BY <1>0, DumpsysShape DEF ChanStates
  <1>2. /\ chan' = [chan EXCEPT ![c].state = i, ![c].data = b] /\ out' = [out EXCEPT ![c].toks = t, ![c].may = m]
        /\ UNCHANGED <<fVars, conn, peer, file, pkt>> /\ pm' = [pm EXCEPT !.pc = "chan"] /\ Online /\ chan[c].state \in {"WAIT_OPEN", "WAIT_READY"}
    BY <1>0 DEF RecvOKAY, ChanOK, OutOK
  <1>3. c # "shell" => t = out[c].toks
    OBVIOUS
  <1> DEFINE r == [chan[c] EXCEPT !.state = i, !.data = b]  o == [out[c] EXCEPT !.toks = t, !.may = m]
  <1> HIDE DEF b, m, t, i
  <1>4. r \in ChanRec /\ r.state = i /\ r.data = b
    BY <1>0, <1>1 DEF ChanRec
  <1>5. o \in OutRec /\ o.toks = t
    BY <1>0, <1>1 DEF OutRec
  <1>6. chan' = [chan EXCEPT ![c] = r] /\ out' = [out EXCEPT ![c] = o]
    BY <1>0, <1>2 DEF ChanOK, OutOK
  <1> HIDE DEF r, o
  <1>7. ChanOK' /\ chan'[c] = r /\ \A d \in Chans : d # c => chan'[d] = chan[d]
    BY <1>0, <1>4, <1>6, ChanSet
  <1>8. OutOK' /\ out'[c] = o /\ \A d \in Chans : d # c => out'[d] = out[d]
    BY <1>0, <1>5, <1>6, OutSet
  <1>9. QED
    BY <1>2, <1>3, <1>4, <1>5, <1>7, <1>8 DEF i, b

\* A step of the shell channel that leaves main where it is.
LEMMA ShellAlone ==
    ASSUME PhoneInv, UNCHANGED <<fVars, file, pkt, conn, peer>>, ChanOK', OutOK', chan'["sync"] = chan["sync"], out'["sync"] = out["sync"],
           Attached, conn # "DISCONNECTED", pm.pc # "write",
           NEW p \in {"conn", "chan", "main"}, p # "chan" => ~InCall, pm' = [pm EXCEPT !.pc = p]
    PROVE  PhoneInv'
  <1> DEFINE s == pm.state
  <1>1. s \in MainStates /\ pm' = [pm EXCEPT !.pc = p, !.state = s] /\ s = pm.state
    BY SameState, Parts DEF PmOK
  <1> HIDE DEF s
  <1>2. QED
    BY <1>1, ShellKeeps

\* A step of the sync channel in which nothing is sent.
LEMMA SyncMoves ==
    ASSUME PhoneInv, UNCHANGED <<fVars, file, pkt, conn, peer>>, ChanOK', OutOK', out'["sync"].toks = out["sync"].toks,
           Attached, conn # "DISCONNECTED", pm.pc # "write", NEW p \in {"conn", "chan", "main"}, p # "chan" => ~InCall, pm' = [pm EXCEPT !.pc = p],
           SyncState # "FREE", ChannelInStep', SyncState \in Closing => SyncState' \in Closing
    PROVE  PhoneInv'
  <1>0. flash' = flash /\ img' = img /\ buf' = buf /\ file' = file /\ pkt' = pkt /\ conn' = conn /\ peer' = peer
    BY DEF fVars
  <1>1. PmOK' /\ pm'.pc = p /\ pm'.state = pm.state /\ pm'.auth = pm.auth /\ pm'.fp = pm.fp /\ pm'.written = pm.written
    BY Parts DEF PmOK
  <1>2. PhoneTypeOK'
    BY <1>0, <1>1, Parts DEF PhoneTypeOK, FileOK, PktOK
  <1>3. Coming' = Coming
    BY <1>0 DEF Coming
  <1>4. LoopInStep'
    <2>1. LoopInStep /\ ~Closed
      BY Parts DEF Closed
    <2>2. (InCall' <=> InCall) /\ (HandleBufferDone' <=> HandleBufferDone) /\ (Attached' <=> Attached)
      BY <1>0 DEF InCall, HandleBufferDone, Attached
    <2>3. pm.state \notin Between /\ pm.state \notin Early
      BY <2>1 DEF LoopInStep
    <2>4. QED
      BY <1>0, <1>1, <2>1, <2>2, <2>3 DEF LoopInStep
  <1>5. InstalledIsAuthentic' /\ (~PhoneFlashFails => FingerprintMeansImage)'
    BY <1>0 DEF PhoneInv, InstalledIsAuthentic, FingerprintMeansImage
  <1>6. PICK v \in Versions, ok \in BOOLEAN : Followed(v, ok) /\ Knows(v, ok) /\ FollowsFile(v, ok)
    BY Parts
  <1>7. Followed(v, ok)' /\ Knows(v, ok)'
    BY <1>0, <1>1, <1>6 DEF Followed, Attached, Phone, Knows, PrintOf, FpErased
  <1>8. FollowsFile(v, ok)'
    <2>1. CASE file.func = "none"
      BY <1>0, <2>1 DEF FollowsFile
    <2>2. CASE file.func # "none"
      <3> DEFINE s == FileOf(v, ok, file.func)
      <3>1. PICK c \in Nat : c <= Len(s) /\ FollowsAt(v, s, c)
        BY <1>6, <2>2 DEF FollowsFile
      <3>2. s' = s
        BY <1>0
      <3> HIDE DEF s
      <3>3. FollowsAt(v, s, c)'
        <4>1. file.func = "image" => Installs(v, c)'
          BY <1>0, <3>1, SameInstaller DEF FollowsAt, fVars
        <4>2. Reading(file', Coming', s, c) \/ Astray'
          BY <1>0, <1>1, <1>3, <3>1 DEF FollowsAt, Astray
        <4>3. QED
          BY <1>0, <3>2, <4>1, <4>2 DEF FollowsAt
      <3>4. QED
        BY <1>0, <3>1, <3>2, <3>3 DEF FollowsFile, s
    <2>3. QED
      BY <2>1, <2>2
  <1>9. QED
    BY <1>2, <1>4, <1>5, <1>7, <1>8 DEF PhoneInv, InStep

LEMMA RecvOKAYKeeps == ASSUME PhoneInv, NEW c \in Chans, RecvOKAY(c) PROVE PhoneInv'
  <1>1. /\ ChanOK' /\ OutOK' /\ pm' = [pm EXCEPT !.pc = "chan"] /\ UNCHANGED <<fVars, conn, peer, file, pkt>> /\ Online
        /\ chan[c].state \in {"WAIT_OPEN", "WAIT_READY"} /\ chan'[c].state = "IDLE"
        /\ chan'[c].data <=> (chan[c].data /\ chan[c].state = "WAIT_OPEN")
        /\ c # "shell" => out'[c].toks = out[c].toks
        /\ \A d \in Chans : d # c => chan'[d] = chan[d] /\ out'[d] = out[d]
    BY OkayShape
  <1>2. pm.pc = "conn" /\ Attached /\ conn = "CONNECTED"
    BY <1>1, OnlineMeans
  <1>3. CASE c = "shell"
    <2>1. chan'["sync"] = chan["sync"] /\ out'["sync"] = out["sync"]
      BY <1>1, <1>3, TwoChans
    <2>2. QED
      BY <1>1, <1>2, <2>1, ShellAlone
  <1>4. CASE c = "sync"
    <2>1. SyncState \in {"WAIT_OPEN", "WAIT_READY"} /\ SyncState' = "IDLE" /\ out'["sync"].toks = out["sync"].toks
      BY <1>1, <1>4 DEF SyncState
    <2>2. ChannelInStep
      BY Parts
    <2>3. file.func # "none" /\ SyncState # "FREE" /\ SyncState \notin Closing
      BY <2>1, <2>2 DEF ChannelInStep, Closed, Closing
    <2>4. ~chan'["sync"].data
      BY <1>1, <1>4, <2>1, <2>2 DEF ChannelInStep, SyncState
    <2>5. ChannelInStep'
      BY <1>1, <2>1, <2>3, <2>4 DEF ChannelInStep, Closing
    <2>6. QED
      BY <1>1, <1>2, <2>1, <2>3, <2>5, SyncMoves
  <1>5. QED
    BY <1>3, <1>4, TwoChans

-----------------------------------------------------------------------------
(* ADB_CLSE: the end of a file.                                            *)

LEMMA AtTheEnd == ASSUME NEW f, NEW u, NEW s, NEW c, Reading(f, u, s, c), f.state = "WAIT_CLOSE" PROVE Over(f, s, c)
  BY DEF Reading, Requested, Refused, HeadAt, AtDone, BetweenChunks, InChunk

\* What main makes of the end of a file.
LEMMA EndMeans ==
    ASSUME PhoneInv, Online, file.func # "none", NEW s, s = FileEnd(file.state = "WAIT_CLOSE"),
           NEW v \in Versions, NEW ok \in BOOLEAN, Knows(v, ok), FollowsFile(v, ok)
    PROVE  /\ s \in MainStates /\ s \in Between \cup {"RUN_APP", "ERROR"} /\ (s = "AUTH_PASSED" => ok)
           /\ s \in Between => PrintOf(v) /\ Len(pm.fp) = FpWords
           /\ s = "RECV_IMAGE_DONE" => FpErased /\ (~PhoneFlashFails => Whole(flash, v))
  <1>1. file.func \in {"fp", "packages", "image"}
    BY Parts DEF FileOK, Funcs
  <1>2. CASE file.func = "fp"
    <2>1. /\ s \in {"FP_FAILED", "RUN_APP"} /\ (s = "FP_FAILED" => Len(pm.fp) = FpWords)
      BY <1>2 DEF FileEnd
    <2>2. PrintOf(v)
      BY <1>2 DEF Knows
    <2>3. QED
      BY <2>1, <2>2 DEF MainStates, Between
  <1>3. CASE file.func = "packages"
    <2>1. /\ s \in {"AUTH_PASSED", "RUN_APP"} /\ (s = "AUTH_PASSED" => pm.auth = "PASS")
      BY <1>3 DEF FileEnd
    <2>2. PrintOf(v) /\ Len(pm.fp) = FpWords /\ (pm.auth = "PASS" => ok)
      BY <1>3 DEF Knows
    <2>3. QED
      BY <2>1, <2>2 DEF MainStates, Between
  <1>4. CASE file.func = "image"
    <2>1. /\ s \in {"RECV_IMAGE_DONE", "ERROR"} /\ (s = "RECV_IMAGE_DONE" => file.state = "WAIT_CLOSE" /\ IOIOFileDone)
      BY <1>4 DEF FileEnd
    <2>2. PrintOf(v) /\ Len(pm.fp) = FpWords /\ FpErased
      BY <1>4 DEF Knows
    <2>3. ASSUME file.state = "WAIT_CLOSE", IOIOFileDone, ~PhoneFlashFails PROVE Whole(flash, v)
      <3> DEFINE e == ImageFile(v)
      <3>1. PICK c \in Nat : Reading(file, Coming, e, c) /\ Installs(v, c)
        BY <1>4 DEF FollowsFile, FollowsAt, FileOf, Astray
      <3>2. c = Len(e)
        BY <1>4, <2>3, <3>1, AtTheEnd DEF Over
      <3>3. ~Stuck
        BY <2>3 DEF Stuck, IOIOFileDone
      <3>4. AtWork(flash, img, buf, v, c - Len(buf))
        BY <2>3, <3>1, <3>3 DEF Installs
      <3>5. buf = <<>> /\ Len(buf) = 0
        BY OnlineMeans DEF HandleBufferDone
      <3>6. c - Len(buf) = Len(e)
        BY <3>2, <3>5
      <3>7. Installing(flash, img, v, Len(e))
        BY <3>4, <3>6 DEF AtWork
      <3>8. QED
        BY <2>3, <3>7, DoneIsWhole
    <2>4. QED
      BY <2>1, <2>2, <2>3 DEF MainStates, Between
  <1>5. QED
    BY <1>1, <1>2, <1>3, <1>4

LEMMA SyncEnds ==
    ASSUME PhoneInv, Online, file.func # "none", chan' = [chan EXCEPT !["sync"] = FreeChan], out' = [out EXCEPT !["sync"] = NoOut],
           NEW s, s = FileEnd(file.state = "WAIT_CLOSE"), pm' = [pm EXCEPT !.pc = "chan", !.state = s], file' = NoFile, UNCHANGED <<fVars, conn, peer, pkt>>
    PROVE  PhoneInv'
  <1>1. PICK v \in Versions, ok \in BOOLEAN : Followed(v, ok) /\ Knows(v, ok) /\ FollowsFile(v, ok)
    BY Parts
  <1>2. /\ s \in MainStates /\ s \in Between \cup {"RUN_APP", "ERROR"} /\ (s = "AUTH_PASSED" => ok)
        /\ s \in Between => PrintOf(v) /\ Len(pm.fp) = FpWords
        /\ s = "RECV_IMAGE_DONE" => FpErased /\ (~PhoneFlashFails => Whole(flash, v))
    BY <1>1, EndMeans
  <1>3. pm.pc = "conn" /\ Attached /\ conn = "CONNECTED" /\ HandleBufferDone /\ ~img.failed /\ ~pkt.on /\ pkt.toks = <<>>
    BY OnlineMeans
  <1>4. /\ PmOK' /\ pm'.pc = "chan" /\ pm'.state = s /\ pm'.auth = pm.auth /\ pm'.fp = pm.fp /\ pm'.written = pm.written
    <2> DEFINE p == "chan"
    <2>1. p \in {"conn", "chan", "main", "write", "app"} /\ pm' = [pm EXCEPT !.pc = p, !.state = s]
      OBVIOUS
    <2> HIDE DEF p
    <2>2. PmOK' /\ pm'.pc = p /\ pm'.state = s /\ pm'.auth = pm.auth /\ pm'.fp = pm.fp /\ pm'.written = pm.written
      BY <1>2, <2>1, Parts DEF PmOK
    <2>3. QED
      BY <2>2 DEF p
  <1>5. ChanOK' /\ OutOK' /\ chan'["sync"] = FreeChan /\ out'["sync"] = NoOut
    BY ChanSet, OutSet, FreeShape, TwoChans, Parts
  <1>6. flash' = flash /\ img' = img /\ buf' = buf /\ pkt' = pkt /\ conn' = conn /\ peer' = peer
    BY DEF fVars
  <1>7. PhoneTypeOK'
    BY <1>4, <1>5, <1>6, FreeShape, Parts DEF PhoneTypeOK, PktOK
  <1>8. Closed' /\ SyncState' = "FREE"
    BY <1>5, FreeShape DEF Closed, SyncState
  <1>9. ChannelInStep'
    BY <1>8, FreeShape DEF ChannelInStep, Closing
  <1>10. LoopInStep'
    <2>1. pm.written = 0 /\ peer # "other"
      BY <1>3, Parts DEF LoopInStep, Attached
    <2>2. (HandleBufferDone /\ ~img.failed)'
      BY <1>3, <1>6 DEF HandleBufferDone
    <2>3. QED
      BY <1>3, <1>4, <1>6, <1>8, <2>1, <2>2 DEF LoopInStep
  <1>11. InstalledIsAuthentic' /\ (~PhoneFlashFails => FingerprintMeansImage)'
    BY <1>6 DEF PhoneInv, InstalledIsAuthentic, FingerprintMeansImage
  <1>12. Followed(v, ok)'
    BY <1>1, <1>6 DEF Followed, Attached, Phone
  <1>13. Knows(v, ok)'
    <2>1. file'.func = "none" /\ pm'.written = 0
      BY <1>3, <1>4, FreeShape, Parts DEF LoopInStep
    <2>2. pm'.state \in Between => PrintOf(v)' /\ Len(pm'.fp) = FpWords
      BY <1>2, <1>4 DEF PrintOf
    <2>3. pm'.state = "RECV_IMAGE_DONE" => /\ \A i \in 1 .. FpWords : flash'.fp[i] = IF i <= pm'.written THEN v ELSE Erased
                                           /\ ~PhoneFlashFails => Whole(flash', v)
      <3>1. \A i \in 1 .. FpWords : ~(i <= 0)
        OBVIOUS
      <3>2. QED
        BY <1>2, <1>4, <1>6, <2>1, <3>1 DEF FpErased
    <2>4. pm'.state = "AUTH_PASSED" => ok
      BY <1>2, <1>4
    <2>5. FpWords <= FpWords
      BY IoioFileAssumption
    <2>6. QED
      BY <2>1, <2>2, <2>3, <2>4, <2>5 DEF Knows
  <1>14. FollowsFile(v, ok)'
    BY FreeShape DEF FollowsFile
  <1>15. QED
    BY <1>7, <1>9, <1>10, <1>11, <1>12, <1>13, <1>14 DEF PhoneInv, InStep

LEMMA RecvCLSEKeeps == ASSUME PhoneInv, NEW c \in Chans, RecvCLSE(c) PROVE PhoneInv'
  <1>1. /\ Online /\ chan' = [chan EXCEPT ![c] = FreeChan] /\ out' = [out EXCEPT ![c] = NoOut] /\ UNCHANGED <<fVars, conn, peer, pkt>>
        /\ chan[c].state = "WAIT_OPEN" \/ out[c].close \/ c = "shell"
    BY DEF RecvCLSE
  <1>2. pm.pc = "conn" /\ Attached /\ conn = "CONNECTED"
    BY <1>1, OnlineMeans
  <1>3. CASE c = "shell"
    <2> DEFINE p == "chan"  s == IF pm.state = "FIND_PATH" THEN "RUN_APP" ELSE pm.state
    <2>1. pm' = [pm EXCEPT !.pc = p, !.state = s] /\ UNCHANGED file
      BY <1>3 DEF RecvCLSE
    <2>2. p \in {"conn", "chan", "main"} /\ p = "chan" /\ s \in MainStates /\ (s = pm.state \/ s = "RUN_APP")
      BY Parts DEF PmOK, MainStates
    <2> HIDE DEF p, s
    <2>3. ChanOK' /\ OutOK' /\ chan'["sync"] = chan["sync"] /\ out'["sync"] = out["sync"]
      BY <1>1, <1>3, ChanSet, OutSet, FreeShape, TwoChans, Parts
    <2>4. UNCHANGED <<fVars, file, pkt, conn, peer>>
      BY <1>1, <2>1
    <2>5. QED
      BY <1>2, <2>1, <2>2, <2>3, <2>4, ShellKeeps
  <1>4. CASE c = "sync"
    <2>1. file.func # "none"
      <3>1. Closed => chan["sync"].state = "FREE" /\ ~out["sync"].close
        BY DEF Closed, SyncState, NoOut
      <3>2. QED
        BY <1>1, <1>4, <3>1, TwoChans, Parts DEF ChannelInStep
    <2> DEFINE s == FileEnd(file.state = "WAIT_CLOSE")
    <2>2. pm' = [pm EXCEPT !.pc = "chan", !.state = s] /\ file' = NoFile
      BY <1>4, TwoChans DEF RecvCLSE
    <2> HIDE DEF s
    <2>3. s = FileEnd(file.state = "WAIT_CLOSE")
      BY DEF s
    <2>4. QED
      BY <1>1, <1>4, <2>1, <2>2, <2>3, SyncEnds
  <1>5. QED
    BY <1>3, <1>4, TwoChans

-----------------------------------------------------------------------------
(* ADB_WRTE.                                                               *)

\* A step on an open file that leaves main in its state.
LEMMA OpenKeeps ==
    ASSUME PhoneInv, ~Closed, UNCHANGED <<conn, peer>>, PhoneTypeOK', ChannelInStep', pm'.written = pm.written,
           pm'.state = pm.state \/ (pm'.state = "ERROR" /\ pm.pc = "chan" /\ peer # "other"),
           pm.pc # "write", pm'.pc # "write", pm'.pc = pm.pc \/ (Attached => conn # "DISCONNECTED"), pm'.pc # "chan" => ~InCall',
           file'.func = file.func, file.func # "image" => (HandleBufferDone /\ ~img.failed)',
           InstalledIsAuthentic', (~PhoneFlashFails => Means(flash)'),
           \E v \in Versions, ok \in BOOLEAN : Followed(v, ok) /\ Knows(v, ok)' /\ FollowsFile(v, ok)'
    PROVE  PhoneInv'
  <1>1. LoopInStep
    BY Parts
  <1>2. (Attached' <=> Attached) /\ pm.state \notin Between /\ (Attached /\ conn # "DISCONNECTED" => pm.state \notin Early)
    BY <1>1 DEF LoopInStep, Attached
  <1>3. LoopInStep'
    <2>1. CASE pm'.state = pm.state
      BY <1>1, <1>2, <2>1 DEF LoopInStep
    <2>2. CASE pm'.state = "ERROR" /\ pm.pc = "chan" /\ peer # "other"
      <3>1. "ERROR" \notin Early /\ "ERROR" \notin Between
        BY DEF Early, Between
      <3>2. QED
        BY <1>1, <1>2, <2>2, <3>1 DEF LoopInStep
    <2>3. QED
      BY <2>1, <2>2
  <1>4. PICK v \in Versions, ok \in BOOLEAN : Followed(v, ok) /\ Knows(v, ok)' /\ FollowsFile(v, ok)'
    OBVIOUS
  <1>5. Followed(v, ok)'
    BY <1>4 DEF Followed, Attached, Phone
  <1>6. (~PhoneFlashFails => FingerprintMeansImage)'
    BY DEF Means, FpIs, Whole, FingerprintMeansImage
  <1>7. QED
    BY <1>3, <1>4, <1>5, <1>6 DEF PhoneInv, InStep

LEMMA OpenFile == ASSUME PhoneInv, SyncState # "FREE" PROVE ~Closed /\ file.func \in {"fp", "packages", "image"}
  <1>1. ~Closed
    BY DEF Closed
  <1>2. QED
    BY <1>1, Parts DEF ChannelInStep, FileOK, Funcs

\* The same with the installer, the fingerprint and the verdict as they were.
LEMMA StreamKeeps ==
    ASSUME PhoneInv, ~Closed, UNCHANGED <<fVars, conn, peer>>, PhoneTypeOK', ChannelInStep', pm'.state = pm.state, pm'.written = pm.written,
           pm'.fp = pm.fp, pm'.auth = pm.auth,
           pm.pc # "write", pm'.pc # "write", pm'.pc = pm.pc \/ (Attached => conn # "DISCONNECTED"), pm'.pc # "chan" => ~InCall',
           file'.func = file.func, file.func # "none",
           \A v \in Versions, ok \in BOOLEAN, c \in Nat :
             LET s == FileOf(v, ok, file.func) IN
             c <= Len(s) /\ Followed(v, ok) /\ (Reading(file, Coming, s, c) \/ Astray) => Reading(file', Coming', s, c) \/ Astray'
    PROVE  PhoneInv'
  <1>0. flash' = flash /\ img' = img /\ buf' = buf
    BY DEF fVars
  <1>1. PICK v \in Versions, ok \in BOOLEAN : Followed(v, ok) /\ Knows(v, ok) /\ FollowsFile(v, ok)
    BY Parts
  <1>2. Knows(v, ok)'
    BY <1>0, <1>1 DEF Knows, PrintOf, FpErased
  <1>3. FollowsFile(v, ok)'
    <2> DEFINE s == FileOf(v, ok, file.func)
    <2>1. PICK c \in Nat : c <= Len(s) /\ FollowsAt(v, s, c)
      BY <1>1 DEF FollowsFile
    <2>2. Reading(file', Coming', s, c) \/ Astray'
      BY <1>1, <2>1 DEF FollowsAt
    <2>3. file.func = "image" => Installs(v, c)'
      BY <2>1, SameInstaller DEF FollowsAt
    <2>4. s' = s
      OBVIOUS
    <2> HIDE DEF s
    <2>5. FollowsAt(v, s, c)'
      BY <2>2, <2>3, <2>4 DEF FollowsAt
    <2>6. QED
      BY <2>1, <2>4, <2>5 DEF FollowsFile, s
  <1>4. InstalledIsAuthentic' /\ (~PhoneFlashFails => Means(flash)')
    BY <1>0, Parts DEF InstalledIsAuthentic, Means, FpIs, Whole
  <1>5. file.func # "image" => (HandleBufferDone /\ ~img.failed)'
    BY <1>0, Parts DEF LoopInStep, HandleBufferDone
  <1>6. QED
    BY <1>1, <1>2, <1>3, <1>4, <1>5, OpenKeeps

\* ADB_WRTE on channel c.
LEMMA WrteShape ==
    ASSUME PhoneInv, NEW c \in Chans, NEW n \in 1 .. MaxPacket, RecvWRTE(c, n)
    PROVE  /\ Online /\ ChanOK' /\ OutOK' /\ UNCHANGED <<fVars, conn, peer, file>> /\ n \in 1 .. Len(out[c].toks) /\ out[c].toks \in Seq(Tokens)
           /\ chan[c].state # "FREE" /\ chan'[c].data = chan[c].data
           /\ c = "sync" => chan'[c].state = chan[c].state /\ pm' = [pm EXCEPT !.pc = "chan", !.state = pm.state]
           /\ out'[c].toks = SubSeq(out[c].toks, n + 1, Len(out[c].toks))
           /\ \A d \in Chans : d # c => chan'[d] = chan[d] /\ out'[d] = out[d]
           /\ \E s \in MainStates : /\ pm' = [pm EXCEPT !.pc = "chan", !.state = s]
                                    /\ s = pm.state \/ (c = "shell" /\ s = "FIND_PATH_DONE" /\ pm.state = "FIND_PATH")
           /\ pkt' = IF c = "sync" /\ chan[c].state \in {"IDLE", "WAIT_READY"} THEN [on |-> TRUE, toks |-> SubSeq(out[c].toks, 1, n)] ELSE pkt
  <1> DEFINE t == out[c].toks
             d0 == SubSeq(out[c].toks, 1, n)
             delivered == chan[c].state \in {"IDLE", "WAIT_READY"}
             found == c = "shell" /\ delivered /\ pm.state = "FIND_PATH" /\ DumpsysProcess(d0) # "BUSY"
             st == IF found THEN "CLOSE_REQUESTED" ELSE chan[c].state
             s == IF found /\ DumpsysProcess(d0) # "ERROR" THEN "FIND_PATH_DONE" ELSE pm.state
             yes == TRUE
             no == FALSE
  <1>0. ChanOK /\ OutOK /\ PmOK /\ chan[c] \in ChanRec /\ out[c] \in OutRec /\ t \in Seq(Tokens) /\ chan[c].state \in ChanStates
    BY Parts, ChanShape, OutShape
  <1>1. /\ Online /\ n <= Len(t) /\ chan[c].state # "FREE" /\ out' = [out EXCEPT ![c].toks = SubSeq(t, n + 1, Len(t)), ![c].may = no]
        /\ chan' = [chan EXCEPT ![c].ack = yes, ![c].state = st] /\ pm' = [pm EXCEPT !.pc = "chan", !.state = s]
        /\ pkt' = (IF c = "sync" /\ delivered THEN [on |-> TRUE, toks |-> d0] ELSE pkt) /\ UNCHANGED <<fVars, conn, peer, file>>
    BY <1>0 DEF RecvWRTE, ChanOK, OutOK
  <1>2. st \in ChanStates /\ s \in MainStates /\ yes \in BOOLEAN /\ no \in BOOLEAN
    BY <1>0 DEF ChanStates, PmOK, MainStates
  <1>3. /\ c = "sync" => ~found /\ st = chan[c].state /\ s = pm.state
        /\ s = pm.state \/ (c = "shell" /\ s = "FIND_PATH_DONE" /\ pm.state = "FIND_PATH")
    OBVIOUS
  <1>4. n \in 1 .. Len(t) /\ SubSeq(t, n + 1, Len(t)) \in Seq(Tokens)
    <2>1. n \in Nat /\ n >= 1 /\ Len(t) \in Nat
      BY <1>0, PhoneBootAssumption
    <2>2. n \in 0 .. Len(t) /\ n \in 1 .. Len(t)
      BY <1>1, <2>1
    <2>3. QED
      BY <1>0, <2>2, CutAndJoin
  <1> DEFINE r == [chan[c] EXCEPT !.ack = yes, !.state = st]  u == SubSeq(t, n + 1, Len(t))  o == [out[c] EXCEPT !.toks = u, !.may = no]
  <1> HIDE DEF yes, no, st, u
  <1>5. r \in ChanRec /\ r.state = st /\ r.data = chan[c].data
    BY <1>0, <1>2 DEF ChanRec
  <1>6. o \in OutRec /\ o.toks = u
    BY <1>0, <1>2, <1>4 DEF OutRec, u
  <1>7. chan' = [chan EXCEPT ![c] = r] /\ out' = [out EXCEPT ![c] = o]
    BY <1>0, <1>1 DEF ChanOK, OutOK, u
  <1> HIDE DEF r, o
  <1>8. ChanOK' /\ chan'[c] = r /\ \A d \in Chans : d # c => chan'[d] = chan[d]
    BY <1>0, <1>5, <1>7, ChanSet
  <1>9. OutOK' /\ out'[c] = o /\ \A d \in Chans : d # c => out'[d] = out[d]
    BY <1>0, <1>6, <1>7, OutSet
  <1> HIDE DEF s
  <1>10. c = "sync" => pm' = [pm EXCEPT !.pc = "chan", !.state = pm.state]
    BY <1>1, <1>3
  <1>11. pkt' = IF c = "sync" /\ chan[c].state \in {"IDLE", "WAIT_READY"} THEN [on |-> TRUE, toks |-> SubSeq(t, 1, n)] ELSE pkt
    BY <1>1
  <1> HIDE DEF d0, found, delivered
  <1>12. QED
    BY <1>0, <1>1, <1>2, <1>3, <1>4, <1>5, <1>6, <1>8, <1>9, <1>10, <1>11 DEF u

LEMMA WaitingForNothing == ASSUME NEW f, NEW u, NEW s, NEW c, Reading(f, u, s, c), f.state = "WAIT_OPEN" PROVE u = <<>> /\ c = 0
  BY DEF Reading, Requested, Refused, HeadAt, AtDone, BetweenChunks, InChunk, Over

\* What main has in mind is a record.
LEMMA PcShape ==
    ASSUME PmOK, NEW p \in {"conn", "chan", "main", "write", "app"}, pm' = [pm EXCEPT !.pc = p]
    PROVE  PmOK' /\ pm'.pc = p /\ pm'.state = pm.state /\ pm'.auth = pm.auth /\ pm'.fp = pm.fp /\ pm'.written = pm.written /\ pm'.bad = pm.bad
  BY DEF PmOK

LEMMA RecvWRTEKeeps == ASSUME PhoneInv, NEW x \in Chans, NEW n \in 1 .. MaxPacket, RecvWRTE(x, n) PROVE PhoneInv'
  <1>0. /\ Online /\ ChanOK' /\ OutOK' /\ UNCHANGED <<fVars, conn, peer, file>> /\ n \in 1 .. Len(out[x].toks) /\ out[x].toks \in Seq(Tokens)
        /\ chan[x].state # "FREE" /\ chan'[x].data = chan[x].data
        /\ x = "sync" => chan'[x].state = chan[x].state /\ pm' = [pm EXCEPT !.pc = "chan", !.state = pm.state]
        /\ out'[x].toks = SubSeq(out[x].toks, n + 1, Len(out[x].toks))
        /\ \A d \in Chans : d # x => chan'[d] = chan[d] /\ out'[d] = out[d]
        /\ \E s \in MainStates : /\ pm' = [pm EXCEPT !.pc = "chan", !.state = s]
                                 /\ s = pm.state \/ (x = "shell" /\ s = "FIND_PATH_DONE" /\ pm.state = "FIND_PATH")
        /\ pkt' = IF x = "sync" /\ chan[x].state \in {"IDLE", "WAIT_READY"} THEN [on |-> TRUE, toks |-> SubSeq(out[x].toks, 1, n)] ELSE pkt
    BY WrteShape
  <1> DEFINE t == out[x].toks
  <1>t. t = out[x].toks
    OBVIOUS
  <1> HIDE DEF t
  <1>1. /\ Online /\ ChanOK' /\ OutOK' /\ UNCHANGED <<fVars, conn, peer, file>> /\ n \in 1 .. Len(t) /\ t \in Seq(Tokens)
        /\ chan[x].state # "FREE" /\ chan'[x].data = chan[x].data
        /\ x = "sync" => chan'[x].state = chan[x].state /\ pm' = [pm EXCEPT !.pc = "chan", !.state = pm.state]
        /\ out'[x].toks = SubSeq(t, n + 1, Len(t))
        /\ \A d \in Chans : d # x => chan'[d] = chan[d] /\ out'[d] = out[d]
        /\ \E s \in MainStates : /\ pm' = [pm EXCEPT !.pc = "chan", !.state = s]
                                 /\ s = pm.state \/ (x = "shell" /\ s = "FIND_PATH_DONE" /\ pm.state = "FIND_PATH")
        /\ pkt' = IF x = "sync" /\ chan[x].state \in {"IDLE", "WAIT_READY"} THEN [on |-> TRUE, toks |-> SubSeq(t, 1, n)] ELSE pkt
    BY <1>0, <1>t
  <1>2. pm.pc = "conn" /\ Attached /\ conn = "CONNECTED" /\ ~pkt.on /\ pkt.toks = <<>>
    BY <1>1, OnlineMeans
  <1>3. CASE x = "shell"
    <2>1. PICK s \in MainStates : pm' = [pm EXCEPT !.pc = "chan", !.state = s] /\ (s = pm.state \/ (s = "FIND_PATH_DONE" /\ pm.state = "FIND_PATH"))
      BY <1>1
    <2>2. s = pm.state \/ s = "RUN_APP" \/ (s \in {"FIND_PATH", "FIND_PATH_DONE"} /\ pm.state \in Early)
      BY <2>1 DEF Early
    <2>3. chan'["sync"] = chan["sync"] /\ out'["sync"] = out["sync"] /\ pkt' = pkt /\ x # "sync"
      BY <1>1, <1>3, TwoChans
    <2>4. UNCHANGED <<fVars, file, pkt, conn, peer>> /\ ChanOK' /\ OutOK'
      BY <1>1, <2>3
    <2>5. QED
      BY <1>2, <2>1, <2>2, <2>3, <2>4, ShellKeeps
  <1>4. CASE x = "sync"
    <2> DEFINE a == SubSeq(t, 1, n)  b == SubSeq(t, n + 1, Len(t))
    <2>0. out["sync"].toks = t
      BY <1>t, <1>4
    <2>1. Coming = t
      BY <1>1, <1>2, <2>0, ConcatNothing DEF Coming
    <2>2. a \in Seq(Tokens) /\ a \o b = t
      <3>1. n \in 0 .. Len(t) /\ t \in Seq(Tokens)
        BY <1>1
      <3>2. SubSeq(t, 1, n) \in Seq(Tokens) /\ SubSeq(t, 1, n) \o SubSeq(t, n + 1, Len(t)) = t
        BY <3>1, CutAndJoin
      <3>3. QED
        BY <3>2
    <2>3. PmOK' /\ pm'.pc = "chan" /\ pm'.state = pm.state /\ pm'.auth = pm.auth /\ pm'.fp = pm.fp /\ pm'.written = pm.written
      <3>1. pm' = [pm EXCEPT !.pc = "chan"]
        BY <1>1, <1>4, SameState, Parts
      <3>2. QED
        BY <3>1, PcShape, Parts
    <2>4. SyncState # "FREE" /\ SyncState' = SyncState /\ chan'["sync"].data = chan["sync"].data /\ out'["sync"].toks = b
      BY <1>1, <1>4 DEF SyncState
    <2>t. t # <<>>
      BY <1>1
    <2> HIDE DEF a, b
    <2>5. ~Closed /\ file.func \in {"fp", "packages", "image"}
      BY <2>4, OpenFile
    <2>6. UNCHANGED <<fVars, conn, peer>> /\ file' = file /\ pm.pc # "write" /\ conn # "DISCONNECTED"
      BY <1>1, <1>2
    <2>7. CASE SyncState \in {"IDLE", "WAIT_READY"}
      <3>1. pkt' = [on |-> TRUE, toks |-> a]
        BY <1>1, <1>4, <2>7 DEF SyncState, a
      <3>2. Coming' = Coming
        BY <2>1, <2>2, <2>4, <3>1 DEF Coming
      <3>3. PktOK'
        BY <2>2, <3>1 DEF PktOK
      <3>4. PhoneTypeOK'
        BY <1>1, <2>3, <2>6, <3>3, Parts DEF PhoneTypeOK, FileOK, fVars
      <3>5. ChannelInStep'
        BY <2>3, <2>4, <2>5, <2>6, <2>7, <3>2, Parts DEF ChannelInStep, Closing
      <3>6. ~Astray
        BY <2>7 DEF Astray, Closing
      <3>7. ASSUME NEW v \in Versions, NEW ok \in BOOLEAN, NEW c \in Nat, Reading(file, Coming, FileOf(v, ok, file.func), c) \/ Astray
            PROVE  Reading(file', Coming', FileOf(v, ok, file.func), c)
        BY <2>6, <3>2, <3>6, <3>7
      <3>8. QED
        BY <2>3, <2>5, <2>6, <3>4, <3>5, <3>7, StreamKeeps
    <2>8. CASE SyncState \notin {"IDLE", "WAIT_READY"}
      <3>1. pkt' = pkt
        BY <1>1, <1>4, <2>8 DEF SyncState
      <3>2. PhoneTypeOK'
        BY <1>1, <2>3, <2>6, <3>1, Parts DEF PhoneTypeOK, FileOK, PktOK, fVars
      <3>3. SyncState \in {"START", "WAIT_OPEN"} \/ SyncState \in Closing
        BY <2>4, <2>8, TwoChans, Parts, ChanShape DEF SyncState, ChanStates, Closing
      <3>4. SyncState \in Closing
        <4>1. SUFFICES ASSUME SyncState \in {"START", "WAIT_OPEN"} PROVE FALSE
          BY <3>3
        <4>2. file.state = "WAIT_OPEN" /\ ~Astray
          BY <4>1, Parts DEF ChannelInStep, Astray, Closing
        <4>3. PICK v, ok, c : Reading(file, Coming, FileOf(v, ok, file.func), c)
          BY <2>5, <4>2, Parts DEF FollowsFile, FollowsAt
        <4>4. QED
          BY <2>1, <2>t, <4>2, <4>3, WaitingForNothing
      <3>5. ChannelInStep /\ (file.state \in {"WAIT_CLOSE", "ERROR"} \/ (file.func = "packages" /\ pm.auth # "BUSY"))
        BY <3>4, Parts DEF ChannelInStep
      <3>6. ChannelInStep'
        BY <2>3, <2>4, <2>5, <2>6, <3>4, <3>5 DEF ChannelInStep, Closing
      <3>7. ASSUME NEW v \in Versions, NEW ok \in BOOLEAN, NEW c \in Nat, Reading(file, Coming, FileOf(v, ok, file.func), c) \/ Astray
            PROVE  Reading(file', Coming', FileOf(v, ok, file.func), c) \/ Astray'
        <4>1. CASE file.func = "packages" /\ pm.auth # "BUSY"
          BY <1>2, <2>3, <2>4, <2>6, <3>1, <3>4, <4>1 DEF Astray
        <4>2. CASE file.state \in {"WAIT_CLOSE", "ERROR"} /\ ~(file.func = "packages" /\ pm.auth # "BUSY")
          <5>1. Over(file, FileOf(v, ok, file.func), c)
            BY <3>7, <4>2, AtTheEnd DEF Astray, Over
          <5>2. QED
            BY <2>6, <5>1 DEF Reading
        <4>3. QED
          BY <3>5, <4>1, <4>2
      <3>8. QED
        BY <2>3, <2>5, <2>6, <3>2, <3>6, <3>7, StreamKeeps
    <2>9. QED
      BY <2>7, <2>8
  <1>5. QED
    BY <1>3, <1>4, TwoChans

-----------------------------------------------------------------------------
(* The channels' turn: the request and the answer.                         *)

\* Nothing has come before the phone has answered.
LEMMA NothingYet ==
    ASSUME NEW f, FileOK(f), f.state = "WAIT_HEADER", f.hdr = <<>>, NEW s \in Seq(Tokens), NEW c \in Nat, Reading(f, <<>>, s, c)
    PROVE  c = 0
  <1> DEFINE u == <<>>
  <1>0. u \in Seq(Tokens) /\ Len(u) = 0 /\ Len(f.hdr) = 0
    OBVIOUS
  <1>1. CASE Refused(f, u)
    <2>1. RestOf(u, FailStream, 0 + Len(f.hdr))
      BY <1>1 DEF Refused, HeadAt
    <2>2. Len(FailStream) = 3
      BY FailShape
    <2>3. 3 = 0 + 0 + 0
      BY <1>0, <2>1, <2>2 DEF RestOf
    <2>4. QED
      BY <2>3
  <1>2. ASSUME NEW k \in ChunkSizes, BetweenChunks(f, u, s, k, c) PROVE FALSE
    <2>1. PICK q \in 0 .. Chunks(s, k) : c = Mark(s, k, q) /\ HeadAt(f, u, SyncStream(s, k), c + 2 * q)
      BY <1>2 DEF BetweenChunks
    <2>2. k \in Nat \ {0}
      BY PhoneBootAssumption
    <2>3. q \in Nat /\ c + 2 * q + 2 <= Len(SyncStream(s, k))
      BY <2>1, <2>2, MarkShape
    <2>4. RestOf(u, SyncStream(s, k), (c + 2 * q) + Len(f.hdr))
      BY <2>1 DEF HeadAt
    <2>5. Len(SyncStream(s, k)) = (c + 2 * q) + 0 + 0
      BY <1>0, <2>4 DEF RestOf
    <2>6. QED
      BY <2>3, <2>5
  <1>3. Requested(f, u, c) \/ Refused(f, u) \/ \E k \in ChunkSizes : BetweenChunks(f, u, s, k, c)
    BY DEF Reading, Over, AtDone, InChunk
  <1>4. QED
    BY <1>1, <1>2, <1>3 DEF Requested

\* ADBFileTasks.
LEMMA TasksShape ==
    ASSUME NEW ch \in [Chans -> ChanRec], FileOK(file), FileTasks(ch)
    PROVE  \/ /\ file.state = "WAIT_OPEN" /\ ch["sync"].state = "IDLE" /\ ChanOK' /\ chan'["sync"].state = "IDLE" /\ chan'["sync"].data
              /\ FileOK(file') /\ file'.state = "WAIT_HEADER" /\ file'.remain = 2 /\ file'.hdr = file.hdr /\ file'.func = file.func
           \/ file' = file /\ ChanOK' /\ chan' = ch /\ ~(file.state = "WAIT_OPEN" /\ ch["sync"].state = "IDLE" /\ ~ch["sync"].data)
  <1>1. CASE file.state = "WAIT_OPEN" /\ ch["sync"].state = "IDLE" /\ ~ch["sync"].data
    <2> DEFINE yes == TRUE  st == "WAIT_HEADER"  two == 2  r == [ch["sync"] EXCEPT !.data = yes]
    <2>1. chan' = [ch EXCEPT !["sync"].data = yes] /\ file' = [file EXCEPT !.state = st, !.remain = two]
      BY <1>1 DEF FileTasks
    <2>2. yes \in BOOLEAN /\ st \in FileStates /\ two \in Nat /\ "sync" \in Chans
      BY DEF FileStates, Chans
    <2> HIDE DEF yes, st, two
    <2>3. r \in ChanRec /\ r.state = ch["sync"].state /\ r.data = yes
      BY <2>2 DEF ChanRec
    <2>4. chan' = [ch EXCEPT !["sync"] = r]
      BY <2>1
    <2> HIDE DEF r
    <2>5. chan' \in [Chans -> ChanRec] /\ chan'["sync"] = r
      BY <2>2, <2>3, <2>4
    <2>6. FileOK(file') /\ file'.state = st /\ file'.remain = two /\ file'.hdr = file.hdr /\ file'.func = file.func
      BY <2>1, <2>2 DEF FileOK
    <2>7. QED
      BY <1>1, <2>3, <2>5, <2>6 DEF yes, st, two, ChanOK, ChanRec
  <1>2. CASE ~(file.state = "WAIT_OPEN" /\ ch["sync"].state = "IDLE" /\ ~ch["sync"].data)
    BY <1>2 DEF FileTasks, ChanOK, ChanRec
  <1>3. QED
    BY <1>1, <1>2

\* The file is asked for.
LEMMA RequestKeeps ==
    ASSUME PhoneInv, pm.pc = "chan", ~InCall, Attached, OutOK', out'["sync"].toks = out["sync"].toks, pm' = [pm EXCEPT !.pc = "main"],
           UNCHANGED <<fVars, conn, peer, pkt>>, file.state = "WAIT_OPEN", ChanOK', chan'["sync"].state = "IDLE",
           FileOK(file'), file'.state = "WAIT_HEADER", file'.remain = 2, file'.hdr = file.hdr, file'.func = file.func
    PROVE  PhoneInv'
  <1>1. conn # "DISCONNECTED" /\ pm.pc # "write"
    BY Known
  <1>2. PmOK' /\ pm'.pc = "main" /\ pm'.state = pm.state /\ pm'.auth = pm.auth /\ pm'.fp = pm.fp /\ pm'.written = pm.written
    BY PcShape, Parts
  <1>3. ChannelInStep
    BY Parts
  <1>4. SyncState \in {"START", "WAIT_OPEN", "IDLE"} /\ SyncState # "FREE" /\ SyncState \notin Closing
    BY <1>3 DEF ChannelInStep, Closing
  <1>5. ~Closed /\ file.func \in {"fp", "packages", "image"}
    BY <1>4, OpenFile
  <1>6. ~Astray
    BY <1>4 DEF Astray
  <1>7. Coming' = Coming
    BY DEF Coming
  <1>8. \A v \in Versions, ok \in BOOLEAN, c \in Nat :
           Reading(file, Coming, FileOf(v, ok, file.func), c) => Coming = <<>> /\ file.hdr = <<>> /\ Requested(file', Coming', c)
    BY <1>7 DEF Reading, Requested, Refused, HeadAt, AtDone, BetweenChunks, InChunk, Over
  <1>9. Coming = <<>> /\ file.hdr = <<>>
    <2>1. PICK v \in Versions, ok \in BOOLEAN : FollowsFile(v, ok)
      BY Parts
    <2>2. PICK c \in Nat : Reading(file, Coming, FileOf(v, ok, file.func), c)
      BY <1>5, <1>6, <2>1 DEF FollowsFile, FollowsAt
    <2>3. QED
      BY <1>8, <2>2
  <1>10. ChannelInStep'
    <2>1. SyncState' = "IDLE"
      BY DEF SyncState
    <2>2. QED
      BY <1>5, <1>7, <1>9, <2>1 DEF ChannelInStep, Closing
  <1>11. PhoneTypeOK'
    BY <1>2, Parts DEF PhoneTypeOK, PktOK, fVars
  <1>12. ~InCall'
    BY DEF InCall, HandleBufferDone, fVars
  <1>13. \A v \in Versions, ok \in BOOLEAN, c \in Nat :
           (Reading(file, Coming, FileOf(v, ok, file.func), c) \/ Astray) => Reading(file', Coming', FileOf(v, ok, file.func), c)
    BY <1>6, <1>8 DEF Reading
  <1>14. QED
    BY <1>1, <1>2, <1>5, <1>10, <1>11, <1>12, <1>13, StreamKeeps

\* The phone gets the request and will answer.
LEMMA AnswerKeeps ==
    ASSUME PhoneInv, pm.pc = "chan", ~InCall, Attached, SyncState = "IDLE", chan["sync"].data, ChanOK', chan'["sync"].state = "WAIT_READY",
           OutOK', pm' = [pm EXCEPT !.pc = "main"], UNCHANGED <<fVars, conn, peer, pkt, file>>,
           out'["sync"].toks \in (IF Phone.files THEN {SyncStream(Content(file.func), k) : k \in ChunkSizes} ELSE {FailStream})
    PROVE  PhoneInv'
  <1>1. conn # "DISCONNECTED" /\ pm.pc # "write"
    BY Known
  <1>2. PmOK' /\ pm'.pc = "main" /\ pm'.state = pm.state /\ pm'.auth = pm.auth /\ pm'.fp = pm.fp /\ pm'.written = pm.written
    BY PcShape, Parts
  <1>3. file.state = "WAIT_HEADER" /\ file.hdr = <<>> /\ file.remain = 2 /\ Coming = <<>> /\ ChannelInStep /\ FileOK(file)
    BY Parts DEF ChannelInStep
  <1>4. ~Closed /\ file.func \in {"fp", "packages", "image"} /\ ~Astray
    BY OpenFile DEF Astray, Closing
  <1>5. pkt.toks = <<>>
    BY Parts DEF PktOK, InCall
  <1>6. out'["sync"].toks \in Seq(Tokens) /\ Coming' = out'["sync"].toks
    <2>1. out'["sync"].toks \in Seq(Tokens)
      BY TwoChans DEF OutOK
    <2>2. QED
      BY <1>5, <2>1, ConcatNothing DEF Coming
  <1>7. ChannelInStep'
    <2>1. SyncState' = "WAIT_READY"
      BY DEF SyncState
    <2>2. QED
      BY <1>3, <1>4, <2>1 DEF ChannelInStep, Closing
  <1>8. PhoneTypeOK'
    BY <1>2, Parts DEF PhoneTypeOK, PktOK, fVars, FileOK
  <1>9. ~InCall'
    BY DEF InCall, HandleBufferDone, fVars
  <1>10. ASSUME NEW v \in Versions, NEW ok \in BOOLEAN, NEW c \in Nat, Followed(v, ok), Reading(file, Coming, FileOf(v, ok, file.func), c) \/ Astray
         PROVE  Reading(file', Coming', FileOf(v, ok, file.func), c)
    <2> DEFINE s == FileOf(v, ok, file.func)
    <2>1. Content(file.func) = s
      BY <1>1, <1>4, <1>10, ContentIsFile DEF Followed
    <2>2. s \in Seq(Tokens)
      BY <1>4, FilesShape
    <2> HIDE DEF s
    <2>3. Reading(file, <<>>, s, c)
      BY <1>3, <1>4, <1>10 DEF s
    <2>4. c = 0
      BY <1>3, <2>2, <2>3, NothingYet
    <2>5. Reading(file, out'["sync"].toks, s, 0)
      <3>1. /\ Reading(file, FailStream, s, 0)
            /\ \A k \in ChunkSizes : Reading(file, SyncStream(s, k), s, 0)
        BY <1>3, <2>2, AnswerReads
      <3>2. QED
        BY <2>1, <3>1
    <2>6. QED
      BY <1>6, <2>4, <2>5 DEF s
  <1>11. QED
    BY <1>1, <1>2, <1>4, <1>7, <1>8, <1>9, <1>10, StreamKeeps

\* What the phone may answer to the request for the file that is open.
Answers == IF Phone.files THEN {SyncStream(Content(file.func), k) : k \in ChunkSizes} ELSE {FailStream}

LEMMA AnswersShape ==
    ASSUME PhoneInv, Attached, SyncState # "FREE", NEW t \in Answers PROVE t \in Seq(Tokens)
  <1>1. file.func \in {"fp", "packages", "image"}
    BY OpenFile
  <1>2. peer \in DOMAIN Phones
    BY Parts DEF Attached
  <1>3. Phone.version \in Versions /\ Phone.authentic \in BOOLEAN
    BY <1>2, PhoneBootAssumption DEF Phone, Versions
  <1>4. Content(file.func) \in Seq(Tokens)
    BY <1>1, <1>3, ContentIsFile, FilesShape
  <1>5. \A k \in ChunkSizes : SyncStream(Content(file.func), k) \in Seq(Tokens)
    BY <1>4, ChunkAt, PhoneBootAssumption
  <1>6. FailStream \in Seq(Tokens)
    BY FailShape
  <1>7. QED
    BY <1>5, <1>6 DEF Answers

\* A turn of channel c.
LEMMA TurnShape ==
    ASSUME PhoneInv, ChansQuiet, Attached, NEW c \in Chans, ToSend(c), NEW o \in Heard(c)
    PROVE  /\ Sent(c) \in ChanRec /\ o \in OutRec /\ Sent(c).data = chan[c].data /\ chan[c].state # "FREE"
           /\ \/ o.toks = out[c].toks /\ Sent(c).state = chan[c].state
              \/ o.toks = out[c].toks /\ chan[c].state = "START" /\ Sent(c).state = "WAIT_OPEN"
              \/ o.toks = out[c].toks /\ chan[c].state = "CLOSE_REQUESTED" /\ Sent(c).state = "WAIT_CLOSE"
              \/ c = "sync" /\ o.toks \in Answers /\ chan[c].state = "IDLE" /\ chan[c].data /\ Sent(c).state = "WAIT_READY"
  <1> DEFINE r == chan[c]  w == out[c]  yes == TRUE  no == FALSE
             wo == "WAIT_OPEN"  wc == "WAIT_CLOSE"  wr == "WAIT_READY"
  <1>0. r \in ChanRec /\ w \in OutRec
    BY Parts, ChanShape, OutShape
  <1>1. r.state # "FREE"
    <2>1. r.state = "FREE" => ~r.ack /\ ~r.data
      BY DEF ChansQuiet, FreeChan
    <2>2. QED
      BY <2>1 DEF ToSend
  <1>2. yes \in BOOLEAN /\ no \in BOOLEAN /\ {wo, wc, wr} \subseteq ChanStates
    BY DEF ChanStates
  <1>3. CASE r.state = "START"
    <2>1. Sent(c) = [r EXCEPT !.state = wo] /\ o = w
      BY <1>3 DEF Sent, Heard
    <2> HIDE DEF r, w, wo
    <2>2. Sent(c) \in ChanRec /\ Sent(c).data = r.data /\ Sent(c).state = wo
      BY <1>0, <1>2, <2>1 DEF ChanRec
    <2>3. QED
      BY <1>0, <1>1, <1>3, <2>1, <2>2 DEF r, w, wo
  <1>4. CASE r.state # "START" /\ r.ack
    <2>1. Sent(c) = [r EXCEPT !.ack = no] /\ o = [w EXCEPT !.may = yes]
      BY <1>4 DEF Sent, Heard
    <2> HIDE DEF r, w, yes, no
    <2>2. Sent(c) \in ChanRec /\ Sent(c).data = r.data /\ Sent(c).state = r.state /\ o \in OutRec /\ o.toks = w.toks
      BY <1>0, <1>2, <2>1 DEF ChanRec, OutRec
    <2>3. QED
      BY <1>1, <2>2 DEF r, w
  <1>5. CASE r.state = "CLOSE_REQUESTED" /\ ~r.ack
    <2>1. Sent(c) = [r EXCEPT !.state = wc] /\ o = [w EXCEPT !.close = yes]
      BY <1>5 DEF Sent, Heard
    <2> HIDE DEF r, w, yes, wc
    <2>2. Sent(c) \in ChanRec /\ Sent(c).data = r.data /\ Sent(c).state = wc /\ o \in OutRec /\ o.toks = w.toks
      BY <1>0, <1>2, <2>1 DEF ChanRec, OutRec
    <2>3. QED
      BY <1>1, <1>5, <2>2 DEF r, w, wc
  <1>6. CASE r.state = "IDLE" /\ ~r.ack
    <2>1. r.data
      BY <1>6 DEF ToSend
    <2>2. c = "sync"
      BY <2>1, TwoChans DEF ChansQuiet
    <2>3. Sent(c) = [r EXCEPT !.state = wr]
      BY <1>6 DEF Sent
    <2>4. PICK t \in Answers : o = [w EXCEPT !.toks = t]
      <3>1. Heard(c) = {[out[c] EXCEPT !.toks = s] : s \in Answers}
        BY <1>6 DEF Heard, Answers
      <3>2. QED
        BY <3>1
    <2>5. t \in Seq(Tokens)
      BY <1>6, <2>2, AnswersShape DEF SyncState
    <2> HIDE DEF r, w, wr
    <2>6. Sent(c) \in ChanRec /\ Sent(c).data = r.data /\ Sent(c).state = wr /\ o \in OutRec /\ o.toks = t
      BY <1>0, <1>2, <2>3, <2>4, <2>5 DEF ChanRec, OutRec
    <2>7. QED
      BY <1>1, <1>6, <2>1, <2>2, <2>6 DEF r, w, wr
  <1>7. QED
    BY <1>3, <1>4, <1>5, <1>6 DEF ToSend

LEMMA ChannelTasksKeeps == ASSUME PhoneInv, ChansQuiet, ChannelTasks PROVE PhoneInv'
  <1>1. pm.pc = "chan" /\ ~InCall /\ Attached /\ pm' = [pm EXCEPT !.pc = "main"] /\ UNCHANGED <<fVars, conn, peer, pkt>>
    BY DEF ChannelTasks
  <1>2. conn # "DISCONNECTED" /\ ChanOK /\ OutOK /\ FileOK(file) /\ chan \in [Chans -> ChanRec] /\ "main" \in {"conn", "chan", "main"} /\ pm.pc # "write"
    BY <1>1, Known, Parts DEF ChanOK, ChanRec
  <1>3. ASSUME FileTasks(chan), UNCHANGED out PROVE PhoneInv'
    <2>1. OutOK' /\ out'["sync"] = out["sync"]
      BY <1>2, <1>3 DEF OutOK
    <2>2. \/ /\ file.state = "WAIT_OPEN" /\ ChanOK' /\ chan'["sync"].state = "IDLE"
             /\ FileOK(file') /\ file'.state = "WAIT_HEADER" /\ file'.remain = 2 /\ file'.hdr = file.hdr /\ file'.func = file.func
          \/ file' = file /\ ChanOK' /\ chan' = chan
      BY <1>2, <1>3, TasksShape
    <2>3. QED
      BY <1>1, <1>2, <2>1, <2>2, RequestKeeps, ShellAlone
  <1>4. ASSUME NEW c \in Chans, ToSend(c), NEW o \in Heard(c), out' = [out EXCEPT ![c] = o], FileTasks([chan EXCEPT ![c] = Sent(c)])
        PROVE  PhoneInv'
    <2> DEFINE r == Sent(c)  ch == [chan EXCEPT ![c] = r]
    <2>1. /\ r \in ChanRec /\ o \in OutRec /\ r.data = chan[c].data /\ chan[c].state # "FREE"
          /\ \/ o.toks = out[c].toks /\ r.state = chan[c].state
             \/ o.toks = out[c].toks /\ chan[c].state = "START" /\ r.state = "WAIT_OPEN"
             \/ o.toks = out[c].toks /\ chan[c].state = "CLOSE_REQUESTED" /\ r.state = "WAIT_CLOSE"
             \/ c = "sync" /\ o.toks \in Answers /\ chan[c].state = "IDLE" /\ chan[c].data /\ r.state = "WAIT_READY"
      BY <1>1, <1>4, TurnShape
    <2>2. OutOK' /\ out'[c] = o /\ (c = "shell" => out'["sync"] = out["sync"])
      BY <1>2, <1>4, <2>1, OutSet, TwoChans
    <2> HIDE DEF r
    <2>3. ch \in [Chans -> ChanRec] /\ ch[c] = r /\ (c = "shell" => ch["sync"] = chan["sync"])
      BY <1>2, <2>1, TwoChans
    <2>4. FileTasks(ch)
      BY <1>4 DEF r
    <2> HIDE DEF ch
    <2>5. \/ /\ file.state = "WAIT_OPEN" /\ ch["sync"].state = "IDLE" /\ ChanOK' /\ chan'["sync"].state = "IDLE"
             /\ FileOK(file') /\ file'.state = "WAIT_HEADER" /\ file'.remain = 2 /\ file'.hdr = file.hdr /\ file'.func = file.func
          \/ file' = file /\ ChanOK' /\ chan' = ch
      BY <1>2, <2>3, <2>4, TasksShape
    <2>6. CASE c = "shell"
      BY <1>1, <1>2, <2>2, <2>3, <2>5, <2>6, RequestKeeps, ShellAlone
    <2>7. CASE c = "sync"
      <3>1. CASE file' = file /\ ChanOK' /\ chan' = ch
        <4>1. UNCHANGED <<fVars, file, pkt, conn, peer>> /\ UNCHANGED <<fVars, conn, peer, pkt, file>>
          BY <1>1, <3>1
        <4>2. chan'["sync"].state = r.state /\ chan'["sync"].data = chan["sync"].data /\ SyncState' = r.state /\ SyncState = chan[c].state
          BY <2>1, <2>3, <2>7, <3>1 DEF SyncState
        <4>3. CASE o.toks = out[c].toks
          <5>1. out'["sync"].toks = out["sync"].toks /\ Coming' = Coming
            BY <1>1, <2>2, <2>7, <4>3 DEF Coming
          <5>2. pm'.auth = pm.auth
            BY <1>1, PcShape, Parts
          <5>3. SyncState # "FREE" /\ SyncState' # "FREE" /\ file.func # "none"
            BY <2>1, <4>2, OpenFile
          <5>4. \/ SyncState' = SyncState
                \/ SyncState = "START" /\ SyncState' = "WAIT_OPEN"
                \/ SyncState = "CLOSE_REQUESTED" /\ SyncState' = "WAIT_CLOSE"
                \/ SyncState = "IDLE" /\ SyncState' = "WAIT_READY" /\ chan["sync"].data
            BY <2>1, <2>7, <4>2
          <5>5. ChannelInStep'
            BY <4>1, <4>2, <5>1, <5>2, <5>3, <5>4, Parts DEF ChannelInStep, Closing
          <5>6. SyncState \in Closing => SyncState' \in Closing
            BY <5>4 DEF Closing
          <5>7. QED
            BY <1>1, <1>2, <2>2, <3>1, <4>1, <5>1, <5>3, <5>5, <5>6, SyncMoves
        <4>4. CASE o.toks \in Answers /\ chan[c].state = "IDLE" /\ chan[c].data /\ r.state = "WAIT_READY"
          BY <1>1, <2>2, <2>7, <3>1, <4>1, <4>2, <4>4, AnswerKeeps DEF Answers
        <4>5. QED
          BY <2>1, <4>3, <4>4
      <3>2. CASE /\ file.state = "WAIT_OPEN" /\ ch["sync"].state = "IDLE" /\ ChanOK' /\ chan'["sync"].state = "IDLE"
                 /\ FileOK(file') /\ file'.state = "WAIT_HEADER" /\ file'.remain = 2 /\ file'.hdr = file.hdr /\ file'.func = file.func
        <4>1. o.toks = out[c].toks
          BY <2>1, <2>3, <2>7, <3>2
        <4>2. QED
          BY <1>1, <2>2, <2>7, <3>2, <4>1, RequestKeeps
      <3>3. QED
        BY <2>5, <3>1, <3>2
    <2>8. QED
      BY <2>6, <2>7, TwoChans
  <1>5. QED
    BY <1>3, <1>4 DEF ChannelTasks

-----------------------------------------------------------------------------
(* ADBFileCallback.                                                        *)

\* ADBFileCallback is running.
LEMMA CallMeans ==
    ASSUME PhoneInv, ChansQuiet, pkt.on
    PROVE  /\ pm.pc = "chan" /\ SyncState # "FREE" /\ ~Closed /\ file.func \in {"fp", "packages", "image"} /\ ~Astray
           /\ pkt.toks \in Seq(Tokens) /\ out["sync"].toks \in Seq(Tokens) /\ Coming = pkt.toks \o out["sync"].toks
  <1>1. InCall
    BY DEF InCall
  <1>2. pm.pc = "chan" /\ PktOK /\ OutOK
    BY <1>1, NotCalled, Parts
  <1>3. SyncState # "FREE"
    BY DEF ChansQuiet
  <1>4. pkt.toks \in Seq(Tokens) /\ out["sync"].toks \in Seq(Tokens)
    BY <1>2, ComingShape
  <1>5. QED
    BY <1>2, <1>3, <1>4, OpenFile DEF Astray, Coming

LEMMA PacketRest ==
    ASSUME PktOK, pkt.on, NEW n \in 0 .. Len(pkt.toks), pkt' = Rest(n)
    PROVE  PktOK' /\ pkt'.on /\ pkt'.toks = SubSeq(pkt.toks, n + 1, Len(pkt.toks))
  <1> DEFINE u == SubSeq(pkt.toks, n + 1, Len(pkt.toks))
  <1>1. pkt.toks \in Seq(Tokens)
    BY DEF PktOK
  <1>2. u \in Seq(Tokens)
    BY <1>1, CutAndJoin
  <1>3. pkt' = [pkt EXCEPT !.toks = u]
    BY DEF Rest, Left
  <1> HIDE DEF u
  <1>4. PktOK' /\ pkt'.on /\ pkt'.toks = u
    BY <1>2, <1>3 DEF PktOK
  <1>5. QED
    BY <1>4 DEF u

LEMMA PacketGone == ASSUME pkt' = NoPkt, OutOK, UNCHANGED out PROVE PktOK' /\ ~pkt'.on /\ pkt'.toks = <<>> /\ Coming' = out["sync"].toks
  <1>1. <<>> \in Seq(Tokens) /\ out["sync"].toks \in Seq(Tokens)
    BY TwoChans DEF OutOK
  <1>2. PktOK' /\ ~pkt'.on /\ pkt'.toks = <<>>
    BY <1>1 DEF PktOK, NoPkt
  <1>3. QED
    BY <1>1, <1>2, ConcatNothing DEF Coming

LEMMA SyncClosed ==
    ASSUME ChanOK, SyncState # "FREE", chan' = ADBClose("sync")
    PROVE  ChanOK' /\ SyncState' = "CLOSE_REQUESTED" /\ SyncState' \in Closing /\ chan'["shell"] = chan["shell"] /\ chan'["sync"].data = chan["sync"].data
  <1> DEFINE cr == "CLOSE_REQUESTED"  r == [chan["sync"] EXCEPT !.state = cr]
  <1>1. chan["sync"] \in ChanRec /\ cr \in ChanStates
    BY ChanShape, TwoChans DEF ChanStates
  <1>2. chan' = [chan EXCEPT !["sync"] = r]
    BY TwoChans DEF ADBClose, SyncState, ChanOK
  <1> HIDE DEF cr
  <1>3. r \in ChanRec /\ r.state = cr /\ r.data = chan["sync"].data
    BY <1>1 DEF ChanRec
  <1> HIDE DEF r
  <1>4. ChanOK' /\ chan'["sync"] = r /\ chan'["shell"] = chan["shell"]
    BY <1>2, <1>3, TwoChans, ChanSet
  <1>5. QED
    BY <1>3, <1>4 DEF cr, SyncState, Closing

\* The channel stays as it is.
LEMMA StaysInStep ==
    ASSUME ChannelInStep, SyncState # "FREE", chan' = chan, file'.func = file.func, file.func # "none",
           file.func = "packages" /\ pm.auth # "BUSY" => pm'.auth # "BUSY",
           file.state \notin {"WAIT_OPEN", "WAIT_CLOSE", "ERROR"}, file'.state # "WAIT_OPEN",
           file.state = "WAIT_HEADER" /\ file.hdr = <<>> /\ Coming = <<>> /\ file.remain = 2 =>
             file'.state = "WAIT_HEADER" /\ file'.hdr = <<>> /\ file'.remain = 2 /\ Coming' = <<>>
    PROVE  ChannelInStep'
  <1>1. SyncState' = SyncState
    BY DEF SyncState
  <1>2. QED
    BY <1>1 DEF ChannelInStep

LEMMA ClosesInStep ==
    ASSUME SyncState' \in Closing, file'.func # "none", file'.state # "WAIT_OPEN", file'.state \in {"WAIT_CLOSE", "ERROR"} \/ (file'.func = "packages" /\ pm'.auth # "BUSY")
    PROVE  ChannelInStep'
  BY DEF ChannelInStep, Closing

\* A step of the callback that hands nothing on.
LEMMA CallKeeps ==
    ASSUME PhoneInv, ChansQuiet, pkt.on, UNCHANGED <<fVars, pm, conn, peer, out>>, FileOK(file'), file'.func = file.func, PktOK', ChanOK', ChannelInStep',
           \A v \in Versions, ok \in BOOLEAN, c \in Nat :
             Reading(file, Coming, FileOf(v, ok, file.func), c) => Reading(file', Coming', FileOf(v, ok, file.func), c)
    PROVE  PhoneInv'
  <1>1. pm.pc = "chan" /\ ~Closed /\ file.func # "none" /\ ~Astray
    BY CallMeans
  <1>2. PmOK' /\ OutOK'
    BY Parts DEF PmOK, OutOK
  <1>3. PhoneTypeOK'
    BY <1>2, Parts DEF PhoneTypeOK, fVars
  <1>4. UNCHANGED <<fVars, conn, peer>> /\ pm' = pm /\ pm'.pc = "chan" /\ pm.pc # "write"
    BY <1>1
  <1>5. QED
    BY <1>1, <1>3, <1>4, StreamKeeps

\* CloseAndError.
LEMMA ErrorKeeps == ASSUME PhoneInv, ChansQuiet, pkt.on, CloseAndError, UNCHANGED <<fVars, pm, conn, peer, out>> PROVE PhoneInv'
  <1> DEFINE e == "ERROR"
  <1>1. file' = [file EXCEPT !.state = e] /\ chan' = ADBClose("sync") /\ pkt' = NoPkt /\ e \in FileStates
    BY DEF CloseAndError, FileStates
  <1> HIDE DEF e
  <1>2. FileOK(file') /\ file'.func = file.func /\ file'.state = e
    BY <1>1, Parts DEF FileOK
  <1>3. ChanOK /\ OutOK /\ SyncState # "FREE" /\ file.func # "none"
    BY Parts, CallMeans
  <1>4. ChanOK' /\ SyncState' \in Closing /\ PktOK'
    BY <1>1, <1>3, SyncClosed, PacketGone
  <1>5. ChannelInStep'
    BY <1>2, <1>3, <1>4, ClosesInStep DEF e
  <1>6. \A s, c : Reading(file', Coming', s, c)
    BY <1>2 DEF Reading, Over, e
  <1>7. QED
    BY <1>2, <1>4, <1>5, <1>6, CallKeeps

LEMMA FileHeaderKeeps == ASSUME PhoneInv, ChansQuiet, FileHeader PROVE PhoneInv'
  <1> DEFINE t == pkt.toks  o == out["sync"].toks  m == file.remain
  <1>1. pkt.on /\ file.state = "WAIT_HEADER" /\ UNCHANGED <<fVars, pm, conn, peer, out>>
    BY DEF FileHeader, Callback
  <1>2. t \in Seq(Tokens) /\ o \in Seq(Tokens) /\ Coming = t \o o /\ SyncState # "FREE" /\ file.func \in {"fp", "packages", "image"}
    BY <1>1, CallMeans
  <1>3. FileOK(file) /\ PktOK /\ ChanOK /\ OutOK /\ ChannelInStep
    BY Parts
  <1>4. m \in Nat /\ file.hdr \in Seq(Tokens) /\ Len(t) \in Nat
    BY <1>2, <1>3 DEF FileOK
  <1>5. CASE Len(t) < m
    <2>1. Min({Left, m}) = Len(t)
      BY <1>4, <1>5, MinOfTwo DEF Left
    <2>2. SubSeq(t, 1, Len(t)) = t
      BY <1>2
    <2>3. file' = [file EXCEPT !.hdr = file.hdr \o t, !.remain = file.remain - Len(t)] /\ pkt' = NoPkt /\ chan' = chan
      BY <1>3, <1>5, <2>1, <2>2 DEF FileHeader, Left, FileOK
    <2> HIDE DEF t, o, m
    <2>4. file.hdr \o t \in Seq(Tokens) /\ file.remain - Len(t) \in Nat
      BY <1>2, <1>4, <1>5, ConcatShape DEF m
    <2>5. FileOK(file') /\ file'.func = file.func /\ file'.state = "WAIT_HEADER" /\ file'.hdr = file.hdr \o t /\ file'.remain = file.remain - Len(t)
      BY <1>1, <1>3, <2>3, <2>4 DEF FileOK
    <2>6. PktOK' /\ Coming' = o
      BY <1>1, <1>3, <2>3, PacketGone DEF o
    <2>7. ChanOK'
      BY <1>3, <2>3 DEF ChanOK
    <2>8. file.hdr = <<>> /\ Coming = <<>> /\ file.remain = 2 => file'.hdr = <<>> /\ file'.remain = 2 /\ Coming' = <<>>
      <3>1. SUFFICES ASSUME file.hdr = <<>>, Coming = <<>>, file.remain = 2 PROVE file'.hdr = <<>> /\ file'.remain = 2 /\ Coming' = <<>>
        OBVIOUS
      <3>2. t = <<>> /\ o = <<>>
        BY <1>2, <3>1, NoMore
      <3>3. QED
        BY <2>5, <2>6, <3>1, <3>2
    <2>9. ChannelInStep'
      BY <1>1, <1>2, <1>3, <2>3, <2>5, <2>8, StaysInStep
    <2>10. ASSUME NEW v \in Versions, NEW ok \in BOOLEAN, NEW c \in Nat, Reading(file, Coming, FileOf(v, ok, file.func), c)
           PROVE  Reading(file', Coming', FileOf(v, ok, file.func), c)
      <3> DEFINE s == FileOf(v, ok, file.func)
      <3>1. s \in Seq(Tokens) /\ Reading(file, t \o o, s, c)
        BY <1>2, <2>10, FilesShape
      <3> HIDE DEF s
      <3>2. Reading(file', o, s, c)
        BY <1>1, <1>2, <1>3, <1>5, <2>3, <3>1, HeaderWaits DEF m
      <3>3. QED
        BY <2>6, <3>2 DEF s
    <2>11. QED
      BY <1>1, <2>5, <2>6, <2>7, <2>9, <2>10, CallKeeps
  <1>6. CASE m <= Len(t)
    <2> DEFINE h == HeaderOf(file, t)  g == WithHeader(file, h)  u == SubSeq(t, m + 1, Len(t))
    <2>1. Min({Left, m}) = m /\ ~(Left < m)
      BY <1>4, <1>6, MinOfTwo DEF Left
    <2>2. \A v \in Versions, ok \in BOOLEAN, c \in Nat : Reading(file, Coming, FileOf(v, ok, file.func), c) =>
             FileOK(g) /\ Reading(g, u \o o, FileOf(v, ok, file.func), c) /\ h[1].t \in {"DATA", "DONE", "FAIL"}
      <3>1. SUFFICES ASSUME NEW v \in Versions, NEW ok \in BOOLEAN, NEW c \in Nat, Reading(file, Coming, FileOf(v, ok, file.func), c)
                     PROVE  FileOK(g) /\ Reading(g, u \o o, FileOf(v, ok, file.func), c) /\ h[1].t \in {"DATA", "DONE", "FAIL"}
        OBVIOUS
      <3> DEFINE s == FileOf(v, ok, file.func)
      <3>2. s \in Seq(Tokens) /\ Reading(file, t \o o, s, c)
        BY <1>2, <3>1, FilesShape
      <3> HIDE DEF s, t, o
      <3>3. FileOK(g) /\ Reading(g, u \o o, s, c) /\ h[1].t \in {"DATA", "DONE", "FAIL"}
        BY <1>1, <1>2, <1>3, <1>6, <3>2, HeaderDoneReads
      <3>4. QED
        BY <3>3 DEF s
    <2>3. \E v \in Versions, ok \in BOOLEAN, c \in Nat : Reading(file, Coming, FileOf(v, ok, file.func), c)
      <3>1. PICK v \in Versions, ok \in BOOLEAN : FollowsFile(v, ok)
        BY Parts
      <3>2. PICK c \in Nat : Reading(file, Coming, FileOf(v, ok, file.func), c)
        BY <1>1, <1>2, <3>1, CallMeans DEF FollowsFile, FollowsAt
      <3>3. QED
        BY <3>2
    <2>4. FileOK(g) /\ h[1].t \in {"DATA", "DONE", "FAIL"}
      BY <2>2, <2>3
    <2>5. file' = g /\ pkt' = Rest(m) /\ chan' = chan
      BY <2>1, <2>4 DEF FileHeader, HeaderOf, WithHeader
    <2>6. g.func = file.func /\ g.state \in {"WAIT_DATA", "WAIT_FAIL_DATA"}
      BY <1>3 DEF WithHeader, FileOK
    <2>7. PktOK' /\ pkt'.toks = u
      <3>1. PktOK /\ pkt.on /\ m \in 0 .. Len(pkt.toks)
        BY <1>1, <1>3, <1>4, <1>6
      <3> HIDE DEF m
      <3>2. PktOK' /\ pkt'.toks = SubSeq(pkt.toks, m + 1, Len(pkt.toks))
        BY <2>5, <3>1, PacketRest
      <3>3. QED
        BY <3>2
    <2>8. Coming' = u \o o
      BY <1>1, <2>7 DEF Coming
    <2>9. ~(Coming = <<>> /\ file.remain = 2)
      <3>1. SUFFICES ASSUME Coming = <<>>, file.remain = 2 PROVE FALSE
        OBVIOUS
      <3>2. t = <<>>
        BY <1>2, <3>1, NoMore
      <3>3. QED
        BY <1>6, <3>1, <3>2
    <2> HIDE DEF t, o, m, g, h, u
    <2>10. ChannelInStep'
      BY <1>1, <1>2, <1>3, <2>5, <2>6, <2>9, StaysInStep
    <2>11. ChanOK'
      BY <1>3, <2>5 DEF ChanOK
    <2>12. QED
      BY <1>1, <2>2, <2>4, <2>5, <2>6, <2>7, <2>8, <2>10, <2>11, CallKeeps
  <1>7. QED
    BY <1>4, <1>5, <1>6

LEMMA FileFailKeeps == ASSUME PhoneInv, ChansQuiet, FileFail PROVE PhoneInv'
  <1>1. pkt.on /\ UNCHANGED <<fVars, pm, conn, peer, out>>
    BY DEF FileFail, Callback
  <1>2. CASE CloseAndError
    BY <1>1, <1>2, ErrorKeeps
  <1>3. CASE file.state = "WAIT_FAIL_DATA" /\ ~(Left >= file.remain) /\ file' = [file EXCEPT !.remain = @ - Left] /\ pkt' = NoPkt /\ UNCHANGED chan
    <2> DEFINE n == file.remain - Left
    <2>1. FileOK(file) /\ OutOK /\ ChanOK /\ ChannelInStep /\ SyncState # "FREE" /\ file.func # "none" /\ pkt.toks \in Seq(Tokens)
      BY <1>1, Parts, CallMeans
    <2>2. n \in Nat /\ file' = [file EXCEPT !.remain = n]
      BY <1>3, <2>1 DEF FileOK, Left
    <2> HIDE DEF n
    <2>3. FileOK(file') /\ file'.func = file.func /\ file'.state = "WAIT_FAIL_DATA"
      BY <1>3, <2>1, <2>2 DEF FileOK
    <2>4. PktOK' /\ ChanOK' /\ chan' = chan
      BY <1>1, <1>3, <2>1, PacketGone DEF ChanOK
    <2>5. ChannelInStep'
      BY <1>1, <1>3, <2>1, <2>3, <2>4, StaysInStep
    <2>6. \A s, c : Reading(file', Coming', s, c)
      BY <2>3 DEF Reading, Refused
    <2>7. QED
      BY <1>1, <2>3, <2>4, <2>5, <2>6, CallKeeps
  <1>4. QED
    BY <1>2, <1>3 DEF FileFail

LEMMA FileIgnoreKeeps == ASSUME PhoneInv, ChansQuiet, FileIgnore PROVE PhoneInv'
  <1>1. pkt.on /\ UNCHANGED <<fVars, pm, conn, peer, out, chan, file>> /\ file.state \in {"WAIT_CLOSE", "ERROR"} /\ pkt' = NoPkt
    BY DEF FileIgnore, Callback
  <1>2. FileOK(file') /\ ChanOK' /\ OutOK /\ ChannelInStep /\ PktOK'
    BY <1>1, PacketGone, Parts DEF FileOK, ChanOK
  <1>3. ChannelInStep'
    <2>1. ~Closed /\ file.func # "none" /\ SyncState # "FREE"
      BY <1>1, CallMeans
    <2>2. SyncState' = SyncState
      BY <1>1 DEF SyncState
    <2>3. QED
      BY <1>1, <1>2, <2>1, <2>2 DEF ChannelInStep
  <1>4. ASSUME NEW s, NEW c, Reading(file, Coming, s, c) PROVE Reading(file', Coming', s, c)
    <2>1. Over(file, s, c)
      BY <1>1, <1>4, AtTheEnd DEF Over
    <2>2. QED
      BY <1>1, <2>1 DEF Reading
  <1>5. QED
    BY <1>1, <1>2, <1>3, <1>4, CallKeeps

-----------------------------------------------------------------------------
(* f->func with data.                                                      *)

\* FileRecvFingerprint with words of the fingerprint.
LEMMA PrintGrows ==
    ASSUME PmOK, NEW v \in Versions, NEW d \in Seq(Tokens), \A i \in 1 .. Len(d) : d[i].n = v, PrintOf(v), Len(pm.fp) + Len(d) <= FpWords,
           pm' = [pm EXCEPT !.fp = @ \o [i \in 1 .. Len(d) |-> d[i].n]]
    PROVE  /\ PmOK' /\ pm'.pc = pm.pc /\ pm'.state = pm.state /\ pm'.written = pm.written /\ pm'.auth = pm.auth /\ pm'.bad = pm.bad
           /\ PrintOf(v)' /\ Len(pm'.fp) <= FpWords
  <1> DEFINE w == [i \in 1 .. Len(d) |-> d[i].n]  a == pm.fp
  <1>1. v \in Int /\ FpWords \in Nat /\ Len(d) \in Nat
    BY FileShape, IoioFileAssumption
  <1>2. w \in Seq(Int) /\ Len(w) = Len(d) /\ \A i \in 1 .. Len(d) : w[i] = v
    BY <1>1
  <1>3. a \in Seq(Int) /\ \A i \in 1 .. Len(a) : a[i] = v
    BY DEF PmOK, PrintOf
  <1>4. pm' = [pm EXCEPT !.fp = a \o w]
    BY DEF PmOK
  <1>5. Len(a) + Len(d) <= FpWords
    OBVIOUS
  <1> HIDE DEF a, w
  <1>6. a \o w \in Seq(Int) /\ Len(a \o w) = Len(a) + Len(d) /\ \A i \in 1 .. Len(a \o w) : (a \o w)[i] = v
    <2>1. a \o w \in Seq(Int) /\ Len(a \o w) = Len(a) + Len(w)
      BY <1>2, <1>3, ConcatShape
    <2>2. (\A i \in 1 .. Len(a) : (a \o w)[i] = a[i]) /\ \A i \in 1 .. Len(w) : (a \o w)[Len(a) + i] = w[i]
      BY <1>2, <1>3, ConcatShape
    <2>3. ASSUME NEW i \in 1 .. Len(a) + Len(w) PROVE (a \o w)[i] = v
      <3>1. CASE i <= Len(a)
        BY <1>3, <2>2, <3>1
      <3>2. CASE i > Len(a)
        <4>1. i - Len(a) \in 1 .. Len(w) /\ Len(a) + (i - Len(a)) = i
          BY <1>2, <1>3, <3>2
        <4>2. (a \o w)[Len(a) + (i - Len(a))] = w[i - Len(a)]
          BY <2>2, <4>1
        <4>3. QED
          BY <1>2, <4>1, <4>2
      <3>3. QED
        BY <1>2, <1>3, <3>1, <3>2
    <2>4. QED
      BY <1>2, <2>1, <2>3
  <1> DEFINE b == a \o w
  <1> HIDE DEF b
  <1>7. PmOK' /\ pm'.fp = b /\ pm'.pc = pm.pc /\ pm'.state = pm.state /\ pm'.written = pm.written /\ pm'.auth = pm.auth /\ pm'.bad = pm.bad
    BY <1>4, <1>6 DEF PmOK, b
  <1>8. PrintOf(v)' /\ Len(pm'.fp) <= FpWords
    BY <1>5, <1>6, <1>7 DEF PrintOf, b
  <1>9. QED
    BY <1>7, <1>8

\* AuthProcess on a piece of packages.xml: only a certificate that is in it passes.
LEMMA PassMeans ==
    ASSUME NEW v, NEW ok \in BOOLEAN, NEW c \in Nat, NEW d \in Seq(Tokens), PieceAt(d, FileOf(v, ok, "packages"), c), AuthProcess(d) = "PASS"
    PROVE  ok
  <1>1. PICK i \in 1 .. Len(d) : d[i] = Tok("cert", 1)
    BY DEF AuthProcess
  <1> DEFINE x == IF ok THEN 1 ELSE 0  s == <<Tok("text", 0), Tok("cert", x), Tok("text", 0)>>
  <1>2. s = FileOf(v, ok, "packages")
    BY DEF FileOf
  <1>3. PieceAt(d, s, c)
    BY <1>2
  <1>4. Len(s) = 3 /\ s[1] = Tok("text", 0) /\ s[2] = Tok("cert", x) /\ s[3] = Tok("text", 0)
    OBVIOUS
  <1> HIDE DEF s, x
  <1>5. c + i \in 1 .. 3 /\ s[c + i] = Tok("cert", 1)
    BY <1>1, <1>3, <1>4 DEF PieceAt
  <1>6. s[c + i] = Tok("text", 0) \/ s[c + i] = Tok("cert", x)
    BY <1>4, <1>5
  <1>7. x = 1
    BY <1>5, <1>6 DEF Tok
  <1>8. QED
    BY <1>7 DEF x

\* f->func with a piece of the file.
LEMMA FuncKeeps ==
    ASSUME PhoneInv, ~Closed, HandleBufferDone, ~img.failed, file.func \in {"fp", "packages", "image"},
           NEW v \in Versions, NEW ok \in BOOLEAN, Knows(v, ok), NEW c \in Nat, file.func = "image" => Installs(v, c),
           NEW d \in Seq(Tokens), PieceAt(d, FileOf(v, ok, file.func), c), FileFunc(d), file'.func = file.func
    PROVE  /\ PmOK' /\ pm'.pc = pm.pc /\ pm'.state = pm.state /\ pm'.written = pm.written /\ Knows(v, ok)'
           /\ file.func = "image" => Installs(v, c + Len(d))'
           /\ flash' = flash /\ img' = img /\ InstallerOK(flash', img', buf') /\ (file.func # "image" => buf' = buf)
           /\ Verdict(d) => file.func = "packages" /\ pm'.auth # "BUSY"
           /\ file.func = "packages" /\ pm.auth # "BUSY" => pm'.auth # "BUSY"
  <1> DEFINE s == FileOf(v, ok, file.func)
             Same == pm'.pc = pm.pc /\ pm'.state = pm.state /\ pm'.written = pm.written
  <1>1. flash' = flash /\ img' = img /\ buf' = IF file.func = "image" THEN d ELSE buf
    BY DEF FileFunc
  <1>2. InstallerOK(flash', img', buf') /\ PmOK /\ InstallerOK(flash, img, buf)
    BY <1>1, Parts DEF InstallerOK
  <1>3. pm.state \notin Between /\ pm.state # "AUTH_PASSED" /\ pm.state # "RECV_IMAGE_DONE"
    BY Parts DEF LoopInStep, Between
  <1>4. ASSUME Same, PrintOf(v)', Len(pm'.fp) <= FpWords, file.func # "fp" => pm'.fp = pm.fp, file.func = "packages" /\ pm'.auth = "PASS" => ok
        PROVE  Knows(v, ok)'
    BY <1>1, <1>3, <1>4 DEF Knows, FpErased
  <1>5. PrintOf(v) /\ Len(pm.fp) <= FpWords
    BY DEF Knows
  <1>6. CASE pm' = pm /\ (file.func = "packages" => ~Verdict(d))
    <2>1. PmOK' /\ Same /\ PrintOf(v)' /\ pm'.fp = pm.fp /\ pm'.auth = pm.auth
      BY <1>2, <1>5, <1>6 DEF PmOK, PrintOf
    <2>2. Knows(v, ok)'
      BY <1>4, <1>5, <2>1 DEF Knows
    <2>3. file.func = "image" => Installs(v, c + Len(d))'
      <3>1. SUFFICES ASSUME file.func = "image" PROVE Installs(v, c + Len(d))'
        OBVIOUS
      <3>2. PieceAt(d, ImageFile(v), c) /\ buf' = d /\ Installs(v, c)
        BY <1>1, <3>1 DEF FileOf
      <3>3. QED
        BY <1>1, <1>2, <3>2, ImageHandedOn
    <2>4. ~Verdict(d)
      BY <1>6 DEF Verdict
    <2>5. QED
      BY <1>1, <1>2, <2>1, <2>2, <2>3, <2>4
  <1>7. CASE file.func = "fp" /\ d # <<>>
    <2>1. \A i \in 1 .. Len(d) : d[i].n = v
      <3>1. s = [i \in 1 .. FpWords |-> Tok("word", v)] /\ FpWords \in Nat
        BY <1>7, IoioFileAssumption DEF FileOf
      <3>2. Len(s) = FpWords /\ \A i \in 1 .. FpWords : s[i] = Tok("word", v)
        BY <3>1
      <3>3. PieceAt(d, s, c)
        OBVIOUS
      <3> HIDE DEF s
      <3>4. \A i \in 1 .. Len(d) : d[i] = Tok("word", v)
        BY <3>1, <3>2, <3>3 DEF PieceAt
      <3>5. QED
        BY <3>4 DEF Tok
    <2>2. ~Verdict(d) /\ file.func # "image"
      BY <1>7 DEF Verdict
    <2>3. CASE ~pm.bad /\ Len(pm.fp) + Len(d) <= FpWords
      <3>1. pm' = [pm EXCEPT !.fp = @ \o [i \in 1 .. Len(d) |-> d[i].n]]
        BY <1>7, <2>3 DEF FileFunc
      <3>2. PmOK' /\ Same /\ PrintOf(v)' /\ Len(pm'.fp) <= FpWords
        BY <1>2, <1>5, <2>1, <2>3, <3>1, PrintGrows
      <3>3. QED
        BY <1>1, <1>2, <1>4, <1>7, <2>2, <3>2
    <2>4. CASE ~(~pm.bad /\ Len(pm.fp) + Len(d) <= FpWords)
      <3> DEFINE yes == TRUE
      <3>1. pm' = [pm EXCEPT !.bad = yes] /\ yes \in BOOLEAN
        BY <1>7, <2>4 DEF FileFunc
      <3> HIDE DEF yes
      <3>2. PmOK' /\ Same /\ pm'.fp = pm.fp
        BY <1>2, <3>1 DEF PmOK
      <3>3. PrintOf(v)'
        BY <1>5, <3>2 DEF PrintOf
      <3>4. QED
        BY <1>1, <1>2, <1>4, <1>5, <1>7, <2>2, <3>2, <3>3
    <2>5. QED
      BY <2>3, <2>4
  <1>8. CASE file.func = "packages" /\ d # <<>> /\ pm.auth = "BUSY"
    <2> DEFINE a == AuthProcess(d)
    <2>1. pm' = [pm EXCEPT !.auth = a]
      BY <1>8 DEF FileFunc
    <2>2. a \in {"BUSY", "PASS", "FAIL"}
      BY DEF AuthProcess
    <2>3. a = "PASS" => ok
      BY <1>8, PassMeans
    <2>4. Verdict(d) => a # "BUSY"
      BY DEF Verdict
    <2> HIDE DEF a
    <2>5. PmOK' /\ Same /\ pm'.fp = pm.fp /\ pm'.auth = a
      BY <1>2, <2>1, <2>2 DEF PmOK
    <2>6. PrintOf(v)'
      BY <1>5, <2>5 DEF PrintOf
    <2>7. QED
      BY <1>1, <1>2, <1>4, <1>5, <1>8, <2>3, <2>4, <2>5, <2>6
  <1>9. CASE file.func = "packages" /\ pm.auth # "BUSY"
    <2>1. pm' = pm /\ ~Verdict(d)
      BY <1>9 DEF FileFunc, Verdict
    <2>2. pm' = pm /\ (file.func = "packages" => ~Verdict(d))
      BY <2>1
    <2> HIDE DEF s, Same
    <2>3. QED
      BY <1>6, <2>2, Zenon
  <1>10. CASE d = <<>>
    <2>1. AuthProcess(d) = "BUSY"
      BY <1>10 DEF AuthProcess, Holds
    <2>2. pm' = pm
      BY <1>10 DEF FileFunc
    <2>3. file.func = "packages" => ~Verdict(d)
      BY <2>1 DEF Verdict
    <2> HIDE DEF s, Same
    <2>4. QED
      BY <1>6, <2>2, <2>3, Zenon
  <1>11. CASE file.func = "image"
    <2>1. file.func # "fp" /\ file.func # "packages"
      BY <1>11
    <2>2. pm' = pm
      BY <2>1 DEF FileFunc
    <2>3. QED
      BY <1>6, <2>1, <2>2
  <1>12. QED
    BY <1>7, <1>8, <1>9, <1>10, <1>11

\* In the data of a chunk, or at the end of the file.
LEMMA InData ==
    ASSUME NEW f, f.state = "WAIT_DATA", NEW u, NEW s, NEW c, Reading(f, u, s, c)
    PROVE  AtDone(f, u, s, c) \/ \E k \in ChunkSizes : InChunk(f, u, s, k, c)
  BY DEF Reading, Requested, Refused, HeadAt, Over, BetweenChunks

\* A piece of the file is handed on.
LEMMA HandedOn ==
    ASSUME PhoneInv, ChansQuiet, pkt.on, HandleBufferDone, ~img.failed,
           NEW v \in Versions, NEW ok \in BOOLEAN, Followed(v, ok), Knows(v, ok), NEW c \in Nat, file.func = "image" => Installs(v, c),
           NEW d \in Seq(Tokens), PieceAt(d, FileOf(v, ok, file.func), c), FileFunc(d), c + Len(d) <= Len(FileOf(v, ok, file.func)),
           FileOK(file'), file'.func = file.func, PktOK', UNCHANGED <<conn, peer, out>>, file.state = "WAIT_DATA", file'.state # "WAIT_OPEN",
           file'.state = "WAIT_CLOSE" => Verdict(d), chan' = IF Verdict(d) THEN ADBClose("sync") ELSE chan,
           Reading(file', Coming', FileOf(v, ok, file.func), c + Len(d))
    PROVE  PhoneInv'
  <1> DEFINE s == FileOf(v, ok, file.func)
  <1>1. pm.pc = "chan" /\ SyncState # "FREE" /\ ~Closed /\ file.func \in {"fp", "packages", "image"} /\ ~Astray
    BY CallMeans
  <1>2. /\ PmOK' /\ pm'.pc = pm.pc /\ pm'.state = pm.state /\ pm'.written = pm.written /\ Knows(v, ok)'
        /\ file.func = "image" => Installs(v, c + Len(d))'
        /\ flash' = flash /\ img' = img /\ InstallerOK(flash', img', buf') /\ (file.func # "image" => buf' = buf)
        /\ Verdict(d) => file.func = "packages" /\ pm'.auth # "BUSY"
        /\ file.func = "packages" /\ pm.auth # "BUSY" => pm'.auth # "BUSY"
    BY <1>1, FuncKeeps
  <1>3. ChanOK' /\ ChannelInStep'
    <2>1. CASE Verdict(d)
      <3>1. ChanOK' /\ SyncState' \in Closing
        BY <1>1, <2>1, SyncClosed, Parts
      <3>2. QED
        BY <1>1, <1>2, <2>1, <3>1, ClosesInStep
    <2>2. CASE ~Verdict(d)
      <3>1. chan' = chan /\ ChanOK'
        BY <2>2, Parts DEF ChanOK
      <3>2. QED
        BY <1>1, <1>2, <3>1, StaysInStep, Parts
    <2>3. QED
      BY <2>1, <2>2
  <1>4. PhoneTypeOK'
    <2>1. OutOK'
      BY Parts DEF OutOK
    <2>2. QED
      BY <1>2, <1>3, <2>1, Parts DEF PhoneTypeOK
  <1>5. file.func # "image" => (HandleBufferDone /\ ~img.failed)'
    BY <1>2 DEF HandleBufferDone
  <1>6. InstalledIsAuthentic' /\ (~PhoneFlashFails => Means(flash)')
    BY <1>2, Parts DEF InstalledIsAuthentic, Means, FpIs, Whole
  <1>7. FollowsFile(v, ok)'
    <2> DEFINE n == c + Len(d)
    <2>1. s' = s /\ n \in Nat /\ n <= Len(s)
      OBVIOUS
    <2>2. Reading(file', Coming', s, n) /\ (file.func = "image" => Installs(v, n)')
      BY <1>2
    <2>h. n' = n
      OBVIOUS
    <2> HIDE DEF s, n
    <2>3. FollowsAt(v, s, n)'
      BY <2>1, <2>2, <2>h DEF FollowsAt
    <2>4. \E x \in Nat : x <= Len(s') /\ FollowsAt(v, s, x)'
      BY <2>1, <2>3, <2>h
    <2>5. QED
      BY <2>1, <2>4 DEF FollowsFile, s
  <1> HIDE DEF s
  <1>8. QED
    BY <1>1, <1>2, <1>3, <1>4, <1>5, <1>6, <1>7, OpenKeeps

\* The end of the file.
LEMMA DoneKeeps == ASSUME PhoneInv, ChansQuiet, FileData, file.remain = 0 PROVE PhoneInv'
  <1> DEFINE t == pkt.toks  o == out["sync"].toks  wc == "WAIT_CLOSE"
  <1>1. pkt.on /\ file.state = "WAIT_DATA" /\ UNCHANGED <<conn, peer, out>> /\ HandleBufferDone /\ ~img.failed
    BY DEF FileData, Callback
  <1>2. t \in Seq(Tokens) /\ o \in Seq(Tokens) /\ Coming = t \o o /\ SyncState # "FREE" /\ file.func \in {"fp", "packages", "image"} /\ ~Astray
    BY <1>1, CallMeans
  <1>3. FileOK(file) /\ PktOK /\ ChanOK /\ OutOK
    BY Parts
  <1>4. ASSUME NEW s, NEW c \in Nat, Reading(file, Coming, s, c) PROVE AtDone(file, Coming, s, c)
    <2>1. \A k : ~InChunk(file, Coming, s, k, c)
      BY DEF InChunk
    <2>2. QED
      BY <1>1, <1>4, <2>1, InData
  <1>5. t = <<>> /\ file.hdr[1].t = "DONE"
    <2>1. PICK v \in Versions, ok \in BOOLEAN : FollowsFile(v, ok)
      BY Parts
    <2>2. PICK c \in Nat : Reading(file, Coming, FileOf(v, ok, file.func), c)
      BY <1>2, <2>1 DEF FollowsFile, FollowsAt
    <2>3. Coming = <<>> /\ file.hdr[1].t = "DONE"
      BY <1>4, <2>2 DEF AtDone
    <2>4. QED
      BY <1>2, <2>3, NoMore
  <1>6. Left = 0 /\ Min({Left, file.remain}) = 0 /\ SubSeq(t, 1, 0) = <<>>
    <2>1. Left = 0
      BY <1>5 DEF Left
    <2>2. QED
      BY <1>2, <2>1, MinOfTwo
  <1>7. ~Verdict(<<>>)
    BY DEF Verdict, AuthProcess, Holds
  <1>8. FileFunc(<<>>) /\ file' = [file EXCEPT !.state = wc] /\ chan' = ADBClose("sync") /\ pkt' = NoPkt
    <2>1. /\ FileFunc(SubSeq(t, 1, 0))
          /\ file' = [file EXCEPT !.state = wc] /\ chan' = ADBClose("sync") /\ pkt' = NoPkt
      BY <1>5, <1>6 DEF FileData
    <2>2. QED
      BY <1>6, <2>1
  <1>9. UNCHANGED <<fVars, pm>> /\ wc \in FileStates
    BY <1>1, <1>8 DEF FileFunc, fVars, HandleBufferDone, FileStates
  <1> HIDE DEF wc, t, o
  <1>10. FileOK(file') /\ file'.func = file.func /\ file'.state = wc
    BY <1>3, <1>8, <1>9 DEF FileOK
  <1>11. ChanOK' /\ SyncState' \in Closing /\ PktOK'
    BY <1>1, <1>2, <1>3, <1>8, SyncClosed, PacketGone
  <1>12. ChannelInStep'
    BY <1>2, <1>10, <1>11, ClosesInStep DEF wc
  <1>13. ASSUME NEW s, NEW c \in Nat, Reading(file, Coming, s, c) PROVE Reading(file', Coming', s, c)
    BY <1>4, <1>10, <1>13 DEF AtDone, Reading, Over, wc
  <1>14. QED
    BY <1>1, <1>9, <1>10, <1>11, <1>12, <1>13, CallKeeps

LEMMA FileDataKeeps == ASSUME PhoneInv, ChansQuiet, FileData PROVE PhoneInv'
  <1> DEFINE t == pkt.toks  o == out["sync"].toks  m == file.remain  d == SubSeq(t, 1, Min({Left, m}))
             ch == IF Verdict(d) THEN ADBClose("sync") ELSE chan
  <1>1. pkt.on /\ file.state = "WAIT_DATA" /\ UNCHANGED <<conn, peer, out>> /\ HandleBufferDone /\ ~img.failed
    BY DEF FileData, Callback
  <1>2. t \in Seq(Tokens) /\ o \in Seq(Tokens) /\ Coming = t \o o /\ SyncState # "FREE" /\ file.func \in {"fp", "packages", "image"} /\ ~Astray
    BY <1>1, CallMeans
  <1>3. FileOK(file) /\ PktOK /\ ChanOK /\ OutOK
    BY Parts
  <1>4. m \in Nat /\ Len(t) \in Nat /\ Left = Len(t)
    BY <1>2, <1>3 DEF FileOK, Left
  <1>5. CASE m = 0
    BY <1>5, DoneKeeps
  <1>6. CASE m # 0
    <2>1. PICK v \in Versions, ok \in BOOLEAN : Followed(v, ok) /\ Knows(v, ok) /\ FollowsFile(v, ok)
      BY Parts
    <2> DEFINE s == FileOf(v, ok, file.func)
    <2>2. PICK c \in Nat : Reading(file, Coming, s, c) /\ (file.func = "image" => Installs(v, c))
      BY <1>2, <2>1 DEF FollowsFile, FollowsAt
    <2>3. s \in Seq(Tokens)
      BY <1>2, FilesShape
    <2>4. PICK k \in ChunkSizes : InChunk(file, t \o o, s, k, c)
      BY <1>1, <1>2, <1>6, <2>2, InData DEF AtDone
    <2>5. file.hdr[1].t = "DATA"
      BY <2>4 DEF InChunk
    <2>6. FileFunc(d)
      BY DEF FileData
    <2>7. CASE Len(t) < m
      <3> DEFINE st == IF Verdict(d) THEN "WAIT_CLOSE" ELSE "WAIT_DATA"
      <3>1. d = t
        <4>1. Min({Left, m}) = Len(t)
          BY <1>4, <2>7, MinOfTwo
        <4>2. QED
          BY <1>2, <4>1
      <3>2. file' = WithLess(file, t, st) /\ chan' = ch /\ pkt' = NoPkt
        <4>1. file' = [file EXCEPT !.remain = @ - Left, !.state = IF Verdict(d) THEN "WAIT_CLOSE" ELSE @] /\ chan' = ch /\ pkt' = NoPkt
          BY <1>4, <2>7 DEF FileData
        <4>2. [file EXCEPT !.remain = @ - Left, !.state = IF Verdict(d) THEN "WAIT_CLOSE" ELSE @] = [file EXCEPT !.remain = m - Len(t), !.state = st]
          BY <1>1, <1>3, <1>4 DEF FileOK
        <4>3. QED
          BY <4>1, <4>2 DEF WithLess
      <3>3. st \in {"WAIT_DATA", "WAIT_CLOSE"} /\ (st = "WAIT_CLOSE" => file.func # "image" /\ Verdict(d))
        BY DEF Verdict
      <3> HIDE DEF t, o, m, d, ch, st, s
      <3>4. /\ FileOK(file') /\ file'.func = file.func
            /\ PieceAt(t, s, c) /\ c + Len(t) <= Len(s) /\ Reading(file', o, s, c + Len(t))
        BY <1>2, <1>3, <2>3, <2>4, <2>7, <3>2, <3>3, ChunkGoesOn DEF m
      <3>5. file'.state = st
        BY <1>3, <3>2 DEF WithLess, FileOK
      <3>6. PktOK' /\ Coming' = o
        BY <1>1, <1>3, <3>2, PacketGone DEF o
      <3>7. file'.state # "WAIT_OPEN" /\ (file'.state = "WAIT_CLOSE" => Verdict(t))
        BY <3>1, <3>3, <3>5
      <3>8. chan' = IF Verdict(t) THEN ADBClose("sync") ELSE chan
        BY <3>1, <3>2 DEF ch
      <3>9. FileFunc(t)
        BY <2>6, <3>1
      <3>10. PieceAt(t, FileOf(v, ok, file.func), c) /\ c + Len(t) <= Len(FileOf(v, ok, file.func)) /\ Reading(file', Coming', FileOf(v, ok, file.func), c + Len(t))
        BY <3>4, <3>6 DEF s
      <3>11. QED
        BY <1>1, <1>2, <2>1, <2>2, <3>4, <3>6, <3>7, <3>8, <3>9, <3>10, HandedOn
    <2>8. CASE m <= Len(t)
      <3>1. d = SubSeq(t, 1, m) /\ ~(Left < m)
        BY <1>4, <2>8, MinOfTwo
      <3>2. file' = WithChunk(file) /\ chan' = ch /\ pkt' = Rest(m)
        BY <2>5, <3>1 DEF FileData, WithChunk
      <3>3. PktOK' /\ pkt'.toks = SubSeq(t, m + 1, Len(t))
        BY <1>1, <1>3, <1>4, <2>8, <3>2, PacketRest
      <3>4. Coming' = SubSeq(t, m + 1, Len(t)) \o o
        BY <1>1, <3>3 DEF Coming
      <3> HIDE DEF t, o, ch, s
      <3>5. /\ FileOK(file') /\ file'.func = file.func
            /\ PieceAt(SubSeq(t, 1, m), s, c) /\ c + m <= Len(s) /\ Reading(file', SubSeq(t, m + 1, Len(t)) \o o, s, c + m)
        BY <1>2, <1>3, <2>3, <2>4, <2>8, <3>2, ChunkEnds
      <3>6. file'.state = "WAIT_HEADER"
        BY <1>3, <3>2 DEF WithChunk, FileOK
      <3>7. d \in Seq(Tokens) /\ Len(d) = m
        <4>1. m \in 0 .. Len(t)
          BY <1>4, <2>8
        <4> HIDE DEF m, d
        <4>2. SubSeq(t, 1, m) \in Seq(Tokens) /\ Len(SubSeq(t, 1, m)) = m
          BY <1>2, <4>1, CutAndJoin
        <4>3. QED
          BY <3>1, <4>2
      <3> HIDE DEF d, m
      <3>8. /\ PieceAt(d, FileOf(v, ok, file.func), c) /\ c + Len(d) <= Len(FileOf(v, ok, file.func))
            /\ Reading(file', Coming', FileOf(v, ok, file.func), c + Len(d))
        BY <3>1, <3>4, <3>5, <3>7 DEF s
      <3>9. chan' = IF Verdict(d) THEN ADBClose("sync") ELSE chan
        BY <3>2 DEF ch
      <3>10. QED
        BY <1>1, <1>2, <2>1, <2>2, <2>6, <3>3, <3>5, <3>6, <3>7, <3>8, <3>9, HandedOn
    <2>9. QED
      BY <1>4, <2>7, <2>8
  <1>7. QED
    BY <1>5, <1>6

-----------------------------------------------------------------------------
(* The image.                                                              *)

\* The installer is working: on the image of an authentic manager, whose version is v.
LEMMA ImageUnderWay ==
    ASSUME PhoneInv, ~HandleBufferDone \/ img.failed
    PROVE  /\ pm.pc = "chan" /\ file.func = "image" /\ ~Closed /\ pm.state \notin Between
           /\ \E v \in Versions, ok \in BOOLEAN, c \in Nat :
                /\ Followed(v, ok) /\ Knows(v, ok) /\ v \in Trusted /\ FpErased
                /\ c <= Len(ImageFile(v)) /\ Reading(file, Coming, ImageFile(v), c) /\ Installs(v, c)
  <1>1. pm.pc = "chan" /\ file.func = "image"
    BY NotCalled, Parts DEF InCall, LoopInStep
  <1>2. ~Closed
    BY <1>1, FreeShape DEF Closed
  <1>3. pm.state \notin Between
    BY <1>2, Parts DEF LoopInStep
  <1>4. PICK v \in Versions, ok \in BOOLEAN : Followed(v, ok) /\ Knows(v, ok) /\ FollowsFile(v, ok)
    BY Parts
  <1>5. ok /\ FpErased /\ v \in Trusted
    BY <1>1, <1>4 DEF Knows, Followed
  <1>6. PICK c \in Nat : c <= Len(FileOf(v, ok, file.func)) /\ FollowsAt(v, FileOf(v, ok, file.func), c)
    BY <1>1, <1>4 DEF FollowsFile
  <1>7. FileOf(v, ok, file.func) = ImageFile(v) /\ ~Astray
    BY <1>1 DEF FileOf, Astray
  <1>8. c <= Len(ImageFile(v)) /\ Reading(file, Coming, ImageFile(v), c) /\ Installs(v, c)
    BY <1>1, <1>6, <1>7 DEF FollowsAt
  <1>9. QED
    BY <1>1, <1>2, <1>3, <1>4, <1>5, <1>8

LEMMA FollowsImage ==
    ASSUME file'.func = "image", NEW v, NEW ok, NEW c \in Nat, c <= Len(ImageFile(v)), Reading(file', Coming', ImageFile(v), c), Installs(v, c)'
    PROVE  FollowsFile(v, ok)'
  <1> DEFINE s == ImageFile(v)
  <1>2. FileOf(v, ok, file.func)' = s /\ s' = s
    BY DEF FileOf
  <1>3. Reading(file', Coming', s, c) /\ c <= Len(s)
    OBVIOUS
  <1> HIDE DEF s
  <1>4. FollowsAt(v, s, c)'
    BY <1>2, <1>3 DEF FollowsAt
  <1>5. QED
    BY <1>2, <1>3, <1>4 DEF FollowsFile

LEMMA FileImageKeeps == ASSUME PhoneInv, FileImage PROVE PhoneInv'
  <1>1. HandleBuffer(PhoneFlashFails) /\ UNCHANGED <<pm, conn, peer, chan, file, pkt, out>>
    BY DEF FileImage
  <1>2. ~HandleBufferDone
    BY <1>1 DEF HandleBuffer, CopyField, HeaderDone, BlockRefused, ErasePage, WriteBlock, HandleBufferDone
  <1>3. pm.pc = "chan" /\ file.func = "image" /\ ~Closed /\ pm.state \notin Between
    BY <1>2, ImageUnderWay
  <1>4. PICK v \in Versions, ok \in BOOLEAN, c \in Nat :
           /\ Followed(v, ok) /\ Knows(v, ok) /\ v \in Trusted /\ FpErased
           /\ c <= Len(ImageFile(v)) /\ Reading(file, Coming, ImageFile(v), c) /\ Installs(v, c)
    BY <1>2, ImageUnderWay
  <1>5. Installs(v, c)' /\ Spares(v)
    BY <1>1, <1>4, ImageStep, Parts
  <1>6. InstallerOK(flash', img', buf') /\ flash'.fp = flash.fp /\ \A b \in 0 .. NumBlocks - 1 : flash'.app[b] \in {flash.app[b], Erased, Garbage, v}
    BY <1>5 DEF Spares
  <1>7. FpErased' /\ Means(flash)'
    <2>1. FpIs(flash', Erased)
      BY <1>4, <1>6 DEF FpErased, FpIs
    <2>2. Means(flash')
      BY <2>1, ErasedPrint
    <2>3. QED
      BY <1>4, <1>6, <2>2 DEF FpErased, Means, FpIs, Whole
  <1>8. InstalledIsAuthentic'
    <2>1. DOMAIN flash'.app = 0 .. NumBlocks - 1 /\ DOMAIN flash.app = 0 .. NumBlocks - 1
      BY <1>6, Parts DEF InstallerOK, FlashOK
    <2>2. InstalledIsAuthentic
      BY Parts
    <2> DEFINE P == {Phones[p].version : p \in {q \in DOMAIN Phones : Phones[q].authentic}}
    <2>3. \A b \in DOMAIN flash.app : flash.app[b] \in {Erased, Garbage, 1} \cup P
      BY <2>2 DEF InstalledIsAuthentic
    <2>4. v \in {1} \cup P
      BY <1>4 DEF Trusted
    <2> HIDE DEF P
    <2>5. \A b \in DOMAIN flash'.app : flash'.app[b] \in {Erased, Garbage, 1} \cup P
      BY <1>6, <2>1, <2>3, <2>4
    <2>6. QED
      BY <2>5 DEF InstalledIsAuthentic, P
  <1>9. SameStream
    BY <1>1 DEF SameStream
  <1>10. ChannelInStep' /\ Coming' = Coming
    BY <1>9, SameChannel, Parts
  <1>11. PhoneTypeOK'
    BY <1>1, <1>6, Parts DEF PhoneTypeOK, PmOK, FileOK, PktOK, ChanOK, OutOK
  <1>12. Knows(v, ok)'
    BY <1>1, <1>3, <1>4, <1>7 DEF Knows, PrintOf, Between
  <1>13. FollowsFile(v, ok)'
    BY <1>1, <1>3, <1>4, <1>5, <1>10, FollowsImage
  <1>14. QED
    BY <1>1, <1>3, <1>4, <1>7, <1>8, <1>10, <1>11, <1>12, <1>13, OpenKeeps

LEMMA FileImageFailedKeeps == ASSUME PhoneInv, ChansQuiet, FileImageFailed PROVE PhoneInv'
  <1> DEFINE e == "ERROR"
  <1>1. /\ img.failed /\ img' = [img EXCEPT !.failed = FALSE] /\ pm' = [pm EXCEPT !.state = e] /\ UNCHANGED <<flash, buf, conn, peer, chan, file, pkt, out>>
        /\ e \in MainStates
    BY DEF FileImageFailed, MainStates
  <1>3. pm.pc = "chan" /\ file.func = "image" /\ ~Closed /\ pm.state \notin Between
    BY <1>1, ImageUnderWay
  <1>4. PICK v \in Versions, ok \in BOOLEAN, c \in Nat :
           /\ Followed(v, ok) /\ Knows(v, ok) /\ v \in Trusted /\ FpErased
           /\ c <= Len(ImageFile(v)) /\ Reading(file, Coming, ImageFile(v), c) /\ Installs(v, c)
    BY <1>1, ImageUnderWay
  <1>5. Installs(v, c)' /\ InstallerOK(flash', img', buf')
    BY <1>1, <1>4, ImageErrorSeen, Parts
  <1>6. peer # "other"
    BY <1>3 DEF ChansQuiet
  <1> HIDE DEF e
  <1>7. PmOK' /\ pm'.pc = pm.pc /\ pm'.state = e /\ pm'.auth = pm.auth /\ pm'.fp = pm.fp /\ pm'.written = pm.written
    BY <1>1, Parts DEF PmOK
  <1>8. SameStream
    BY <1>1, <1>7 DEF SameStream
  <1>9. ChannelInStep' /\ Coming' = Coming
    BY <1>8, SameChannel, Parts
  <1>10. PhoneTypeOK'
    BY <1>1, <1>5, <1>7, Parts DEF PhoneTypeOK, FileOK, PktOK, ChanOK, OutOK
  <1>11. Knows(v, ok)'
    <2>1. e \notin Between /\ e # "AUTH_PASSED" /\ e # "RECV_IMAGE_DONE"
      BY DEF Between, e
    <2>2. QED
      BY <1>1, <1>4, <1>7, <2>1 DEF Knows, PrintOf, FpErased
  <1>12. FollowsFile(v, ok)'
    BY <1>1, <1>3, <1>4, <1>5, <1>9, FollowsImage
  <1>13. InstalledIsAuthentic' /\ (~PhoneFlashFails => Means(flash)')
    BY <1>1, Parts DEF InstalledIsAuthentic, Means, FpIs, Whole
  <1>14. pm'.state = "ERROR" /\ file'.func = file.func
    BY <1>1, <1>7 DEF e
  <1>15. QED
    BY <1>1, <1>3, <1>4, <1>6, <1>7, <1>9, <1>10, <1>11, <1>12, <1>13, <1>14, OpenKeeps

-----------------------------------------------------------------------------
(* The switch of main.                                                     *)

\* Main at work with a phone.
LEMMA MainMeans ==
    ASSUME PhoneInv, pm.pc \in {"main", "write"}, peer # "none", pm.state \notin {"WAIT_CONNECT", "RUN_APP"}
    PROVE  Attached /\ conn # "DISCONNECTED" /\ ~InCall /\ ~pkt.on /\ pkt.toks = <<>> /\ HandleBufferDone /\ buf = <<>> /\ ~img.failed
  <1>1. Attached
    BY Parts DEF LoopInStep, Attached
  <1>2. ~InCall
    BY NotCalled
  <1>3. QED
    BY <1>1, <1>2, Known, Parts DEF InCall, PktOK, HandleBufferDone

\* ADBFileRead.
LEMMA ReadStarts ==
    ASSUME PhoneInv, pm.pc = "main", peer # "none", pm.state \notin {"WAIT_CONNECT", "RUN_APP"}, Closed,
           NEW func \in {"fp", "packages", "image"}, ADBFileRead(func), UNCHANGED <<conn, peer, pkt, out>>,
           PmOK', pm'.pc = "conn", pm'.state \notin Between, pm'.state \notin Early, pm'.written = 0, InstallerOK(flash', img', buf'), (HandleBufferDone /\ ~img.failed)',
           InstalledIsAuthentic', (~PhoneFlashFails => Means(flash)'),
           NEW v \in Versions, NEW ok \in BOOLEAN, Followed(v, ok), file'.func = func => Knows(v, ok)', func = "image" => Installs(v, 0)'
    PROVE  PhoneInv'
  <1>1. Attached /\ conn # "DISCONNECTED" /\ ~pkt.on /\ pkt.toks = <<>>
    BY MainMeans
  <1> DEFINE wo == "WAIT_OPEN"  st == "START"  r == [FreeChan EXCEPT !.state = st]
  <1>2. chan' = [chan EXCEPT !["sync"] = r] /\ file' = [NoFile EXCEPT !.state = wo, !.func = func]
    BY DEF ADBFileRead, ADBOpen
  <1>3. wo \in FileStates /\ st \in ChanStates /\ func \in Funcs
    BY DEF FileStates, ChanStates, Funcs
  <1> HIDE DEF wo, st
  <1>4. r \in ChanRec /\ r.state = st /\ ~r.data
    BY <1>3 DEF ChanRec, FreeChan
  <1> HIDE DEF r
  <1>5. ChanOK' /\ chan'["sync"] = r
    BY <1>2, <1>4, ChanSet, TwoChans, Parts
  <1>6. FileOK(file') /\ file'.state = wo /\ file'.func = func /\ file'.hdr = <<>>
    <2>1. <<>> \in Seq(Tokens)
      OBVIOUS
    <2>2. QED
      BY <1>2, <1>3, <2>1 DEF NoFile, FileOK
  <1>7. PhoneTypeOK'
    BY <1>5, <1>6, Parts DEF PhoneTypeOK, PktOK, OutOK
  <1>8. SyncState' = "START" /\ ~chan'["sync"].data
    BY <1>4, <1>5 DEF SyncState, st
  <1>9. ChannelInStep'
    BY <1>6, <1>8 DEF ChannelInStep, Closing, wo
  <1>10. LoopInStep'
    <2>1. peer' # "other" /\ (Attached' <=> Attached) /\ conn' # "DISCONNECTED"
      BY <1>1 DEF Attached
    <2>2. ~InCall'
      BY <1>1 DEF InCall
    <2>3. QED
      BY <2>1, <2>2 DEF LoopInStep
  <1>11. Followed(v, ok)'
    BY DEF Followed, Attached, Phone
  <1>12. Knows(v, ok)'
    BY <1>6
  <1>13. Coming' = <<>>
    <2>1. out["sync"].toks = <<>>
      BY FreeShape DEF Closed
    <2>2. pkt'.toks = <<>> /\ out'["sync"].toks = <<>>
      BY <1>1, <2>1
    <2>3. QED
      BY <2>2 DEF Coming
  <1>14. FollowsFile(v, ok)'
    <2>1. Requested(file', Coming', 0)
      BY <1>6, <1>13 DEF Requested, wo
    <2> DEFINE s == FileOf(v, ok, func)
    <2>2. FileOf(v, ok, file.func)' = s
      BY <1>6
    <2>3. Len(s) \in Nat
      BY FilesShape
    <2>s. s' = s
      OBVIOUS
    <2> HIDE DEF s
    <2>4. Reading(file', Coming', s, 0)
      BY <2>1 DEF Reading
    <2>5. FollowsAt(v, s, 0)'
      BY <1>6, <2>4, <2>s DEF FollowsAt
    <2>6. 0 \in Nat /\ 0 <= Len(s')
      BY <2>3, <2>s
    <2>7. QED
      BY <2>2, <2>5, <2>6, <2>s DEF FollowsFile
  <1>15. (~PhoneFlashFails => FingerprintMeansImage)'
    BY DEF Means, FpIs, Whole, FingerprintMeansImage
  <1>16. QED
    BY <1>7, <1>9, <1>10, <1>11, <1>12, <1>14, <1>15 DEF PhoneInv, InStep

\* With the Flash as it is.
LEMMA SameFlash == ASSUME PhoneInv, flash' = flash PROVE InstalledIsAuthentic' /\ (~PhoneFlashFails => Means(flash)')
  BY Parts DEF InstalledIsAuthentic, Means, FpIs, Whole

LEMMA MainFindPathDoneKeeps == ASSUME PhoneInv, MainFindPathDone PROVE PhoneInv'
  <1> DEFINE p == "conn"  s == "WAIT_RECV_FP"  no == FALSE  e == <<>>  func == "fp"
  <1>1. /\ pm.pc = "main" /\ peer # "none" /\ pm.state = "FIND_PATH_DONE" /\ ADBFileRead(func)
        /\ pm' = [pm EXCEPT !.pc = p, !.state = s, !.fp = e, !.bad = no] /\ UNCHANGED <<fVars, conn, peer, pkt, out>>
    BY DEF MainFindPathDone, Main
  <1>2. Attached /\ conn # "DISCONNECTED" /\ HandleBufferDone /\ ~img.failed
    BY <1>1, MainMeans
  <1>3. Closed /\ pm.written = 0
    BY <1>1, <1>2, Parts DEF LoopInStep, Early
  <1>4. p \in {"conn", "chan", "main", "write", "app"} /\ s \in MainStates /\ no \in BOOLEAN /\ e \in Seq(Int) /\ s \notin Between /\ s \notin Early /\ Len(e) = 0
    BY DEF MainStates, Between, Early
  <1> HIDE DEF p, s, no, e
  <1>5. PmOK' /\ pm'.pc = p /\ pm'.state = s /\ pm'.fp = e /\ pm'.written = pm.written
    BY <1>1, <1>4, Parts DEF PmOK
  <1>6. flash' = flash /\ img' = img /\ buf' = buf /\ InstallerOK(flash', img', buf') /\ (HandleBufferDone /\ ~img.failed)'
    BY <1>1, <1>2, Parts DEF fVars, HandleBufferDone, InstallerOK
  <1>7. PICK v \in Versions, ok \in BOOLEAN : Followed(v, ok)
    BY Parts
  <1>8. ASSUME file'.func = func PROVE Knows(v, ok)'
    <2>1. PrintOf(v)' /\ Len(pm'.fp) <= FpWords
      BY <1>4, <1>5, IoioFileAssumption DEF PrintOf
    <2>2. pm'.state # "AUTH_PASSED" /\ pm'.state # "RECV_IMAGE_DONE" /\ pm'.state \notin Between
      BY <1>4, <1>5 DEF Between
    <2>3. QED
      BY <1>8, <2>1, <2>2 DEF Knows
  <1>9. InstalledIsAuthentic' /\ (~PhoneFlashFails => Means(flash)')
    BY <1>6, SameFlash
  <1>10. pm'.pc = "conn" /\ pm'.state \notin Between /\ pm'.state \notin Early /\ pm'.written = 0
    BY <1>3, <1>4, <1>5 DEF p
  <1>11. func \in {"fp", "packages", "image"} /\ func # "image" /\ pm.state \notin {"WAIT_CONNECT", "RUN_APP"}
    BY <1>1
  <1> HIDE DEF func
  <1>12. QED
    BY <1>1, <1>3, <1>5, <1>6, <1>7, <1>8, <1>9, <1>10, <1>11, ReadStarts

LEMMA MainFpFailedKeeps == ASSUME PhoneInv, MainFpFailed PROVE PhoneInv'
  <1> DEFINE p == "conn"  s == "AUTH_MANAGER"  b == "BUSY"  func == "packages"
  <1>1. /\ pm.pc = "main" /\ peer # "none" /\ pm.state = "FP_FAILED" /\ ADBFileRead(func)
        /\ pm' = [pm EXCEPT !.pc = p, !.state = s, !.auth = b] /\ UNCHANGED <<fVars, conn, peer, pkt, out>>
    BY DEF MainFpFailed, Main
  <1>2. Attached /\ conn # "DISCONNECTED" /\ HandleBufferDone /\ ~img.failed
    BY <1>1, MainMeans
  <1>3. Closed /\ pm.written = 0 /\ pm.state \in Between
    BY <1>1, Parts DEF LoopInStep, Between
  <1>4. p \in {"conn", "chan", "main", "write", "app"} /\ s \in MainStates /\ b \in {"BUSY", "PASS", "FAIL"} /\ s \notin Between /\ s \notin Early /\ b # "PASS"
    BY DEF MainStates, Between, Early
  <1> HIDE DEF p, s, b
  <1>5. PmOK' /\ pm'.pc = p /\ pm'.state = s /\ pm'.fp = pm.fp /\ pm'.written = pm.written /\ pm'.auth = b
    BY <1>1, <1>4, Parts DEF PmOK
  <1>6. flash' = flash /\ img' = img /\ buf' = buf /\ InstallerOK(flash', img', buf') /\ (HandleBufferDone /\ ~img.failed)'
    BY <1>1, <1>2, Parts DEF fVars, HandleBufferDone, InstallerOK
  <1>7. PICK v \in Versions, ok \in BOOLEAN : Followed(v, ok) /\ Knows(v, ok)
    BY Parts
  <1>8. ASSUME file'.func = func PROVE Knows(v, ok)'
    <2>1. PrintOf(v)' /\ Len(pm'.fp) <= FpWords /\ Len(pm'.fp) = FpWords
      BY <1>3, <1>5, <1>7 DEF PrintOf, Knows
    <2>2. pm'.state # "AUTH_PASSED" /\ pm'.state # "RECV_IMAGE_DONE" /\ pm'.state \notin Between /\ pm'.auth # "PASS"
      BY <1>4, <1>5 DEF Between
    <2>3. QED
      BY <1>8, <2>1, <2>2 DEF Knows
  <1>9. InstalledIsAuthentic' /\ (~PhoneFlashFails => Means(flash)')
    BY <1>6, SameFlash
  <1>10. pm'.pc = "conn" /\ pm'.state \notin Between /\ pm'.state \notin Early /\ pm'.written = 0
    BY <1>3, <1>4, <1>5 DEF p
  <1>11. func \in {"fp", "packages", "image"} /\ func # "image" /\ pm.state \notin {"WAIT_CONNECT", "RUN_APP"}
    BY <1>1
  <1> HIDE DEF func
  <1>12. QED
    BY <1>1, <1>3, <1>5, <1>6, <1>7, <1>8, <1>9, <1>10, <1>11, ReadStarts

LEMMA MainAuthPassedKeeps == ASSUME PhoneInv, MainAuthPassed PROVE PhoneInv'
  <1>1. pm.pc = "main" /\ peer # "none" /\ pm.state = "AUTH_PASSED" /\ UNCHANGED <<buf, conn, peer, pkt, out>>
    BY DEF MainAuthPassed, Main
  <1>2. Attached /\ conn # "DISCONNECTED" /\ ~InCall /\ HandleBufferDone /\ buf = <<>> /\ ~img.failed
    BY <1>1, MainMeans
  <1>3. Closed /\ pm.written = 0 /\ pm.state \in Between
    BY <1>1, Parts DEF LoopInStep, Between
  <1>4. CASE flash' = NoFingerprint /\ IOIOFileInit /\ ADBFileRead("image") /\ pm' = [pm EXCEPT !.pc = "conn", !.state = "WAIT_RECV_IMAGE"]
    <2> DEFINE p == "conn"  s == "WAIT_RECV_IMAGE"  func == "image"  w == [i \in 1 .. FpWords |-> Erased]
    <2>1. ADBFileRead(func) /\ pm' = [pm EXCEPT !.pc = p, !.state = s] /\ img' = Idle /\ flash' = [flash EXCEPT !.fp = w]
      BY <1>4 DEF IOIOFileInit, NoFingerprint
    <2>2. p \in {"conn", "chan", "main", "write", "app"} /\ s \in MainStates /\ s \notin Between /\ s \notin Early
      BY DEF MainStates, Between, Early
    <2>3. w \in [1 .. FpWords -> Int] /\ \A i \in 1 .. FpWords : w[i] = Erased
      BY DEF Erased
    <2> HIDE DEF p, s, w
    <2>4. PmOK' /\ pm'.pc = p /\ pm'.state = s /\ pm'.fp = pm.fp /\ pm'.written = pm.written /\ pm'.auth = pm.auth
      BY <2>1, <2>2, Parts DEF PmOK
    <2>5. FlashOK(flash') /\ flash'.fp = w /\ flash'.app = flash.app
      BY <2>1, <2>3, Parts DEF FlashOK
    <2>6. PICK v \in Versions, ok \in BOOLEAN : Followed(v, ok) /\ Knows(v, ok)
      BY Parts
    <2>7. Installs(v, 0)' /\ InstallerOK(flash', img', buf')
      BY <1>1, <1>2, <2>1, <2>5, ImageStarts
    <2>8. (HandleBufferDone /\ ~img.failed)'
      BY <1>1, <1>2, <2>1 DEF HandleBufferDone, Idle
    <2>9. FpErased' /\ FpIs(flash', Erased)
      BY <2>3, <2>5 DEF FpErased, FpIs
    <2>10. InstalledIsAuthentic' /\ (~PhoneFlashFails => Means(flash)')
      <3>1. Means(flash')
        BY <2>9, ErasedPrint
      <3>2. QED
        BY <2>5, <3>1, Parts DEF InstalledIsAuthentic, Means, FpIs, Whole
    <2>11. ASSUME file'.func = func PROVE Knows(v, ok)'
      <3>1. PrintOf(v)' /\ Len(pm'.fp) <= FpWords /\ Len(pm'.fp) = FpWords /\ ok
        BY <1>1, <1>3, <2>4, <2>6 DEF PrintOf, Knows
      <3>2. pm'.state # "AUTH_PASSED" /\ pm'.state # "RECV_IMAGE_DONE" /\ pm'.state \notin Between
        BY <2>2, <2>4 DEF Between
      <3>3. QED
        BY <2>9, <2>11, <3>1, <3>2 DEF Knows
    <2>12. pm'.pc = "conn" /\ pm'.state \notin Between /\ pm'.state \notin Early /\ pm'.written = 0
      BY <1>3, <2>2, <2>4 DEF p
    <2>13. func \in {"fp", "packages", "image"} /\ pm.state \notin {"WAIT_CONNECT", "RUN_APP"} /\ UNCHANGED <<conn, peer, pkt, out>>
      BY <1>1
    <2> HIDE DEF func
    <2>14. QED
      BY <1>1, <1>3, <2>1, <2>4, <2>6, <2>7, <2>8, <2>10, <2>11, <2>12, <2>13, ReadStarts
  <1>5. CASE pm' = [pm EXCEPT !.pc = "conn", !.state = "ERROR"] /\ UNCHANGED <<flash, img, chan, file>>
    <2> DEFINE p == "conn"  s == "ERROR"
    <2>1. pm' = [pm EXCEPT !.pc = p, !.state = s] /\ UNCHANGED <<fVars, chan, file, pkt, out>> /\ conn' = conn /\ peer' = peer
      BY <1>1, <1>5 DEF fVars
    <2>2. p \in {"conn", "chan", "main", "app"} /\ s \in MainStates /\ s \notin Between /\ s \notin Early /\ pm.pc # "write"
      BY <1>1 DEF MainStates, Between, Early
    <2>3. conn' \in {"DISCONNECTED", "WAIT_ATTACH", "WAIT_CONNECT", "CONNECTED"} /\ peer' \in {"none", "other"} \cup DOMAIN Phones
      BY <2>1, Parts
    <2>4. conn' # "DISCONNECTED" /\ peer' # "other"
      BY <1>2, <2>1 DEF Attached
    <2> HIDE DEF p, s
    <2>5. QED
      BY <1>2, <2>1, <2>2, <2>3, <2>4, QuietKeeps
  <1>6. QED
    BY <1>4, <1>5 DEF MainAuthPassed

\* Word k of the fingerprint is written.
LEMMA FpWordShape ==
    ASSUME FlashOK(flash), NEW k \in 1 .. FpWords, NEW v \in Int, flash' = [flash EXCEPT !.fp[k] = v]
    PROVE  FlashOK(flash') /\ flash'.app = flash.app /\ flash'.fp[k] = v /\ \A i \in 1 .. FpWords : i # k => flash'.fp[i] = flash.fp[i]
  <1> DEFINE w == [flash.fp EXCEPT ![k] = v]
  <1>1. flash.fp \in [1 .. FpWords -> Int] /\ flash' = [flash EXCEPT !.fp = w]
    BY DEF FlashOK
  <1>2. w \in [1 .. FpWords -> Int] /\ w[k] = v /\ \A i \in 1 .. FpWords : i # k => w[i] = flash.fp[i]
    BY <1>1
  <1> HIDE DEF w
  <1>3. FlashOK(flash') /\ flash'.app = flash.app /\ flash'.fp = w
    BY <1>1, <1>2 DEF FlashOK
  <1>4. QED
    BY <1>2, <1>3

\* A step of WriteFingerprint.
LEMMA WritingKeeps ==
    ASSUME PhoneInv, pm.pc \in {"main", "write"}, pm.state = "RECV_IMAGE_DONE", UNCHANGED <<img, buf, conn, peer, chan, file, pkt, out>>,
           FlashOK(flash'), PmOK', \/ pm'.pc = "conn" /\ pm'.state \in {"RUN_APP", "ERROR"} /\ pm'.written = 0
                                   \/ pm'.pc = "write" /\ pm'.state = pm.state,
           flash'.app = flash.app, ~PhoneFlashFails => Means(flash'),
           NEW v \in Versions, NEW ok \in BOOLEAN, Followed(v, ok), Knows(v, ok)'
    PROVE  PhoneInv'
  <1>1. (Attached => conn # "DISCONNECTED") /\ peer # "other" /\ ~InCall /\ HandleBufferDone /\ ~img.failed
    BY NotCalled, Known, Parts DEF InCall, LoopInStep
  <1>2. Closed /\ ChannelInStep /\ LoopInStep
    BY Parts DEF LoopInStep, Between
  <1>3. PhoneTypeOK'
    BY Parts DEF PhoneTypeOK, InstallerOK, FileOK, PktOK, ChanOK, OutOK
  <1>4. file.func = "none" /\ SyncState = "FREE" /\ SyncState' = SyncState /\ Closed'
    BY <1>2, FreeShape DEF Closed, SyncState
  <1>5. ChannelInStep'
    BY <1>4, FreeShape DEF ChannelInStep, Closing, Closed
  <1>6. LoopInStep'
    <2>1. peer' # "other" /\ (Attached' => conn' # "DISCONNECTED")
      BY <1>1 DEF Attached
    <2>2. ~InCall' /\ (HandleBufferDone /\ ~img.failed)'
      BY <1>1 DEF InCall, HandleBufferDone
    <2>3. QED
      BY <1>4, <2>1, <2>2 DEF LoopInStep, Early, Between
  <1>7. InstalledIsAuthentic'
    BY Parts DEF InstalledIsAuthentic
  <1>8. Followed(v, ok)'
    BY DEF Followed, Attached, Phone
  <1>9. FollowsFile(v, ok)'
    BY <1>4 DEF FollowsFile
  <1>10. (~PhoneFlashFails => FingerprintMeansImage)'
    BY DEF Means, FpIs, Whole, FingerprintMeansImage
  <1>11. QED
    BY <1>3, <1>5, <1>6, <1>7, <1>8, <1>9, <1>10 DEF PhoneInv, InStep

LEMMA MainImageDoneKeeps == ASSUME PhoneInv, MainImageDone PROVE PhoneInv'
  <1> DEFINE k == IF pm.pc = "write" THEN pm.written + 1 ELSE 1
  <1>1. pm.pc \in {"main", "write"} /\ pm.state = "RECV_IMAGE_DONE" /\ UNCHANGED <<img, buf, conn, peer, chan, file, pkt, out>> /\ pm.state \in Between
    BY Parts DEF MainImageDone, Main, LoopInStep, Between
  <1>2. k = pm.written + 1 /\ k \in 1 .. FpWords /\ pm.written \in 0 .. FpWords - 1 /\ FpWords \in Nat
    <2>1. pm.written \in 0 .. FpWords - 1 /\ (pm.pc # "write" => pm.written = 0) /\ FpWords \in Nat \ {0}
      BY Parts, IoioFileAssumption DEF PmOK, LoopInStep
    <2>2. QED
      BY <2>1
  <1>3. PICK v \in Versions, ok \in BOOLEAN : Followed(v, ok) /\ Knows(v, ok)
    BY Parts
  <1>4. /\ PrintOf(v) /\ Len(pm.fp) = FpWords /\ \A i \in 1 .. FpWords : flash.fp[i] = IF i <= pm.written THEN v ELSE Erased
        /\ ~PhoneFlashFails => Whole(flash, v)
    BY <1>1, <1>3 DEF Knows
  <1>5. file.func = "none"
    BY <1>1, Parts, FreeShape DEF LoopInStep, Closed
  <1>6. v \in Int /\ PmOK /\ FlashOK(flash)
    BY FileShape, Parts
  <1>7. CASE /\ flash' = [flash EXCEPT !.fp[k] = Word(@, pm.fp[k])]
             /\ pm' = IF k = FpWords THEN [pm EXCEPT !.pc = "conn", !.state = "RUN_APP", !.written = 0]
                      ELSE [pm EXCEPT !.pc = "write", !.written = k]
    <2> HIDE DEF k
    <2>1. pm.fp[k] = v /\ flash.fp[k] = Erased
      BY <1>2, <1>4 DEF PrintOf
    <2>2. Word(flash.fp[k], pm.fp[k]) = v
      BY <2>1 DEF Word
    <2>3. flash' = [flash EXCEPT !.fp[k] = v]
      BY <1>2, <1>6, <1>7, <2>2 DEF FlashOK
    <2>4. FlashOK(flash') /\ flash'.app = flash.app /\ flash'.fp[k] = v /\ \A i \in 1 .. FpWords : i # k => flash'.fp[i] = flash.fp[i]
      BY <1>2, <1>6, <2>3, FpWordShape
    <2>5. \A i \in 1 .. FpWords : flash'.fp[i] = IF i <= k THEN v ELSE Erased
      BY <1>2, <1>4, <2>4
    <2>6. ~PhoneFlashFails => Means(flash') /\ Whole(flash', v)
      <3>1. SUFFICES ASSUME ~PhoneFlashFails PROVE Means(flash') /\ Whole(flash', v)
        OBVIOUS
      <3>2. Whole(flash', v)
        BY <1>4, <2>4, <3>1 DEF Whole
      <3>3. 1 \in 1 .. FpWords /\ 1 <= k
        BY <1>2
      <3>4. flash'.fp[1] = v
        BY <2>5, <3>3
      <3>5. QED
        BY <3>2, <3>3, <3>4 DEF Means, FpIs
    <2>7. CASE k = FpWords
      <3> DEFINE p == "conn"  s == "RUN_APP"  z == 0
      <3>1. pm' = [pm EXCEPT !.pc = p, !.state = s, !.written = z]
        BY <1>7, <2>7
      <3>2. p \in {"conn", "chan", "main", "write", "app"} /\ s \in MainStates /\ z \in 0 .. FpWords - 1 /\ s \notin Between
        BY <1>2 DEF MainStates, Between
      <3> HIDE DEF p, s, z
      <3>3. PmOK' /\ pm'.pc = p /\ pm'.state = s /\ pm'.written = z
        BY <1>6, <3>1, <3>2 DEF PmOK
      <3>4. Knows(v, ok)'
        <4>1. file'.func = "none" /\ pm'.state \notin Between
          BY <1>1, <1>5, <3>2, <3>3
        <4>2. QED
          BY <4>1 DEF Knows, Between
      <3>5. pm'.pc = "conn" /\ pm'.state \in {"RUN_APP", "ERROR"} /\ pm'.written = 0
        BY <3>3 DEF p, s, z
      <3>6. QED
        BY <1>1, <1>3, <2>4, <2>6, <3>3, <3>4, <3>5, WritingKeeps
    <2>8. CASE k # FpWords
      <3> DEFINE p == "write"
      <3>1. pm' = [pm EXCEPT !.pc = p, !.written = k]
        BY <1>7, <2>8
      <3>2. p \in {"conn", "chan", "main", "write", "app"} /\ k \in 0 .. FpWords - 1
        BY <1>2, <2>8
      <3> HIDE DEF p
      <3>3. PmOK' /\ pm'.pc = p /\ pm'.state = pm.state /\ pm'.written = k /\ pm'.fp = pm.fp
        BY <1>6, <3>1, <3>2 DEF PmOK
      <3>4. Knows(v, ok)'
        <4>1. file'.func = "none" /\ pm'.state = "RECV_IMAGE_DONE"
          BY <1>1, <1>5, <3>3
        <4>2. PrintOf(v)' /\ Len(pm'.fp) = FpWords /\ Len(pm'.fp) <= FpWords
          BY <1>2, <1>4, <3>3 DEF PrintOf
        <4>3. \A i \in 1 .. FpWords : flash'.fp[i] = IF i <= pm'.written THEN v ELSE Erased
          BY <2>5, <3>3
        <4>4. QED
          BY <2>6, <4>1, <4>2, <4>3 DEF Knows
      <3>5. pm'.pc = "write" /\ pm'.state = pm.state
        BY <3>3 DEF p
      <3>6. QED
        BY <1>1, <1>3, <2>4, <2>6, <3>3, <3>4, <3>5, WritingKeeps
    <2>9. QED
      BY <2>7, <2>8
  <1>8. CASE pm' = [pm EXCEPT !.pc = "conn", !.state = "ERROR", !.written = 0] /\ UNCHANGED flash
    <2> DEFINE p == "conn"  s == "ERROR"  z == 0
    <2>1. pm' = [pm EXCEPT !.pc = p, !.state = s, !.written = z]
      BY <1>8
    <2>2. p \in {"conn", "chan", "main", "write", "app"} /\ s \in MainStates /\ z \in 0 .. FpWords - 1 /\ s \notin Between
      BY <1>2 DEF MainStates, Between
    <2> HIDE DEF p, s, z
    <2>3. PmOK' /\ pm'.pc = p /\ pm'.state = s /\ pm'.written = z
      BY <1>6, <2>1, <2>2 DEF PmOK
    <2>4. Knows(v, ok)'
      <3>1. file'.func = "none" /\ pm'.state \notin Between
        BY <1>1, <1>5, <2>2, <2>3
      <3>2. QED
        BY <3>1 DEF Knows, Between
    <2>5. pm'.pc = "conn" /\ pm'.state \in {"RUN_APP", "ERROR"} /\ pm'.written = 0
      BY <2>3 DEF p, s, z
    <2>6. FlashOK(flash') /\ flash'.app = flash.app /\ (~PhoneFlashFails => Means(flash'))
      BY <1>6, <1>8, Parts
    <2>7. QED
      BY <1>1, <1>3, <2>3, <2>4, <2>5, <2>6, WritingKeeps
  <1>9. QED
    BY <1>7, <1>8 DEF MainImageDone

-----------------------------------------------------------------------------
(* Connections and restarts.                                               *)

\* No channel is in use.
LEMMA AllFree ==
    [c \in Chans |-> FreeChan] \in [Chans -> ChanRec] /\ [c \in Chans |-> NoOut] \in [Chans -> OutRec]
  BY FreeShape

\* ADBInit and ADBFileInit.
LEMMA GoneKeeps ==
    ASSUME PhoneInv, pm.pc = "conn", chan' = [c \in Chans |-> FreeChan], file' = NoFile, out' = [c \in Chans |-> NoOut], UNCHANGED <<fVars, pkt>>,
           pm' = [pm EXCEPT !.pc = "main"], conn' = "WAIT_ATTACH", peer' \in {"none", "other"} \cup DOMAIN Phones, peer' # "other",
           NEW v \in Versions, NEW ok \in BOOLEAN, Followed(v, ok)', Knows(v, ok) \/ pm.state = "WAIT_CONNECT"
    PROVE  PhoneInv'
  <1>1. ~InCall
    BY NotCalled
  <1>2. PmOK' /\ pm'.pc = "main" /\ pm'.state = pm.state /\ pm'.auth = pm.auth /\ pm'.fp = pm.fp /\ pm'.written = pm.written
    BY PcShape, Parts
  <1>3. flash' = flash /\ img' = img /\ buf' = buf /\ pkt' = pkt
    BY DEF fVars
  <1>4. ChanOK' /\ OutOK' /\ chan'["sync"] = FreeChan /\ out'["sync"] = NoOut
    BY AllFree, TwoChans DEF ChanOK, OutOK, ChanRec, OutRec
  <1>5. PhoneTypeOK'
    BY <1>2, <1>3, <1>4, FreeShape, Parts DEF PhoneTypeOK, PktOK
  <1>6. Closed' /\ SyncState' = "FREE"
    BY <1>4, FreeShape DEF Closed, SyncState
  <1>7. ChannelInStep'
    BY <1>6, FreeShape DEF ChannelInStep, Closing
  <1>8. LoopInStep'
    <2>1. pm.written = 0
      BY Parts DEF LoopInStep
    <2>2. ~InCall' /\ (HandleBufferDone /\ ~img.failed)'
      BY <1>1, <1>3 DEF InCall, HandleBufferDone
    <2>3. QED
      BY <1>2, <1>6, <2>1, <2>2 DEF LoopInStep
  <1>9. InstalledIsAuthentic' /\ (~PhoneFlashFails => Means(flash)')
    BY <1>3, SameFlash
  <1>10. (~PhoneFlashFails => FingerprintMeansImage)'
    BY <1>9 DEF Means, FpIs, Whole, FingerprintMeansImage
  <1>11. file'.func = "none"
    BY FreeShape
  <1>12. Knows(v, ok)'
    <2>1. CASE pm.state = "WAIT_CONNECT"
      BY <1>2, <1>11, <2>1 DEF Knows, Between
    <2>2. CASE Knows(v, ok)
      BY <1>2, <1>3, <1>11, <2>2 DEF Knows, PrintOf
    <2>3. QED
      BY <2>1, <2>2
  <1>13. FollowsFile(v, ok)'
    BY <1>11 DEF FollowsFile
  <1>14. QED
    BY <1>5, <1>7, <1>8, <1>9, <1>10, <1>12, <1>13 DEF PhoneInv, InStep

LEMMA ConnInitKeeps == ASSUME PhoneInv, ConnInit PROVE PhoneInv'
  <1>1. /\ pm.pc = "conn" /\ Attached /\ conn = "DISCONNECTED" /\ conn' = "WAIT_ATTACH" /\ pm' = [pm EXCEPT !.pc = "main"]
        /\ chan' = [c \in Chans |-> FreeChan] /\ file' = NoFile /\ out' = [c \in Chans |-> NoOut] /\ UNCHANGED <<fVars, peer, pkt>>
    BY DEF ConnInit, Conn
  <1>2. peer' = peer /\ peer \in DOMAIN Phones /\ peer' # "other" /\ pm.state = "WAIT_CONNECT"
    BY <1>1, Parts DEF Attached, LoopInStep
  <1> DEFINE v == Phone.version  ok == Phone.authentic
  <1>3. v \in Versions /\ ok \in BOOLEAN
    BY <1>2, PhoneBootAssumption DEF Phone, Versions
  <1>4. Phone' = Phone
    BY <1>2 DEF Phone
  <1>5. ok => v \in Trusted
    BY <1>2 DEF Trusted, Phone
  <1>6. PICK w \in Versions, x \in BOOLEAN : w = v /\ x = ok
    BY <1>3
  <1>7. Followed(w, x)'
    BY <1>4, <1>5, <1>6 DEF Followed
  <1> HIDE DEF v, ok
  <1>8. UNCHANGED <<fVars, pkt>> /\ peer' \in {"none", "other"} \cup DOMAIN Phones
    BY <1>1, <1>2
  <1>9. QED
    BY <1>1, <1>2, <1>7, <1>8, GoneKeeps

LEMMA AdbErrorKeeps == ASSUME PhoneInv, AdbError PROVE PhoneInv'
  <1>1. /\ pm.pc = "conn" /\ conn' = "WAIT_ATTACH" /\ pm' = [pm EXCEPT !.pc = "main"] /\ peer' = "none"
        /\ chan' = [c \in Chans |-> FreeChan] /\ file' = NoFile /\ out' = [c \in Chans |-> NoOut] /\ UNCHANGED <<fVars, pkt>>
    BY DEF AdbError, Conn
  <1>2. PICK v \in Versions, ok \in BOOLEAN : Followed(v, ok) /\ Knows(v, ok)
    BY Parts
  <1>3. Followed(v, ok)'
    BY <1>1, <1>2 DEF Followed, Attached
  <1>4. QED
    BY <1>1, <1>2, <1>3, GoneKeeps

\* The power comes on.
Start ==
  /\ RamInit /\ FlashOK(flash) /\ peer \in {"none", "other"} \cup DOMAIN Phones
  /\ InstalledIsAuthentic /\ (~PhoneFlashFails => Means(flash))

LEMMA StartHolds == Start => PhoneInv /\ ChansQuiet
  <1> SUFFICES ASSUME Start PROVE PhoneInv /\ ChansQuiet
    OBVIOUS
  <1>1. /\ img = Idle /\ buf = <<>> /\ pm = Boot /\ conn = "DISCONNECTED" /\ chan = [c \in Chans |-> FreeChan] /\ file = NoFile /\ pkt = NoPkt
        /\ out = [c \in Chans |-> NoOut]
    BY DEF Start, RamInit
  <1>2. <<>> \in Seq(Tokens) /\ <<>> \in Seq(Int) /\ FpWords \in Nat \ {0}
    BY IoioFileAssumption
  <1>3. InstallerOK(flash, img, buf) /\ HandleBufferDone /\ ~img.failed
    <2>1. ImgOK(img) /\ ~img.due /\ ~img.failed
      BY <1>1, <1>2 DEF ImgOK, Idle, NoAddress
    <2>2. QED
      BY <1>1, <1>2, <2>1 DEF InstallerOK, Start, HandleBufferDone
  <1>4. PmOK /\ pm.pc = "conn" /\ pm.state = "WAIT_CONNECT" /\ pm.written = 0
    <2> DEFINE e == <<>>  z == 0
    <2>1. e \in Seq(Int) /\ z \in 0 .. FpWords - 1
      BY <1>2
    <2>2. pm = [pc |-> "conn", state |-> "WAIT_CONNECT", auth |-> "BUSY", fp |-> e, bad |-> FALSE, written |-> z]
      BY <1>1 DEF Boot
    <2> HIDE DEF e, z
    <2>3. PmOK /\ pm.pc = "conn" /\ pm.state = "WAIT_CONNECT" /\ pm.written = z
      BY <2>1, <2>2 DEF PmOK, MainStates
    <2>4. QED
      BY <2>3 DEF z
  <1>5. PktOK /\ ~pkt.on
    BY <1>1, <1>2 DEF PktOK, NoPkt
  <1>6. ChanOK /\ OutOK /\ (\A c \in Chans : chan[c] = FreeChan) /\ chan["sync"] = FreeChan /\ chan["shell"] = FreeChan /\ out["sync"] = NoOut
    BY <1>1, AllFree, TwoChans DEF ChanOK, OutOK, ChanRec, OutRec
  <1>7. PhoneTypeOK
    BY <1>1, <1>3, <1>4, <1>5, <1>6, FreeShape DEF PhoneTypeOK, Start
  <1>8. Closed /\ SyncState = "FREE"
    BY <1>1, <1>6, FreeShape DEF Closed, SyncState
  <1>9. ChannelInStep
    BY <1>1, <1>8, FreeShape DEF ChannelInStep, Closing
  <1>10. LoopInStep
    BY <1>1, <1>3, <1>4, <1>5, <1>8 DEF LoopInStep, InCall
  <1>11. FingerprintMeansImage \/ PhoneFlashFails
    BY MeansIsMeans DEF Start
  <1> DEFINE no == FALSE
  <1>12. 1 \in Versions /\ no \in BOOLEAN /\ ~no
    BY IoioFileAssumption DEF Versions
  <1> HIDE DEF no
  <1>13. Followed(1, no)
    BY <1>1, <1>12 DEF Followed
  <1>14. Knows(1, no) /\ FollowsFile(1, no)
    BY <1>1, <1>4, FreeShape DEF Knows, Between, FollowsFile
  <1>15. PhoneInv
    BY <1>7, <1>9, <1>10, <1>11, <1>12, <1>13, <1>14 DEF PhoneInv, InStep, Start
  <1>16. ChansQuiet
    BY <1>4, <1>5, <1>6 DEF ChansQuiet, FreeChan
  <1>17. QED
    BY <1>15, <1>16

LEMMA PhoneInitHolds == ASSUME PhoneBootInit PROVE PhoneInv /\ ChansQuiet
  <1>1. RamInit /\ peer = "none" /\ FlashInit(1)
    BY DEF PhoneBootInit
  <1> DEFINE a == [b \in 0 .. NumBlocks - 1 |-> IF \E i \in DOMAIN Images[1] : Images[1][i] = b THEN 1 ELSE Erased]
             w == [i \in 1 .. FpWords |-> 1]
  <1>2. a \in [0 .. NumBlocks - 1 -> Int] /\ w \in [1 .. FpWords -> Int] /\ Erased \in Int /\ (\A b \in 0 .. NumBlocks - 1 : a[b] \in {1, Erased})
    BY DEF Erased
  <1>3. Whole(flash, 1) /\ (\A i \in 1 .. FpWords : w[i] = 1)
    <2>1. \A i \in DOMAIN Images[1] : Images[1][i] \in 0 .. NumBlocks - 1
      BY IoioFileAssumption
    <2>2. \A i \in DOMAIN Images[1] : a[Images[1][i]] = 1
      BY <2>1
    <2>3. flash.app = a
      BY <1>1 DEF FlashInit
    <2>4. QED
      BY <2>2, <2>3 DEF Whole
  <1>4. flash = [app |-> a, fp |-> w, tun |-> Erased]
    BY <1>1 DEF FlashInit
  <1> HIDE DEF a, w
  <1>5. FlashOK(flash) /\ flash.app = a /\ flash.fp = w
    BY <1>2, <1>4 DEF FlashOK
  <1>6. InstalledIsAuthentic
    BY <1>2, <1>5 DEF InstalledIsAuthentic
  <1>7. Means(flash)
    <2>1. SUFFICES ASSUME NEW u \in Versions, FpIs(flash, u) PROVE u = 1
      BY <1>3 DEF Means
    <2>2. flash.fp[1] = 1 /\ flash.fp[1] = u
      BY <1>3, <1>5, <2>1, NoVersion DEF FpIs
    <2>3. QED
      BY <2>2
  <1>8. Start
    BY <1>1, <1>5, <1>6, <1>7 DEF Start
  <1>9. QED
    BY <1>8, StartHolds

\* What a block or a page that was being written or erased may hold.
LEMMA ImageInterrupted ==
    ASSUME PhoneInv, flash' \in InterruptedImage PROVE FlashOK(flash') /\ InstalledIsAuthentic' /\ (~PhoneFlashFails => Means(flash'))
  <1>1. FlashOK(flash) /\ InstalledIsAuthentic /\ (~PhoneFlashFails => Means(flash))
    BY Parts
  <1>2. CASE flash' = flash
    BY <1>1, <1>2 DEF InstalledIsAuthentic
  <1>3. CASE flash' # flash
    <2> DEFINE new == {WrittenBlock(flash, Address, Garbage),
                       [flash EXCEPT !.app = [b \in DOMAIN flash.app |-> IF PageOf(b) = PageOf(Address) THEN Garbage ELSE flash.app[b]]]}
    <2>1. img.due /\ ~AddressRefused /\ flash' \in new
      BY <1>3 DEF InterruptedImage
    <2>2. FpIs(flash, Erased)
      <3>1. ~HandleBufferDone
        BY <2>1 DEF HandleBufferDone
      <3>2. QED
        BY <3>1, ImageUnderWay DEF FpErased, FpIs
    <2>3. flash.app \in [0 .. NumBlocks - 1 -> Int] /\ DOMAIN flash.app = 0 .. NumBlocks - 1 /\ Garbage \in Int /\ \A b \in 0 .. NumBlocks - 1 : flash.app[b] \in Int
      <3>1. flash.app \in [0 .. NumBlocks - 1 -> Int]
        BY <1>1 DEF FlashOK
      <3>2. Garbage \in Int
        BY DEF Garbage
      <3>3. QED
        BY <3>1, <3>2
    <2>4. PICK a \in [0 .. NumBlocks - 1 -> Int] : flash' = [flash EXCEPT !.app = a] /\ \A b \in 0 .. NumBlocks - 1 : a[b] \in {flash.app[b], Garbage}
      <3>1. CASE flash' = WrittenBlock(flash, Address, Garbage)
        <4>1. Address \in 0 .. NumBlocks - 1 /\ Word(flash.app[Address], Garbage) = Garbage
          BY <2>1 DEF AddressRefused, Word
        <4> DEFINE a == [flash.app EXCEPT ![Address] = Garbage]
        <4>2. a \in [0 .. NumBlocks - 1 -> Int] /\ \A b \in 0 .. NumBlocks - 1 : a[b] \in {flash.app[b], Garbage}
          BY <2>3, <4>1
        <4>3. flash' = [flash EXCEPT !.app = a]
          BY <3>1, <4>1 DEF WrittenBlock
        <4>4. QED
          BY <4>2, <4>3
      <3>2. CASE flash' = [flash EXCEPT !.app = [b \in DOMAIN flash.app |-> IF PageOf(b) = PageOf(Address) THEN Garbage ELSE flash.app[b]]]
        <4> DEFINE a == [b \in DOMAIN flash.app |-> IF PageOf(b) = PageOf(Address) THEN Garbage ELSE flash.app[b]]
        <4>1. a \in [0 .. NumBlocks - 1 -> Int] /\ \A b \in 0 .. NumBlocks - 1 : a[b] \in {flash.app[b], Garbage}
          BY <2>3
        <4>2. QED
          BY <3>2, <4>1
      <3>3. QED
        BY <2>1, <3>1, <3>2
    <2>5. FlashOK(flash') /\ flash'.fp = flash.fp /\ flash'.app = a
      BY <1>1, <2>4, AppShape
    <2>6. Means(flash')
      BY <2>2, <2>5, ErasedPrint DEF FpIs
    <2>7. InstalledIsAuthentic'
      BY <1>1, <2>3, <2>4, <2>5 DEF InstalledIsAuthentic
    <2>8. QED
      BY <2>5, <2>6, <2>7
  <1>4. QED
    BY <1>2, <1>3

\* The same for the fingerprint.
LEMMA PrintInterrupted ==
    ASSUME PhoneInv, flash' \in InterruptedFingerprint PROVE FlashOK(flash') /\ InstalledIsAuthentic' /\ (~PhoneFlashFails => Means(flash'))
  <1>1. FlashOK(flash) /\ InstalledIsAuthentic /\ (~PhoneFlashFails => Means(flash)) /\ flash.fp \in [1 .. FpWords -> Int]
    BY Parts DEF FlashOK
  <1>2. CASE Main("AUTH_PASSED")
    <2>1. PICK kept \in SUBSET (1 .. FpWords) : flash' = [flash EXCEPT !.fp = [i \in DOMAIN flash.fp |-> IF i \in kept THEN flash.fp[i] ELSE Erased]]
      BY <1>1, <1>2 DEF InterruptedFingerprint, FlashOK
    <2> DEFINE w == [i \in 1 .. FpWords |-> IF i \in kept THEN flash.fp[i] ELSE Erased]
    <2>2. w \in [1 .. FpWords -> Int] /\ \A i \in 1 .. FpWords : w[i] \in {flash.fp[i], Erased}
      <3>1. \A i \in 1 .. FpWords : flash.fp[i] \in Int
        BY <1>1
      <3>2. Erased \in Int
        BY DEF Erased
      <3>3. QED
        BY <3>1, <3>2
    <2>3. flash' = [flash EXCEPT !.fp = w]
      BY <1>1, <2>1
    <2> HIDE DEF w
    <2>4. FlashOK(flash') /\ flash'.fp = w /\ flash'.app = flash.app
      BY <1>1, <2>2, <2>3 DEF FlashOK
    <2>5. ~PhoneFlashFails => Means(flash')
      <3>1. SUFFICES ASSUME Means(flash), NEW v \in Versions, FpIs(flash', v) PROVE FpIs(flash, v)
        BY <1>1, <2>4 DEF Means, Whole
      <3>2. \A i \in 1 .. FpWords : flash.fp[i] = v
        BY <2>2, <2>4, <3>1, NoVersion DEF FpIs
      <3>3. QED
        BY <3>2 DEF FpIs
    <2>6. QED
      BY <1>1, <2>4, <2>5 DEF InstalledIsAuthentic
  <1>3. CASE ~Main("AUTH_PASSED")
    <2> DEFINE k == pm.written + 1
    <2>1. flash' = [flash EXCEPT !.fp[k] = Garbage]
      BY <1>3 DEF InterruptedFingerprint
    <2>2. k \in 1 .. FpWords /\ Garbage \in Int
      BY Parts, IoioFileAssumption DEF PmOK, Garbage
    <2> HIDE DEF k
    <2>3. FlashOK(flash') /\ flash'.app = flash.app /\ flash'.fp[k] = Garbage
      BY <1>1, <2>1, <2>2, FpWordShape
    <2>4. Means(flash')
      BY <2>2, <2>3, NoPrint, NoVersion
    <2>5. QED
      BY <1>1, <2>3, <2>4 DEF InstalledIsAuthentic
  <1>4. QED
    BY <1>2, <1>3

LEMMA PowerFailsKeeps == ASSUME PhoneInv, PowerFails PROVE PhoneInv' /\ ChansQuiet'
  <1>1. flash' \in InterruptedImage \/ flash' \in InterruptedFingerprint
    BY DEF PowerFails
  <1>2. FlashOK(flash') /\ InstalledIsAuthentic' /\ (~PhoneFlashFails => Means(flash'))
    BY <1>1, ImageInterrupted, PrintInterrupted
  <1>3. RamInit' /\ peer' \in {"none", "other"} \cup DOMAIN Phones
    BY Parts DEF PowerFails, RamInit
  <1>4. Start'
    BY <1>2, <1>3 DEF Start, Means, FpIs, Whole, FlashOK
  <1>5. QED
    BY <1>4, StartHolds, PTL

-----------------------------------------------------------------------------
(* The channels that are not in use, and the theorems.                     *)

\* The channels as they were, or each in use or fresh.
LEMMA QuietSame == ASSUME ChansQuiet, UNCHANGED <<chan, pkt>>, pm'.pc = "chan" => peer' # "other" PROVE ChansQuiet'
  BY DEF ChansQuiet, SyncState

LEMMA QuietMoves ==
    ASSUME ChansQuiet, ~chan'["shell"].data, \A c \in Chans : chan'[c] = chan[c] \/ chan'[c].state # "FREE" \/ chan'[c] = FreeChan,
           pkt'.on => chan'["sync"].state # "FREE", pm'.pc = "chan" => peer' # "other"
    PROVE  ChansQuiet'
  BY DEF ChansQuiet, SyncState

LEMMA QuietLoop ==
    ASSUME PhoneInv, ChansQuiet, ConnDetached \/ ConnHello \/ RecvNothing \/ ChannelsGone \/ MainDisconnected \/ MainWaitConnect \/ MainImageDone
                                   \/ MainRunApp \/ MainNothing \/ DetachPeer \/ (\E p \in DOMAIN Phones \cup {"other"} : AttachPeer(p))
                                   \/ FileImage \/ FileImageFailed
    PROVE  ChansQuiet'
  <1>0. PmOK
    BY Parts
  <1>1. CASE ConnDetached \/ ConnHello \/ ChannelsGone \/ MainDisconnected \/ MainWaitConnect \/ MainRunApp \/ MainNothing
    <2>1. pm'.pc # "chan" /\ UNCHANGED <<chan, pkt>>
      BY <1>0, <1>1 DEF ConnDetached, ConnHello, ChannelsGone, MainDisconnected, MainWaitConnect, MainRunApp, MainNothing, PmOK
    <2>2. QED
      BY <2>1, QuietSame
  <1>2. CASE MainImageDone
    <2>1. pm'.pc # "chan" /\ UNCHANGED <<chan, pkt>>
      BY <1>0, <1>2 DEF MainImageDone, PmOK
    <2>2. QED
      BY <2>1, QuietSame
  <1>3. CASE RecvNothing
    BY <1>3, QuietSame DEF RecvNothing, Online, Attached
  <1>4. CASE DetachPeer \/ \E p \in DOMAIN Phones \cup {"other"} : AttachPeer(p)
    <2>1. (pm'.pc = "chan" => peer' # "other") /\ UNCHANGED <<chan, pkt>>
      BY <1>4 DEF DetachPeer, AttachPeer
    <2>2. QED
      BY <2>1, QuietSame
  <1>5. CASE FileImage \/ FileImageFailed
    <2>1. pm'.pc = pm.pc /\ peer' = peer /\ UNCHANGED <<chan, pkt>>
      BY <1>0, <1>5 DEF FileImage, FileImageFailed, PmOK
    <2>2. QED
      BY <2>1, QuietSame DEF ChansQuiet
  <1>6. QED
    BY <1>1, <1>2, <1>3, <1>4, <1>5

LEMMA QuietPackets ==
    ASSUME PhoneInv, ChansQuiet, ConnInit \/ AdbError \/ Packets
    PROVE  ChansQuiet'
  <1>0. PmOK /\ ChanOK
    BY Parts
  <1>1. CASE ConnInit \/ AdbError
    <2>1. pm.pc = "conn" /\ pm' = [pm EXCEPT !.pc = "main"] /\ chan' = [c \in Chans |-> FreeChan] /\ pkt' = pkt
      BY <1>1 DEF ConnInit, AdbError, Conn
    <2>2. ~pkt.on
      BY <2>1, NotCalled DEF InCall
    <2>3. pm'.pc # "chan"
      BY <1>0, <2>1 DEF PmOK
    <2>4. \A c \in Chans : chan'[c] = FreeChan
      BY <2>1
    <2>5. ~chan'["shell"].data
      BY <2>4, TwoChans DEF FreeChan
    <2>6. QED
      BY <2>1, <2>2, <2>3, <2>4, <2>5, QuietMoves
  <1>2. ASSUME NEW c \in Chans, RecvOKAY(c) PROVE ChansQuiet'
    <2>1. /\ Online /\ peer' = peer /\ pkt' = pkt /\ chan'[c].state = "IDLE"
          /\ chan'[c].data => chan[c].data
          /\ \A d \in Chans : d # c => chan'[d] = chan[d]
      BY <1>2, OkayShape
    <2>2. peer' # "other" /\ ~pkt'.on
      BY <2>1, OnlineMeans DEF Attached
    <2>3. ~chan'["shell"].data
      BY <2>1, TwoChans DEF ChansQuiet
    <2>4. QED
      BY <2>1, <2>2, <2>3, QuietMoves
  <1>3. ASSUME NEW c \in Chans, RecvCLSE(c) PROVE ChansQuiet'
    <2>1. Online /\ peer' = peer /\ pkt' = pkt /\ chan' = [chan EXCEPT ![c] = FreeChan]
      BY <1>3 DEF RecvCLSE
    <2>2. peer' # "other" /\ ~pkt'.on
      BY <2>1, OnlineMeans DEF Attached
    <2>3. chan'[c] = FreeChan /\ \A d \in Chans : d # c => chan'[d] = chan[d]
      BY <1>0, <2>1, ChanSet, FreeShape
    <2>4. ~chan'["shell"].data
      BY <2>3, TwoChans DEF ChansQuiet, FreeChan
    <2>5. QED
      BY <2>2, <2>3, <2>4, QuietMoves
  <1>4. ASSUME NEW c \in Chans, NEW n \in 1 .. MaxPacket, RecvWRTE(c, n) PROVE ChansQuiet'
    <2>1. /\ Online /\ peer' = peer /\ chan[c].state # "FREE" /\ chan'[c].data = chan[c].data /\ \A d \in Chans : d # c => chan'[d] = chan[d]
          /\ c = "sync" => chan'[c].state = chan[c].state
          /\ c # "sync" => pkt' = pkt
      <3>1. Online /\ peer' = peer /\ chan[c].state # "FREE" /\ chan'[c].data = chan[c].data
        BY ZenonT(60), <1>4, WrteShape
      <3>2. \A d \in Chans : d # c => chan'[d] = chan[d]
        <4>1. \A d \in Chans : d # c => chan'[d] = chan[d] /\ out'[d] = out[d]
          BY ZenonT(60), <1>4, WrteShape
        <4>2. QED
          BY <4>1
      <3>3. c = "sync" => chan'[c].state = chan[c].state
        BY ZenonT(60), <1>4, WrteShape
      <3>4. c # "sync" => pkt' = pkt
        <4>1. pkt' = IF c = "sync" /\ chan[c].state \in {"IDLE", "WAIT_READY"} THEN [on |-> TRUE, toks |-> SubSeq(out[c].toks, 1, n)] ELSE pkt
          BY ZenonT(60), <1>4, WrteShape
        <4>2. QED
          BY <4>1
      <3>5. QED
        BY <3>1, <3>2, <3>3, <3>4
    <2>2. peer' # "other" /\ ~pkt.on
      BY <2>1, OnlineMeans DEF Attached
    <2>3. chan'[c].state # "FREE"
      <3> DEFINE x == IF c = "shell" /\ chan[c].state \in {"IDLE", "WAIT_READY"} /\ pm.state = "FIND_PATH" /\ DumpsysProcess(SubSeq(out[c].toks, 1, n)) # "BUSY"
                      THEN "CLOSE_REQUESTED" ELSE chan[c].state
                 yes == TRUE
      <3>1. chan' = [chan EXCEPT ![c].ack = yes, ![c].state = x] /\ x # "FREE"
        BY <1>0, <1>4, <2>1 DEF RecvWRTE, ChanOK
      <3> HIDE DEF x, yes
      <3>2. chan'[c].state = x
        BY <1>0, <3>1 DEF ChanOK
      <3>3. QED
        BY <3>1, <3>2
    <2>4. ~chan'["shell"].data
      BY <2>1, TwoChans DEF ChansQuiet
    <2>5. pkt'.on => chan'["sync"].state # "FREE"
      BY <2>1, <2>2, <2>3
    <2>6. QED
      BY <2>1, <2>2, <2>3, <2>4, <2>5, QuietMoves
  <1>5. QED
    BY <1>1, <1>2, <1>3, <1>4 DEF Packets

LEMMA QuietCallback == ASSUME PhoneInv, ChansQuiet, FileHeader \/ FileData \/ FileFail \/ FileIgnore PROVE ChansQuiet'
  <1>1. pkt.on /\ peer' = peer /\ (chan' = chan \/ chan' = ADBClose("sync"))
    BY DEF FileHeader, FileData, FileFail, FileIgnore, Callback, CloseAndError
  <1>2. SyncState # "FREE" /\ pm.pc = "chan" /\ ChanOK
    BY <1>1, CallMeans, Parts
  <1>3. peer' # "other"
    BY <1>1, <1>2 DEF ChansQuiet
  <1>4. chan'["shell"] = chan["shell"] /\ chan'["sync"].state # "FREE"
    BY <1>1, <1>2, SyncClosed DEF SyncState
  <1>5. \A c \in Chans : chan'[c] = chan[c] \/ chan'[c].state # "FREE"
    BY <1>4, TwoChans
  <1>6. ~chan'["shell"].data
    BY <1>4 DEF ChansQuiet
  <1>7. QED
    BY <1>3, <1>4, <1>5, <1>6, QuietMoves

LEMMA QuietTasks == ASSUME PhoneInv, ChansQuiet, ChannelTasks PROVE ChansQuiet'
  <1>1. pm.pc = "chan" /\ ~InCall /\ Attached /\ pm' = [pm EXCEPT !.pc = "main"] /\ pkt' = pkt
    BY DEF ChannelTasks
  <1>2. pm'.pc # "chan" /\ ~pkt'.on /\ FileOK(file) /\ ChanOK /\ chan \in [Chans -> ChanRec]
    BY <1>1, Parts DEF PmOK, InCall, ChanOK, ChanRec
  <1>3. ASSUME NEW ch \in [Chans -> ChanRec], FileTasks(ch), ~ch["shell"].data, \A c \in Chans : ch[c] = chan[c] \/ ch[c].state # "FREE"
        PROVE  ChansQuiet'
    <2>1. chan' = ch \/ (chan'["sync"].state # "FREE" /\ chan' = [ch EXCEPT !["sync"].data = TRUE])
      BY <1>2, <1>3, TasksShape DEF FileTasks
    <2>2. chan'["shell"] = ch["shell"] /\ (chan'["sync"] = ch["sync"] \/ chan'["sync"].state # "FREE")
      BY <1>3, <2>1, TwoChans
    <2>3. \A c \in Chans : chan'[c] = chan[c] \/ chan'[c].state # "FREE"
      BY <1>3, <2>2, TwoChans
    <2>4. ~chan'["shell"].data
      BY <1>3, <2>2
    <2>5. QED
      BY <1>2, <2>3, <2>4, QuietMoves
  <1>4. ASSUME NEW c \in Chans, ToSend(c), NEW o \in Heard(c), FileTasks([chan EXCEPT ![c] = Sent(c)]) PROVE ChansQuiet'
    <2> DEFINE r == Sent(c)  ch == [chan EXCEPT ![c] = r]
    <2>1. r \in ChanRec /\ r.data = chan[c].data /\ r.state # "FREE"
      BY <1>1, <1>4, TurnShape
    <2> HIDE DEF r
    <2>2. ch \in [Chans -> ChanRec] /\ ch[c] = r /\ \A d \in Chans : d # c => ch[d] = chan[d]
      BY <1>2, <2>1
    <2>3. FileTasks(ch)
      BY <1>4 DEF r
    <2> HIDE DEF ch
    <2>4. ~ch["shell"].data /\ \A d \in Chans : ch[d] = chan[d] \/ ch[d].state # "FREE"
      BY <2>1, <2>2, TwoChans DEF ChansQuiet
    <2>5. QED
      BY <1>3, <2>2, <2>3, <2>4
  <1>5. CASE FileTasks(chan)
    BY <1>2, <1>3, <1>5 DEF ChansQuiet
  <1>6. QED
    BY <1>4, <1>5 DEF ChannelTasks

LEMMA QuietOpens == ASSUME PhoneInv, ChansQuiet, MainWaitAdbReady \/ MainFindPathDone \/ MainFpFailed \/ MainAuthPassed PROVE ChansQuiet'
  <1> DEFINE st == "START"  r == [FreeChan EXCEPT !.state = st]
  <1>1. pm.pc = "main" /\ pkt' = pkt /\ pm'.pc # "chan"
    BY Parts DEF MainWaitAdbReady, MainFindPathDone, MainFpFailed, MainAuthPassed, Main, PmOK
  <1>2. ~pkt.on
    BY <1>1, NotCalled DEF InCall
  <1>3. chan' = chan \/ \E c \in Chans : chan' = [chan EXCEPT ![c] = r]
    BY TwoChans DEF MainWaitAdbReady, MainFindPathDone, MainFpFailed, MainAuthPassed, ADBFileRead, ADBOpen
  <1>4. st \in ChanStates /\ st # "FREE"
    BY DEF ChanStates
  <1> HIDE DEF st
  <1>5. r \in ChanRec /\ r.state # "FREE" /\ ~r.data
    BY <1>4 DEF ChanRec, FreeChan
  <1> HIDE DEF r
  <1>6. CASE chan' = chan
    BY <1>1, <1>6, QuietSame
  <1>7. ASSUME NEW c \in Chans, chan' = [chan EXCEPT ![c] = r] PROVE ChansQuiet'
    <2>1. chan'[c] = r /\ \A d \in Chans : d # c => chan'[d] = chan[d]
      BY <1>5, <1>7, ChanSet, Parts
    <2>2. ~chan'["shell"].data
      BY <1>5, <2>1, TwoChans DEF ChansQuiet
    <2>3. QED
      BY <1>1, <1>2, <1>5, <2>1, <2>2, QuietMoves
  <1>8. QED
    BY <1>3, <1>6, <1>7

-----------------------------------------------------------------------------
LEMMA PhoneNextKeeps == ASSUME PhoneInv, ChansQuiet, [PhoneBootNext]_pVars PROVE PhoneInv' /\ ChansQuiet'
  <1>1. CASE LoopStep
    <2>1. CASE ConnDetached \/ ConnHello \/ RecvNothing \/ ChannelsGone
      BY <2>1, ConnDetachedKeeps, ConnHelloKeeps, RecvNothingKeeps, ChannelsGoneKeeps, QuietLoop
    <2>2. CASE ConnInit
      BY <2>2, ConnInitKeeps, QuietPackets
    <2>3. CASE Packets
      <3>1. PhoneInv'
        BY <2>3, RecvOKAYKeeps, RecvCLSEKeeps, RecvWRTEKeeps DEF Packets
      <3>2. QED
        BY <2>3, <3>1, QuietPackets
    <2>4. CASE FileCallback
      <3>1. CASE FileHeader \/ FileData \/ FileFail \/ FileIgnore
        BY <3>1, FileHeaderKeeps, FileDataKeeps, FileFailKeeps, FileIgnoreKeeps, QuietCallback
      <3>2. CASE FileImage \/ FileImageFailed
        BY <3>2, FileImageKeeps, FileImageFailedKeeps, QuietLoop
      <3>3. QED
        BY <2>4, <3>1, <3>2 DEF FileCallback
    <2>5. CASE ChannelTasks
      BY <2>5, ChannelTasksKeeps, QuietTasks
    <2>6. CASE MainSwitch
      <3>1. CASE MainDisconnected \/ MainWaitConnect \/ MainImageDone \/ MainRunApp \/ MainNothing
        BY <3>1, MainDisconnectedKeeps, MainWaitConnectKeeps, MainImageDoneKeeps, MainRunAppKeeps, QuietLoop
      <3>2. CASE MainWaitAdbReady \/ MainFindPathDone \/ MainFpFailed \/ MainAuthPassed
        BY <3>2, MainWaitAdbReadyKeeps, MainFindPathDoneKeeps, MainFpFailedKeeps, MainAuthPassedKeeps, QuietOpens
      <3>3. QED
        BY <2>6, <3>1, <3>2 DEF MainSwitch
    <2>7. QED
      BY <1>1, <2>1, <2>2, <2>3, <2>4, <2>5, <2>6 DEF LoopStep
  <1>2. CASE AdbError
    BY <1>2, AdbErrorKeeps, QuietPackets
  <1>3. CASE DetachPeer
    BY <1>3, DetachPeerKeeps, QuietLoop
  <1>4. CASE PowerFails
    BY <1>4, PowerFailsKeeps
  <1>5. ASSUME NEW p \in DOMAIN Phones \cup {"other"}, AttachPeer(p) PROVE PhoneInv' /\ ChansQuiet'
    BY <1>5, AttachPeerKeeps, QuietLoop
  <1>6. CASE UNCHANGED pVars
    <2>1. UNCHANGED <<fVars, pm, conn, chan, file, pkt, out>> /\ UNCHANGED <<fVars, chan, file, pkt, out, peer>> /\ conn' = conn /\ peer' = peer /\ pm' = pm
      BY <1>6 DEF pVars
    <2>2. PhoneInv'
      <3> DEFINE p == pm.pc  s == pm.state
      <3>1. pm' = [pm EXCEPT !.pc = p, !.state = s] /\ p = pm.pc /\ s = pm.state
        BY <2>1, SamePm, Parts
      <3>2. p # "chan" => ~InCall
        BY NotCalled
      <3>3. LoopInStep /\ conn' \in {"DISCONNECTED", "WAIT_ATTACH", "WAIT_CONNECT", "CONNECTED"} /\ peer' \in {"none", "other"} \cup DOMAIN Phones
        BY <2>1, Parts
      <3>4. Attached' <=> Attached
        BY <2>1 DEF Attached
      <3>5. /\ Attached' /\ conn' = "DISCONNECTED" => p = "conn" /\ s = "WAIT_CONNECT"
            /\ Attached' /\ conn' # "DISCONNECTED" /\ s \in Early => Closed
            /\ peer' = "other" => s \in {"WAIT_CONNECT", "RUN_APP"}
        BY <2>1, <3>3, <3>4 DEF LoopInStep
      <3> HIDE DEF p, s
      <3>6. UNCHANGED <<fVars, chan, file, pkt, out>> /\ (Attached' /\ conn' # "DISCONNECTED" => peer' = peer /\ conn # "DISCONNECTED")
        BY <2>1
      <3>7. QED
        BY <3>1, <3>2, <3>3, <3>5, <3>6, QuietKeeps
    <2>3. ChansQuiet'
      BY <2>1, QuietSame DEF ChansQuiet
    <2>4. QED
      BY <2>2, <2>3
  <1>7. QED
    BY <1>1, <1>2, <1>3, <1>4, <1>5, <1>6 DEF PhoneBootNext

(* What the main loop, ADBFileCallback and the installer remember always   *)
(* belongs to one phone and to one place in one of its files, whatever the *)
(* cut of the stream into packets, the size of the sync protocol's chunks, *)
(* the moment the cable is pulled and the moment the power fails.          *)
THEOREM PhoneInvariance == PhoneBootSpec => [](PhoneInv /\ ChansQuiet)
  <1>1. PhoneBootInit => PhoneInv /\ ChansQuiet
    BY PhoneInitHolds
  <1>2. PhoneInv /\ ChansQuiet /\ [PhoneBootNext]_pVars => PhoneInv' /\ ChansQuiet'
    BY PhoneNextKeeps
  <1>3. QED
    BY <1>1, <1>2, PTL DEF PhoneBootSpec

(* Application space never holds a block of an image from a phone whose    *)
(* manager is not signed with the expected certificate, even when the      *)
(* phone is exchanged for another between auth and image, and even when    *)
(* writes to the Flash fail (main.c, MAIN_STATE_AUTH_MANAGER and on).      *)
THEOREM OnlyAuthentic == PhoneBootSpec => []InstalledIsAuthentic
  <1>1. PhoneInv => InstalledIsAuthentic
    BY DEF PhoneInv
  <1>2. QED
    BY <1>1, PhoneInvariance, PTL

(* Whenever the fingerprint in the Flash is a complete one, all blocks of  *)
(* the image it names are in application space: it is erased before the    *)
(* first block is written and written after the last, so that a boot that  *)
(* matches fingerprints may skip the download.  The Flash must not fail:   *)
(* FileRecvImage goes on with the file after a failed write, and its end   *)
(* replaces MAIN_STATE_ERROR by MAIN_STATE_RECV_IMAGE_DONE.                *)
THEOREM PhoneFingerprint == ~PhoneFlashFails => (PhoneBootSpec => []FingerprintMeansImage)
  <1>1. SUFFICES ASSUME ~PhoneFlashFails PROVE PhoneBootSpec => []FingerprintMeansImage
    OBVIOUS
  <1>2. PhoneInv => FingerprintMeansImage
    BY <1>1 DEF PhoneInv
  <1>3. QED
    BY <1>2, PhoneInvariance, PTL
=============================================================================
