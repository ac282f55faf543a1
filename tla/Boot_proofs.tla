----------------------------- MODULE Boot_proofs -----------------------------
(***************************************************************************)
(* Proofs about the installer of images and the bootloader that talks to a *)
(* PC, for every set of images and every way of cutting the stream.        *)
(* PcInv follows the conversation with ioiodude: what the board has still  *)
(* to read, what the PC waits for, and, while an image is being received,  *)
(* which blocks of it are in the Flash.                                    *)
(***************************************************************************)
EXTENDS PcBoot, TLAPS

TokTypes ==
  {"IOIO", "addr", "code", "DATA", "DONE", "FAIL", "size", "text", "word", "cert", "path", "long", "arg",
   "HARD_RESET", "CHECK_INTERFACE", "READ_FINGERPRINT", "WRITE_FINGERPRINT", "WRITE_IMAGE", "ESTABLISH", "INTERFACE", "FINGERPRINT"}
Tokens == [t : TokTypes, n : Int]
FlashOK(f) == f \in [app : [0 .. NumBlocks - 1 -> Int], fp : [1 .. FpWords -> Int], tun : Int]
ImgOK(g) ==
  g \in [state : {"WAIT_HEADER", "WAIT_BLOCK"}, buf : Seq(Tokens), remaining : 0 .. 2, last : Int, due : BOOLEAN, failed : BOOLEAN]
InstallerOK(f, g, b) == FlashOK(f) /\ ImgOK(g) /\ b \in Seq(Tokens)

Blocks(v) == Len(Images[v])
Whole(f, v) == \A i \in DOMAIN Images[v] : f.app[Images[v][i]] = v

\* s is the piece of sequence e behind its first k elements.
PieceAt(s, e, k) == Len(s) + k <= Len(e) /\ \A i \in 1 .. Len(s) : s[i] = e[k + i]

\* The first m blocks of image v are in Flash f, in pages that installer g will not erase again; the page
\* it works on holds nothing else.
BlocksIn(f, g, v, m) ==
  /\ \A i \in 1 .. m : /\ Images[v][i] \in 0 .. NumBlocks - 1 /\ f.app[Images[v][i]] = v
                       /\ PageOf(Images[v][i]) <= g.last
  /\ g.last = NoAddress \/ \E b \in 0 .. NumBlocks - 1 : g.last = PageOf(b)
  /\ \A b \in 0 .. NumBlocks - 1 : PageOf(b) = g.last => f.app[b] \in {Erased, v}

\* Installer g has taken c units of image v.
InHeader(g, v, c) ==
  /\ g.state = "WAIT_HEADER" /\ c \in {0, 1} /\ g.last = NoAddress
  /\ Len(g.buf) = c /\ g.remaining = 1 - c /\ (g.due <=> c = 1) /\ PieceAt(g.buf, ImageFile(v), 0)
InBlock(f, g, v, c, m) ==
  /\ g.state = "WAIT_BLOCK" /\ BlocksIn(f, g, v, m) /\ PieceAt(g.buf, ImageFile(v), 1 + 2 * m)
  /\ c = 1 + 2 * m + Len(g.buf) /\ g.remaining = 2 - Len(g.buf) /\ (g.due <=> Len(g.buf) = 2)
Installing(f, g, v, c) == InHeader(g, v, c) \/ \E m \in 0 .. Blocks(v) : InBlock(f, g, v, c, m)

-----------------------------------------------------------------------------
(* Lemmas on the operators.                                                *)

LEMMA MinOfTwo == ASSUME NEW a \in Int, NEW b \in Int PROVE Min({a, b}) = IF a <= b THEN a ELSE b
  <1>1. CASE a <= b
    <2>1. \A x \in {a, b} : (\A y \in {a, b} : x =< y) <=> x = a
      BY <1>1
    <2>2. QED
      BY <1>1, <2>1 DEF Min
  <1>2. CASE ~(a <= b)
    <2>1. \A x \in {a, b} : (\A y \in {a, b} : x =< y) <=> x = b
      BY <1>2
    <2>2. QED
      BY <1>2, <2>1 DEF Min
  <1>3. QED
    BY <1>1, <1>2

\* Pages are in the order of their blocks.
LEMMA PagesInOrder ==
    ASSUME NEW a \in Nat, NEW b \in Nat, PageOf(b) <= a PROVE PageOf(b) <= PageOf(a) /\ PageOf(a) \in Nat /\ PageOf(b) \in Nat
  <1> DEFINE p == BlocksPerPage  q == b \div p  r == a \div p
  <1>1. p \in Nat \ {0}
    BY IoioFileAssumption
  <1>2. q \in Nat /\ r \in Nat /\ a < (r + 1) * p
    BY <1>1
  <1>3. q * p <= a
    BY <1>2 DEF PageOf
  <1>4. q <= r
    <2>1. SUFFICES ASSUME r + 1 <= q PROVE FALSE
      BY <1>2
    <2>2. (r + 1) * p <= q * p
      BY <1>1, <1>2, <2>1
    <2>3. QED
      BY <1>1, <1>2, <1>3, <2>2
  <1>5. q * p <= r * p /\ q * p \in Nat /\ r * p \in Nat
    BY <1>1, <1>2, <1>4
  <1>6. QED
    BY <1>5 DEF PageOf

LEMMA TokShape == ASSUME NEW t \in TokTypes, NEW n \in Int PROVE Tok(t, n) \in Tokens /\ Tok(t, n).t = t /\ Tok(t, n).n = n
  BY DEF Tok, Tokens

LEMMA ConcatShape ==
    ASSUME NEW S, NEW a \in Seq(S), NEW b \in Seq(S)
    PROVE  /\ a \o b \in Seq(S) /\ Len(a \o b) = Len(a) + Len(b)
           /\ \A i \in 1 .. Len(a) : (a \o b)[i] = a[i]
           /\ \A i \in 1 .. Len(b) : (a \o b)[Len(a) + i] = b[i]
  OBVIOUS

\* An image as a file: the header, then an address and its code for every block.
LEMMA FileShape ==
    ASSUME NEW v \in Versions
    PROVE  /\ ImageFile(v) \in Seq(Tokens) /\ Len(ImageFile(v)) = 1 + 2 * Blocks(v) /\ Blocks(v) \in Nat
           /\ ImageFile(v)[1] = Tok("IOIO", 0) /\ v \in Nat \ {0} /\ Images[v] \in Seq(Nat)
           /\ \A m \in 0 .. Blocks(v) - 1 : /\ ImageFile(v)[2 + 2 * m] = Tok("addr", Images[v][m + 1])
                                           /\ ImageFile(v)[3 + 2 * m] = Tok("code", v)
  <1> DEFINE n == Blocks(v)
             body == [i \in 1 .. 2 * n |-> IF i % 2 = 1 THEN Tok("addr", Images[v][(i + 1) \div 2]) ELSE Tok("code", v)]
             head == <<Tok("IOIO", 0)>>
  <1>1. Images[v] \in Seq(Nat) /\ v \in Nat \ {0} /\ NumBlocks \in Nat
    BY IoioFileAssumption DEF Versions
  <1>2. n \in Nat /\ \A i \in 1 .. n : Images[v][i] \in Int
    BY <1>1 DEF Blocks
  <1>3. \A i \in 1 .. 2 * n : (i + 1) \div 2 \in 1 .. n
    BY <1>2
  <1>4. \A i \in 1 .. 2 * n : body[i] \in Tokens
    <2> TAKE i \in 1 .. 2 * n
    <2>1. Images[v][(i + 1) \div 2] \in Int
      BY <1>2, <1>3
    <2>2. Tok("addr", Images[v][(i + 1) \div 2]) \in Tokens /\ Tok("code", v) \in Tokens
      BY <1>1, <2>1, TokShape DEF TokTypes
    <2>3. QED
      BY <2>2
  <1>5. body \in Seq(Tokens) /\ Len(body) = 2 * n
    BY <1>2, <1>4
  <1>6. head \in Seq(Tokens) /\ Len(head) = 1 /\ head[1] = Tok("IOIO", 0)
    BY TokShape DEF TokTypes
  <1>7. ImageFile(v) = head \o body
    BY DEF ImageFile, Blocks
  <1>8. \A m \in 0 .. n - 1 : body[1 + 2 * m] = Tok("addr", Images[v][m + 1]) /\ body[2 + 2 * m] = Tok("code", v)
    <2> TAKE m \in 0 .. n - 1
    <2>1. 1 + 2 * m \in 1 .. 2 * n /\ 2 + 2 * m \in 1 .. 2 * n /\ (1 + 2 * m) % 2 = 1 /\ (2 + 2 * m) % 2 = 0
          /\ ((1 + 2 * m) + 1) \div 2 = m + 1
      BY <1>2
    <2>2. QED
      BY <2>1
  <1> HIDE DEF body, head
  <1>9. /\ head \o body \in Seq(Tokens) /\ Len(head \o body) = 1 + 2 * n /\ (head \o body)[1] = head[1]
        /\ \A i \in 1 .. 2 * n : (head \o body)[1 + i] = body[i]
    <2>1. body \in Seq(Tokens) /\ head \in Seq(Tokens)
      BY <1>5, <1>6
    <2>2. /\ head \o body \in Seq(Tokens) /\ Len(head \o body) = Len(head) + Len(body)
          /\ \A i \in 1 .. Len(head) : (head \o body)[i] = head[i]
          /\ \A i \in 1 .. Len(body) : (head \o body)[Len(head) + i] = body[i]
      BY <2>1, ConcatShape
    <2>3. Len(head) = 1 /\ Len(body) = 2 * n
      BY <1>5, <1>6
    <2>4. QED
      BY <1>2, <2>2, <2>3
  <1>10. \A m \in 0 .. n - 1 : ImageFile(v)[2 + 2 * m] = body[1 + 2 * m] /\ ImageFile(v)[3 + 2 * m] = body[2 + 2 * m]
    <2> TAKE m \in 0 .. n - 1
    <2>1. 1 + 2 * m \in 1 .. 2 * n /\ 2 + 2 * m \in 1 .. 2 * n
      BY <1>2
    <2>2. 1 + (1 + 2 * m) = 2 + 2 * m /\ 1 + (2 + 2 * m) = 3 + 2 * m
      BY <1>2
    <2>3. QED
      BY <1>7, <1>9, <2>1, <2>2
  <1>11. \A m \in 0 .. n - 1 : ImageFile(v)[2 + 2 * m] = Tok("addr", Images[v][m + 1]) /\ ImageFile(v)[3 + 2 * m] = Tok("code", v)
    BY <1>8, <1>10
  <1>12. QED
    BY <1>1, <1>2, <1>6, <1>7, <1>9, <1>11 DEF Blocks

-----------------------------------------------------------------------------
(* Pieces of sequences.                                                    *)

\* Two pieces that follow each other make one.
LEMMA PieceConcat ==
    ASSUME NEW S, NEW a \in Seq(S), NEW b \in Seq(S), NEW e \in Seq(S), NEW k \in Nat,
           PieceAt(a, e, k), PieceAt(b, e, k + Len(a))
    PROVE  PieceAt(a \o b, e, k)
  <1> DEFINE s == a \o b
  <1>1. Len(s) = Len(a) + Len(b) /\ (\A i \in 1 .. Len(a) : s[i] = a[i]) /\ (\A i \in 1 .. Len(b) : s[Len(a) + i] = b[i])
    BY ConcatShape
  <1>2. Len(a) \in Nat /\ Len(b) \in Nat /\ Len(e) \in Nat
    OBVIOUS
  <1> HIDE DEF s
  <1>3. ASSUME NEW i \in 1 .. Len(s) PROVE s[i] = e[k + i]
    <2>1. CASE i <= Len(a)
      BY <1>1, <1>2, <2>1 DEF PieceAt
    <2>2. CASE i > Len(a)
      <3>1. i - Len(a) \in 1 .. Len(b) /\ Len(a) + (i - Len(a)) = i /\ k + Len(a) + (i - Len(a)) = k + i
        BY <1>1, <1>2, <2>2
      <3>2. QED
        BY <1>1, <3>1 DEF PieceAt
    <2>3. QED
      BY <1>1, <1>2, <2>1, <2>2
  <1>4. QED
    BY <1>1, <1>2, <1>3 DEF PieceAt, s

\* A piece cut in two.
LEMMA PieceCut ==
    ASSUME NEW S, NEW s \in Seq(S), NEW e \in Seq(S), NEW k \in Nat, NEW n \in 0 .. Len(s), PieceAt(s, e, k)
    PROVE  /\ SubSeq(s, 1, n) \in Seq(S) /\ Len(SubSeq(s, 1, n)) = n /\ PieceAt(SubSeq(s, 1, n), e, k)
           /\ SubSeq(s, n + 1, Len(s)) \in Seq(S) /\ Len(SubSeq(s, n + 1, Len(s))) = Len(s) - n
           /\ PieceAt(SubSeq(s, n + 1, Len(s)), e, k + n)
  <1> DEFINE a == SubSeq(s, 1, n)  b == SubSeq(s, n + 1, Len(s))
  <1>1. a \in Seq(S) /\ Len(a) = n /\ \A i \in 1 .. n : a[i] = s[i]
    OBVIOUS
  <1>2. b \in Seq(S) /\ Len(b) = Len(s) - n /\ \A i \in 1 .. Len(s) - n : b[i] = s[n + i]
    <2>1. b \in Seq(S) /\ Len(b) = Len(s) - n
      OBVIOUS
    <2>2. ASSUME NEW i \in 1 .. Len(s) - n PROVE b[i] = s[n + i]
      <3>1. i \in 1 .. Len(s) - (n + 1) + 1 /\ n + 1 \in Nat /\ Len(s) \in Nat
        OBVIOUS
      <3>2. b[i] = s[(n + 1) + i - 1]
        BY <3>1
      <3>3. QED
        BY <3>1, <3>2
    <2>3. QED
      BY <2>1, <2>2
  <1> HIDE DEF a, b
  <1>3. PieceAt(a, e, k)
    <2>1. Len(a) + k <= Len(e) /\ n \in Nat
      BY <1>1 DEF PieceAt
    <2>2. ASSUME NEW i \in 1 .. Len(a) PROVE a[i] = e[k + i]
      BY <1>1 DEF PieceAt
    <2>3. QED
      BY <2>1, <2>2 DEF PieceAt
  <1>4. PieceAt(b, e, k + n)
    <2>1. Len(b) + (k + n) <= Len(e)
      BY <1>2 DEF PieceAt
    <2>2. ASSUME NEW i \in 1 .. Len(b) PROVE b[i] = e[k + n + i]
      <3>1. n + i \in 1 .. Len(s) /\ k + (n + i) = k + n + i
        BY <1>2
      <3>2. QED
        BY <1>2, <3>1 DEF PieceAt
    <2>3. QED
      BY <2>1, <2>2 DEF PieceAt
  <1>5. QED
    BY <1>1, <1>2, <1>3, <1>4 DEF a, b

-----------------------------------------------------------------------------
(* The installer.                                                          *)

\* Installer g, with b still to be copied, works on image v; it has taken c units of it.
AtWork(f, g, b, v, c) == InstallerOK(f, g, b) /\ ~g.failed /\ Installing(f, g, v, c) /\ PieceAt(b, ImageFile(v), c)

\* What a step of the installer may do: go on, or fail.
GoesOn(v, c) ==
  /\ InstallerOK(flash', img', buf') /\ flash'.fp = flash.fp /\ flash'.tun = flash.tun
  /\ \A b \in 0 .. NumBlocks - 1 : flash'.app[b] \in {flash.app[b], Erased, v}
  /\ img'.failed => ~img'.due /\ buf' = <<>>
  /\ ~img'.failed => \E d \in Nat : AtWork(flash', img', buf', v, d) /\ d + Len(buf') = c + Len(buf)

\* Copying into the field takes the next units of the image.
LEMMA CopyInstalls ==
    ASSUME NEW v \in Versions, NEW c \in Nat, AtWork(flash, img, buf, v, c), CopyField PROVE GoesOn(v, c)
  <1> DEFINE e == ImageFile(v)  n == Min({img.remaining, Len(buf)})
             a == SubSeq(buf, 1, n)  b == SubSeq(buf, n + 1, Len(buf))
  <1>1. /\ img.buf \in Seq(Tokens) /\ img.remaining \in 0 .. 2 /\ buf \in Seq(Tokens) /\ Len(buf) \in Nat /\ Len(buf) > 0
        /\ ~img.due /\ UNCHANGED flash /\ e \in Seq(Tokens) /\ PieceAt(buf, e, c) /\ ~img.failed /\ FlashOK(flash)
    BY FileShape DEF AtWork, InstallerOK, ImgOK, CopyField
  <1>2. n = (IF img.remaining <= Len(buf) THEN img.remaining ELSE Len(buf)) /\ n \in 0 .. Len(buf) /\ n \in 0 .. 2
    BY <1>1, MinOfTwo
  <1>3. /\ img' = [img EXCEPT !.buf = img.buf \o a, !.remaining = img.remaining - n, !.due = (img.remaining = n)]
        /\ buf' = b
    BY DEF CopyField
  <1> HIDE DEF n, e
  <1>4. a \in Seq(Tokens) /\ Len(a) = n /\ PieceAt(a, e, c) /\ b \in Seq(Tokens) /\ Len(b) = Len(buf) - n /\ PieceAt(b, e, c + n)
    <2>1. buf \in Seq(Tokens) /\ e \in Seq(Tokens) /\ c \in Nat /\ n \in 0 .. Len(buf) /\ PieceAt(buf, e, c)
      BY <1>1, <1>2
    <2>2. /\ SubSeq(buf, 1, n) \in Seq(Tokens) /\ Len(SubSeq(buf, 1, n)) = n /\ PieceAt(SubSeq(buf, 1, n), e, c)
          /\ SubSeq(buf, n + 1, Len(buf)) \in Seq(Tokens) /\ Len(SubSeq(buf, n + 1, Len(buf))) = Len(buf) - n
          /\ PieceAt(SubSeq(buf, n + 1, Len(buf)), e, c + n)
      BY <2>1, PieceCut
    <2>3. QED
      BY <2>2
  <1> HIDE DEF a, b
  <1>5. img.buf \o a \in Seq(Tokens) /\ Len(img.buf \o a) = Len(img.buf) + n
    BY <1>1, <1>4, ConcatShape
  <1>6. /\ img'.buf = img.buf \o a /\ img'.remaining = img.remaining - n /\ (img'.due <=> img.remaining = n)
        /\ img'.state = img.state /\ img'.last = img.last /\ img'.failed = img.failed
    BY <1>3 DEF AtWork, InstallerOK, ImgOK
  <1>7. ImgOK(img')
    <2>1. img.remaining - n \in 0 .. 2
      BY <1>1, <1>2
    <2>2. QED
      BY <1>3, <1>5, <2>1 DEF AtWork, InstallerOK, ImgOK
  <1>8. Installing(flash', img', v, c + n)
    <2>1. CASE InHeader(img, v, c)
      <3>1. c = 0 /\ img.last = NoAddress /\ Len(img.buf) = 0 /\ img.remaining = 1 /\ PieceAt(img.buf, e, 0) /\ img.state = "WAIT_HEADER"
        BY <1>1, <2>1 DEF InHeader, e
      <3>2. n = 1
        BY <1>1, <1>2, <3>1
      <3>3. PieceAt(img.buf \o a, e, 0)
        <4>1. PieceAt(a, e, 0 + Len(img.buf))
          BY <1>4, <3>1
        <4>2. QED
          BY <1>1, <1>4, <3>1, <4>1, PieceConcat
      <3>4. InHeader(img', v, c + n)
        BY <1>5, <1>6, <3>1, <3>2, <3>3 DEF InHeader, e
      <3>5. QED
        BY <3>4 DEF Installing
    <2>2. ASSUME NEW m \in 0 .. Blocks(v), InBlock(flash, img, v, c, m) PROVE Installing(flash', img', v, c + n)
      <3>1. /\ BlocksIn(flash, img, v, m) /\ PieceAt(img.buf, e, 1 + 2 * m) /\ img.state = "WAIT_BLOCK"
            /\ c = 1 + 2 * m + Len(img.buf) /\ img.remaining = 2 - Len(img.buf) /\ (img.due <=> Len(img.buf) = 2)
        BY <2>2 DEF InBlock, e
      <3>2. Blocks(v) \in Nat /\ m \in Nat /\ Len(img.buf) \in Nat /\ 1 + 2 * m \in Nat
        BY <1>1, FileShape
      <3>3. PieceAt(img.buf \o a, e, 1 + 2 * m)
        <4>1. PieceAt(a, e, (1 + 2 * m) + Len(img.buf))
          BY <1>4, <3>1
        <4> DEFINE k == 1 + 2 * m
        <4> HIDE DEF k
        <4>2. PieceAt(img.buf \o a, e, k)
          BY <1>1, <1>4, <3>1, <3>2, <4>1, PieceConcat DEF k
        <4>3. QED
          BY <4>2 DEF k
      <3>4. BlocksIn(flash', img', v, m)
        BY <1>1, <1>6, <3>1 DEF BlocksIn
      <3> DEFINE l == Len(img.buf)
      <3>a. Len(img'.buf) = l + n /\ l \in Nat /\ c = 1 + 2 * m + l /\ img.remaining = 2 - l /\ n \in Nat
        <4>1. n \in Nat
          BY <1>2
        <4>2. Len(img'.buf) = Len(img.buf) + n
          BY <1>5, <1>6
        <4>3. QED
          BY <3>1, <3>2, <4>1, <4>2
      <3> HIDE DEF l
      <3>5. c + n = 1 + 2 * m + Len(img'.buf) /\ img'.remaining = 2 - Len(img'.buf)
        BY <1>6, <3>2, <3>a
      <3>6. img'.due <=> Len(img'.buf) = 2
        <4>1. (2 - l = n) <=> (l + n = 2)
          BY <3>a
        <4>2. QED
          BY <1>6, <3>a, <4>1
      <3>7. InBlock(flash', img', v, c + n, m)
        BY <1>6, <3>1, <3>3, <3>4, <3>5, <3>6 DEF InBlock, e
      <3>8. QED
        BY <2>2, <3>7 DEF Installing
    <2>3. QED
      BY <2>1, <2>2 DEF AtWork, Installing
  <1>9. AtWork(flash', img', buf', v, c + n)
    BY <1>1, <1>3, <1>4, <1>6, <1>7, <1>8 DEF AtWork, InstallerOK, e
  <1>10. c + n \in Nat /\ (c + n) + Len(buf') = c + Len(buf)
    BY <1>1, <1>2, <1>3, <1>4
  <1>11. QED
    BY <1>1, <1>6, <1>9, <1>10 DEF GoesOn, AtWork

LEMMA PagesArePositive == \A b \in Nat : PageOf(b) \in Nat
  <1> TAKE b \in Nat
  <1>1. BlocksPerPage \in Nat \ {0}
    BY IoioFileAssumption
  <1>2. b \div BlocksPerPage \in Nat
    BY <1>1
  <1>3. (b \div BlocksPerPage) * BlocksPerPage \in Nat
    BY <1>1, <1>2
  <1>4. QED
    BY <1>3 DEF PageOf

\* After NextField installer g waits for the next block.
LEMMA NextFieldShape ==
    ASSUME ImgOK(img), img' = NextField
    PROVE  /\ ImgOK(img') /\ img'.state = "WAIT_BLOCK" /\ img'.buf = <<>> /\ img'.remaining = 2 /\ ~img'.due
           /\ img'.last = img.last /\ img'.failed = img.failed
  <1>1. img' = [img EXCEPT !.state = "WAIT_BLOCK", !.buf = <<>>, !.remaining = 2, !.due = FALSE]
    BY DEF NextField
  <1>2. img' \in [state : {"WAIT_HEADER", "WAIT_BLOCK"}, buf : Seq(Tokens), remaining : 0 .. 2, last : Int, due : BOOLEAN, failed : BOOLEAN]
    <2>1. <<>> \in Seq(Tokens) /\ 2 \in 0 .. 2
      OBVIOUS
    <2>2. QED
      BY <1>1, <2>1 DEF ImgOK
  <1>3. QED
    BY <1>1, <1>2 DEF ImgOK

LEMMA NextBlockInstalls ==
    ASSUME NEW v \in Versions, NEW m \in 0 .. Blocks(v), ImgOK(img), img' = NextField, BlocksIn(flash', img', v, m)
    PROVE  Installing(flash', img', v, 1 + 2 * m)
  <1>1. Len(ImageFile(v)) = 1 + 2 * Blocks(v) /\ Blocks(v) \in Nat
    BY FileShape
  <1>2. PieceAt(img'.buf, ImageFile(v), 1 + 2 * m)
    BY <1>1, NextFieldShape DEF PieceAt
  <1>3. 1 + 2 * m = 1 + 2 * m + Len(img'.buf) /\ img'.remaining = 2 - Len(img'.buf) /\ (img'.due <=> Len(img'.buf) = 2)
    <2>1. Len(img'.buf) = 0 /\ img'.remaining = 2 /\ ~img'.due
      BY NextFieldShape
    <2>2. m \in Nat
      BY <1>1
    <2>3. QED
      BY <2>1, <2>2
  <1>4. InBlock(flash', img', v, 1 + 2 * m, m)
    BY <1>2, <1>3, NextFieldShape DEF InBlock
  <1>5. QED
    BY <1>4 DEF Installing

\* IOIOFileBlockDone after the header.
LEMMA HeaderInstalls ==
    ASSUME NEW v \in Versions, NEW c \in Nat, AtWork(flash, img, buf, v, c), HeaderDone PROVE GoesOn(v, c)
  <1>1. img.due /\ img.state = "WAIT_HEADER" /\ UNCHANGED flash /\ ~img.failed /\ buf \in Seq(Tokens) /\ ImgOK(img) /\ FlashOK(flash)
    BY DEF AtWork, InstallerOK, HeaderDone
  <1>2. c = 1 /\ img.last = NoAddress /\ Len(img.buf) = 1 /\ PieceAt(img.buf, ImageFile(v), 0)
    BY <1>1 DEF AtWork, Installing, InHeader, InBlock
  <1>3. img.buf[1] = Tok("IOIO", 0)
    BY <1>2, FileShape DEF PieceAt
  <1>4. img' = NextField /\ buf' = buf
    BY <1>1, <1>3 DEF HeaderDone, Tok
  <1>5. 0 \in 0 .. Blocks(v)
    BY FileShape
  <1>6. BlocksIn(flash', img', v, 0)
    <2>1. \A b \in 0 .. NumBlocks - 1 : PageOf(b) # NoAddress
      BY PagesArePositive DEF NoAddress
    <2>2. img'.last = NoAddress
      BY <1>1, <1>2, <1>4, NextFieldShape
    <2>3. QED
      BY <2>1, <2>2 DEF BlocksIn
  <1>7. Installing(flash', img', v, 1 + 2 * 0)
    BY <1>1, <1>4, <1>5, <1>6, NextBlockInstalls
  <1>8. AtWork(flash', img', buf', v, 1)
    BY <1>1, <1>2, <1>4, <1>7, NextFieldShape DEF AtWork, InstallerOK
  <1>9. QED
    BY <1>1, <1>2, <1>4, <1>8, NextFieldShape DEF GoesOn, AtWork

\* The block that is due is the next one of the image.
LEMMA DueBlock ==
    ASSUME NEW v \in Versions, NEW c \in Nat, AtWork(flash, img, buf, v, c), img.due, img.state = "WAIT_BLOCK"
    PROVE  \E m \in 0 .. Blocks(v) - 1 :
             /\ BlocksIn(flash, img, v, m) /\ c = 3 + 2 * m /\ InBlock(flash, img, v, c, m)
             /\ img.buf[1].t = "addr" /\ Address = Images[v][m + 1] /\ img.buf[2].n = v
  <1>1. PICK m \in 0 .. Blocks(v) : InBlock(flash, img, v, c, m)
    BY DEF AtWork, Installing, InHeader
  <1>2. Len(img.buf) = 2 /\ PieceAt(img.buf, ImageFile(v), 1 + 2 * m) /\ c = 3 + 2 * m /\ BlocksIn(flash, img, v, m)
    <2>1. m \in Nat
      BY FileShape
    <2>2. Len(img.buf) = 2 /\ PieceAt(img.buf, ImageFile(v), 1 + 2 * m) /\ BlocksIn(flash, img, v, m) /\ c = 1 + 2 * m + Len(img.buf)
      BY <1>1 DEF InBlock
    <2>3. QED
      BY <2>1, <2>2
  <1>3. Len(ImageFile(v)) = 1 + 2 * Blocks(v) /\ Blocks(v) \in Nat
    BY FileShape
  <1>4. m \in 0 .. Blocks(v) - 1
    BY <1>2, <1>3 DEF PieceAt
  <1>5. img.buf[1] = ImageFile(v)[1 + 2 * m + 1] /\ img.buf[2] = ImageFile(v)[1 + 2 * m + 2]
    BY <1>2 DEF PieceAt
  <1>6. 1 + 2 * m + 1 = 2 + 2 * m /\ 1 + 2 * m + 2 = 3 + 2 * m
    BY <1>3
  <1>7. img.buf[1] = Tok("addr", Images[v][m + 1]) /\ img.buf[2] = Tok("code", v)
    BY <1>4, <1>5, <1>6, FileShape
  <1>8. QED
    BY <1>1, <1>2, <1>4, <1>7 DEF Tok, Address

\* A refused block, or a Flash that fails.
LEMMA FailureShape ==
    ASSUME InstallerOK(flash, img, buf), BlockFailed, UNCHANGED flash, NEW v, NEW c PROVE GoesOn(v, c)
  <1>1. img' = [img EXCEPT !.due = FALSE, !.failed = TRUE] /\ buf' = <<>>
    BY DEF BlockFailed
  <1>2. ImgOK(img') /\ img'.failed /\ ~img'.due
    BY <1>1 DEF InstallerOK, ImgOK
  <1>3. buf' \in Seq(Tokens)
    BY <1>1
  <1>4. QED
    BY <1>1, <1>2, <1>3 DEF GoesOn, InstallerOK

\* Erasing the page of a block costs no block that has been written: addresses ascend, so that page is new.
LEMMA EraseInstalls ==
    ASSUME NEW v \in Versions, NEW c \in Nat, AtWork(flash, img, buf, v, c), NEW fails, ErasePage(fails) PROVE GoesOn(v, c)
  <1>1. CASE BlockFailed /\ UNCHANGED flash
    BY <1>1, FailureShape DEF AtWork
  <1>2. CASE flash' = ErasedPage(flash, PageOf(Address)) /\ img' = [img EXCEPT !.last = PageOf(Address)] /\ UNCHANGED buf
    <2>1. /\ img.due /\ img.state = "WAIT_BLOCK" /\ ~AddressRefused /\ PageOf(Address) # img.last /\ FlashOK(flash) /\ ImgOK(img)
          /\ buf \in Seq(Tokens) /\ ~img.failed
      BY DEF ErasePage, AtWork, InstallerOK
    <2>2. PICK m \in 0 .. Blocks(v) - 1 : BlocksIn(flash, img, v, m) /\ InBlock(flash, img, v, c, m) /\ Address = Images[v][m + 1]
      BY <2>1, DueBlock
    <2> DEFINE P == PageOf(Address)
    <2>3. Address \in 0 .. NumBlocks - 1 /\ (img.last = NoAddress \/ img.last <= Address) /\ NumBlocks \in Nat
      <3>1. Address \in 0 .. NumBlocks - 1 /\ ~(img.last # NoAddress /\ Address < img.last) /\ NumBlocks \in Nat
        BY <2>1, IoioFileAssumption DEF AddressRefused
      <3>2. img.last \in Int /\ Address \in Int
        BY <2>1, <3>1 DEF ImgOK
      <3>3. QED
        BY <3>1, <3>2
    <2>4. P \in Nat /\ P # NoAddress
      BY <2>3, PagesArePositive DEF NoAddress
    <2>5. /\ flash'.app = [b \in 0 .. NumBlocks - 1 |-> IF PageOf(b) = P THEN Erased ELSE flash.app[b]]
          /\ flash'.fp = flash.fp /\ flash'.tun = flash.tun /\ FlashOK(flash')
      <3> DEFINE f == [b \in 0 .. NumBlocks - 1 |-> IF PageOf(b) = P THEN Erased ELSE flash.app[b]]
      <3>1. DOMAIN flash.app = 0 .. NumBlocks - 1 /\ flash.app \in [0 .. NumBlocks - 1 -> Int]
        BY <2>1 DEF FlashOK
      <3>2. flash' = [flash EXCEPT !.app = f]
        BY <1>2, <3>1 DEF ErasedPage
      <3>3. f \in [0 .. NumBlocks - 1 -> Int]
        <4>1. \A b \in 0 .. NumBlocks - 1 : flash.app[b] \in Int
          BY <3>1
        <4>2. Erased \in Int
          BY DEF Erased
        <4>3. QED
          BY <4>1, <4>2
      <3> HIDE DEF f, P
      <3>4. flash'.app = f /\ flash'.fp = flash.fp /\ flash'.tun = flash.tun /\ FlashOK(flash')
        BY <2>1, <3>2, <3>3 DEF FlashOK
      <3>5. QED
        BY <3>4 DEF f
    <2>6. /\ img'.last = P /\ img'.state = img.state /\ img'.buf = img.buf /\ img'.remaining = img.remaining /\ img'.due = img.due
          /\ ~img'.failed /\ ImgOK(img')
      <3> HIDE DEF P
      <3>1. img' = [img EXCEPT !.last = P]
        BY <1>2 DEF P
      <3>2. P \in Int
        BY <2>4
      <3>3. QED
        BY <2>1, <3>1, <3>2 DEF ImgOK
    <2>7. ASSUME NEW i \in 1 .. m PROVE PageOf(Images[v][i]) < P /\ Images[v][i] \in 0 .. NumBlocks - 1 /\ flash.app[Images[v][i]] = v
      <3>1. Images[v][i] \in 0 .. NumBlocks - 1 /\ PageOf(Images[v][i]) <= img.last /\ flash.app[Images[v][i]] = v
        BY <2>2 DEF BlocksIn
      <3>2. PageOf(Images[v][i]) \in Nat
        BY <2>3, <3>1, PagesArePositive
      <3>3. img.last \in Int
        BY <2>1 DEF ImgOK
      <3>4. img.last # NoAddress
        BY <3>1, <3>2, <3>3 DEF NoAddress
      <3>5. PICK b \in 0 .. NumBlocks - 1 : img.last = PageOf(b)
        BY <2>2, <3>4 DEF BlocksIn
      <3>6. PageOf(b) <= P
        BY <2>3, <3>4, <3>5, PagesInOrder
      <3>7. QED
        BY <2>1, <2>4, <3>1, <3>2, <3>3, <3>5, <3>6
    <2>8. BlocksIn(flash', img', v, m)
      <3> HIDE DEF P
      <3>1. \A i \in 1 .. m : flash'.app[Images[v][i]] = v /\ PageOf(Images[v][i]) <= img'.last
        <4> TAKE i \in 1 .. m
        <4>1. PageOf(Images[v][i]) \in Nat
          BY <2>3, <2>7, PagesArePositive
        <4>2. PageOf(Images[v][i]) # P /\ PageOf(Images[v][i]) <= P
          BY <2>4, <2>7, <4>1
        <4>3. QED
          BY <2>5, <2>6, <2>7, <4>2
      <3>2. \A b \in 0 .. NumBlocks - 1 : PageOf(b) = img'.last => flash'.app[b] \in {Erased, v}
        BY <2>5, <2>6
      <3>3. QED
        BY <2>3, <2>6, <2>7, <3>1, <3>2 DEF BlocksIn, P
    <2>9. InBlock(flash', img', v, c, m)
      BY <2>2, <2>6, <2>8 DEF InBlock
    <2>10. AtWork(flash', img', buf', v, c)
      <3>1. m \in 0 .. Blocks(v)
        BY FileShape
      <3>2. PieceAt(buf', ImageFile(v), c)
        BY <1>2 DEF AtWork
      <3>3. QED
        BY <1>2, <2>1, <2>5, <2>6, <2>9, <3>1, <3>2 DEF AtWork, InstallerOK, Installing
    <2>11. \A b \in 0 .. NumBlocks - 1 : flash'.app[b] \in {flash.app[b], Erased, v}
      BY <2>5
    <2>12. QED
      BY <1>2, <2>5, <2>6, <2>10, <2>11 DEF GoesOn, AtWork
  <1>3. QED
    BY <1>1, <1>2 DEF ErasePage

\* A block is written into a page that has been erased for this image.
LEMMA WriteInstalls ==
    ASSUME NEW v \in Versions, NEW c \in Nat, AtWork(flash, img, buf, v, c), NEW fails, WriteBlock(fails) PROVE GoesOn(v, c)
  <1>1. CASE BlockFailed /\ UNCHANGED flash
    BY <1>1, FailureShape DEF AtWork
  <1>2. CASE flash' = WrittenBlock(flash, Address, img.buf[2].n) /\ img' = NextField /\ UNCHANGED buf
    <2>1. /\ img.due /\ img.state = "WAIT_BLOCK" /\ ~AddressRefused /\ PageOf(Address) = img.last /\ FlashOK(flash) /\ ImgOK(img)
          /\ buf \in Seq(Tokens) /\ ~img.failed
      BY DEF WriteBlock, AtWork, InstallerOK
    <2>2. PICK m \in 0 .. Blocks(v) - 1 :
             BlocksIn(flash, img, v, m) /\ Address = Images[v][m + 1] /\ img.buf[2].n = v /\ c = 3 + 2 * m
      BY <2>1, DueBlock
    <2>3. Address \in 0 .. NumBlocks - 1
      BY <2>1 DEF AddressRefused
    <2>4. flash.app[Address] \in {Erased, v}
      BY <2>1, <2>2, <2>3 DEF BlocksIn
    <2>5. flash' = [flash EXCEPT !.app[Address] = v]
      BY <1>2, <2>2, <2>4 DEF WrittenBlock, Word
    <2>6. v \in Int /\ Blocks(v) \in Nat
      BY FileShape
    <2>7. /\ flash'.app = [flash.app EXCEPT ![Address] = v] /\ flash'.fp = flash.fp /\ flash'.tun = flash.tun /\ FlashOK(flash')
      <3>1. flash' = [flash EXCEPT !.app = [flash.app EXCEPT ![Address] = v]]
        BY <2>5
      <3>2. [flash.app EXCEPT ![Address] = v] \in [0 .. NumBlocks - 1 -> Int]
        BY <2>1, <2>3, <2>6 DEF FlashOK
      <3>3. QED
        BY <2>1, <3>1, <3>2 DEF FlashOK
    <2>8. \A b \in 0 .. NumBlocks - 1 : flash'.app[b] = IF b = Address THEN v ELSE flash.app[b]
      BY <2>1, <2>7 DEF FlashOK
    <2>9. img'.last = img.last /\ ~img'.failed /\ ImgOK(img')
      BY <1>2, <2>1, NextFieldShape
    <2>10. BlocksIn(flash', img', v, m + 1)
      <3>1. ASSUME NEW i \in 1 .. m + 1
            PROVE  Images[v][i] \in 0 .. NumBlocks - 1 /\ flash'.app[Images[v][i]] = v /\ PageOf(Images[v][i]) <= img'.last
        <4>1. CASE i = m + 1
          <5>1. img.last \in Int
            BY <2>1 DEF ImgOK
          <5>2. QED
            BY <2>1, <2>2, <2>3, <2>8, <2>9, <4>1, <5>1
        <4>2. CASE i \in 1 .. m
          BY <2>2, <2>8, <2>9, <4>2 DEF BlocksIn
        <4>3. QED
          BY <2>6, <4>1, <4>2
      <3>2. \A b \in 0 .. NumBlocks - 1 : PageOf(b) = img'.last => flash'.app[b] \in {Erased, v}
        BY <2>2, <2>8, <2>9 DEF BlocksIn
      <3>3. img'.last = NoAddress \/ \E b \in 0 .. NumBlocks - 1 : img'.last = PageOf(b)
        BY <2>2, <2>9 DEF BlocksIn
      <3>4. QED
        BY <3>1, <3>2, <3>3 DEF BlocksIn
    <2>11. Installing(flash', img', v, c)
      <3>1. m + 1 \in 0 .. Blocks(v) /\ 1 + 2 * (m + 1) = c
        BY <2>2, <2>6
      <3>2. Installing(flash', img', v, 1 + 2 * (m + 1))
        BY <1>2, <2>1, <2>10, <3>1, NextBlockInstalls
      <3>3. QED
        BY <3>1, <3>2
    <2>12. AtWork(flash', img', buf', v, c)
      <3>1. PieceAt(buf', ImageFile(v), c)
        BY <1>2 DEF AtWork
      <3>2. QED
        BY <1>2, <2>1, <2>7, <2>9, <2>11, <3>1 DEF AtWork, InstallerOK
    <2>13. \A b \in 0 .. NumBlocks - 1 : flash'.app[b] \in {flash.app[b], Erased, v}
      BY <2>8
    <2>14. QED
      BY <1>2, <2>7, <2>9, <2>12, <2>13 DEF GoesOn, AtWork
  <1>3. QED
    BY <1>1, <1>2 DEF WriteBlock

\* IOIOFileHandleBuffer, one step.
LEMMA BufferInstalls ==
    ASSUME NEW v \in Versions, NEW c \in Nat, AtWork(flash, img, buf, v, c), NEW fails, HandleBuffer(fails) PROVE GoesOn(v, c)
  <1>1. CASE BlockRefused
    BY <1>1, FailureShape DEF BlockRefused, AtWork
  <1>2. QED
    BY <1>1, CopyInstalls, HeaderInstalls, EraseInstalls, WriteInstalls DEF HandleBuffer

\* IOIOFileDone after all units of the image: every block is in the Flash.
LEMMA DoneIsWhole ==
    ASSUME NEW v \in Versions, Installing(flash, img, v, Len(ImageFile(v))), IOIOFileDone PROVE Whole(flash, v)
  <1>1. PICK m \in 0 .. Blocks(v) : InBlock(flash, img, v, Len(ImageFile(v)), m)
    BY DEF Installing, InHeader, IOIOFileDone
  <1>2. Len(ImageFile(v)) = 1 + 2 * Blocks(v) /\ Blocks(v) \in Nat /\ Images[v] \in Seq(Nat)
    BY FileShape
  <1>3. Len(img.buf) = 0 /\ BlocksIn(flash, img, v, m)
    <2>1. Len(ImageFile(v)) = 1 + 2 * m + Len(img.buf) /\ img.remaining = 2 - Len(img.buf) /\ img.remaining = 2
      BY <1>1 DEF InBlock, IOIOFileDone
    <2>2. Len(img.buf) \in Int
      BY <1>2, <2>1
    <2>3. QED
      BY <1>1, <2>1, <2>2 DEF InBlock
  <1>4. m = Blocks(v)
    BY <1>1, <1>2, <1>3 DEF InBlock
  <1>5. DOMAIN Images[v] = 1 .. m
    BY <1>2, <1>4 DEF Blocks
  <1>6. QED
    BY <1>3, <1>5 DEF Whole, BlocksIn

-----------------------------------------------------------------------------
(* The board and the PC.                                                   *)

FpErased == \A i \in 1 .. FpWords : flash.fp[i] = Erased
Quiet == HandleBufferDone /\ ~img.failed

DmOK ==
  /\ dm = [at |-> dm.at, rx |-> dm.rx, remaining |-> dm.remaining, msg |-> dm.msg, cmd |-> dm.cmd, k |-> dm.k, tun |-> dm.tun, sum |-> dm.sum]
  /\ dm.remaining \in Nat /\ dm.msg \in Seq(Tokens) /\ dm.k \in Nat /\ dm.tun \in Int
DudeOK == dude = [at |-> dude.at, v |-> dude.v, sum |-> dude.sum] /\ dude.v \in Versions
PcTypeOK == InstallerOK(flash, img, buf) /\ DmOK /\ DudeOK /\ rxd \in Seq(Tokens) /\ wire \in Seq(Tokens)

\* Outside the boot protocol nothing is under way.
Offline ==
  /\ dm.cmd = "none" /\ dm.k = 0 /\ rxd = <<>> /\ wire = <<>> /\ ioTx = <<>> /\ Quiet
  /\ dude.at = "off" \/ (dm.at = "wait" /\ dude.at = "connecting")

\* The board receives a message.
Types == {"HARD_RESET", "CHECK_INTERFACE", "READ_FINGERPRINT", "WRITE_FINGERPRINT", "WRITE_IMAGE"}
Size(t) == 1 + incoming_arg_size[t]
Waiting ==
  /\ Quiet /\ dm.cmd = "none" /\ dm.k = 0
  /\ \/ dm.rx = "WAIT_TYPE" /\ dm.msg = <<>> /\ dm.remaining = 1
     \/ /\ dm.rx = "WAIT_ARGS" /\ dm.msg # <<>> /\ dm.msg[1].t \in Types
        /\ dm.remaining >= 1 /\ dm.remaining = Size(dm.msg[1].t) - Len(dm.msg)

\* The board carries out a command.
Commanded ==
  /\ Quiet /\ dm.cmd \in Types /\ dm.rx = "WAIT_TYPE" /\ dm.remaining = 1
  /\ Len(dm.msg) = Size(dm.cmd) /\ dm.msg[1].t = dm.cmd
  /\ dm.k # 0 => \/ dm.cmd = "WRITE_IMAGE" /\ dm.k <= 2 /\ FpErased
                 \/ dm.cmd = "WRITE_FINGERPRINT" /\ dm.k <= FpWords + 1

\* What the PC sends.
CheckOrder == <<Tok("CHECK_INTERFACE", 0), Tok("arg", 0)>>
ReadOrder == <<Tok("READ_FINGERPRINT", 0)>>
ImageOrder(v) == <<Tok("WRITE_IMAGE", 0), Tok("size", Len(ImageFile(v)))>> \o ImageFile(v)
PrintOrder(v) == <<Tok("WRITE_FINGERPRINT", 0)>> \o [i \in 1 .. FpWords |-> Tok("word", v)]
ResetOrder == <<Tok("HARD_RESET", 0), Tok("arg", 0)>>

\* What the board has still to carry out of it: e, of which a PC that has gone may have said only the beginning.
Todo == rxd \o wire
Unread == dm.msg \o Todo
Reads(e) == PieceAt(Unread, e, 0) /\ (dude.at # "off" => Len(Unread) = Len(e))

\* Where the PC is when e is what the board has still to carry out.
PcAt(at, tx) == dude.at = "off" \/ (dude.at = at /\ ioTx = tx)
Stage(e) ==
  \/ e = <<>> /\ PcAt("connecting", <<Tok("ESTABLISH", 0)>>)
  \/ e = CheckOrder /\ PcAt("write", <<>>)
  \/ e = CheckOrder \o ReadOrder /\ PcAt("compare", <<>>)
  \/ e = ReadOrder /\ PcAt("compare", <<Tok("INTERFACE", 1)>>)
  \/ e = <<>> /\ \E s \in Seq(Tokens) : PcAt("compare", <<Tok("INTERFACE", 1)>> \o s)
  \/ e = <<>> /\ PcAt("write", <<Tok("INTERFACE", 1)>>)
  \/ \E v \in Versions : e = ImageOrder(v) /\ PcAt("checksum", <<>>) /\ (dude.at = "off" \/ dude.v = v)
  \/ e = <<>> /\ dude.at = "checksum" /\ Whole(flash, dude.v) /\ \E x : ioTx = <<x>>
  \/ \E v \in Versions : Whole(flash, v) /\ e = PrintOrder(v) /\ dude.at \in {"off", "reset"}
  \/ \E v \in Versions : Whole(flash, v) /\ e = PrintOrder(v) \o ResetOrder /\ dude.at \in {"off", "done"}
  \/ e = <<>> /\ dude.at \in {"off", "reset"}
  \/ e = ResetOrder /\ dude.at \in {"off", "done"}
Talk == \E e \in Seq(Tokens) : Reads(e) /\ Stage(e)

\* The board receives an image.
LoadingOf(v, c) ==
  /\ Installing(flash, img, v, c) /\ PieceAt(buf, ImageFile(v), c)
  /\ c + Len(buf) + dm.remaining = Len(ImageFile(v)) /\ (dm.cmd = "FILE_END" <=> dm.remaining = 0)
  /\ PieceAt(Todo, ImageFile(v), c + Len(buf))
  /\ dude.at # "off" => dude.v = v /\ Len(Todo) = dm.remaining
Loading ==
  /\ dm.rx = "WAIT_FILE" /\ dm.cmd \in {"none", "FILE_END"} /\ dm.k = 0 /\ dm.msg = <<>> /\ FpErased /\ PcAt("checksum", <<>>)
  /\ img.failed => HandleBufferDone
  /\ ~img.failed => \E v \in Versions : \E c \in Nat : LoadingOf(v, c)

Served == ((Waiting \/ Commanded) /\ Talk) \/ Loading

PcInv == PcTypeOK /\ (dm.at # "serve" => Offline) /\ (dm.at = "serve" => Served) /\ FingerprintMeansImage

-----------------------------------------------------------------------------
(* Lemmas on sequences of tokens.                                          *)

LEMMA SameSeq ==
    ASSUME NEW S, NEW a \in Seq(S), NEW b \in Seq(S), Len(a) = Len(b), \A i \in 1 .. Len(a) : a[i] = b[i] PROVE a = b
  OBVIOUS

LEMMA ConcatNothing == ASSUME NEW S, NEW a \in Seq(S) PROVE <<>> \o a = a /\ a \o <<>> = a /\ <<>> \in Seq(S)
  <1>1. <<>> \in Seq(S) /\ Len(<<>>) = 0
    OBVIOUS
  <1>2. <<>> \o a \in Seq(S) /\ Len(<<>> \o a) = Len(a) /\ \A i \in 1 .. Len(a) : (<<>> \o a)[i] = a[i]
    OBVIOUS
  <1>3. a \o <<>> \in Seq(S) /\ Len(a \o <<>>) = Len(a) /\ \A i \in 1 .. Len(a) : (a \o <<>>)[i] = a[i]
    OBVIOUS
  <1>4. QED
    BY <1>1, <1>2, <1>3, SameSeq

LEMMA ConcatGroups ==
    ASSUME NEW S, NEW a \in Seq(S), NEW b \in Seq(S), NEW c \in Seq(S) PROVE (a \o b) \o c = a \o (b \o c)
  <1> DEFINE ab == a \o b  bc == b \o c  l == ab \o c  r == a \o bc
  <1>1. ab \in Seq(S) /\ Len(ab) = Len(a) + Len(b) /\ (\A i \in 1 .. Len(a) : ab[i] = a[i]) /\ \A i \in 1 .. Len(b) : ab[Len(a) + i] = b[i]
    BY ConcatShape
  <1>2. bc \in Seq(S) /\ Len(bc) = Len(b) + Len(c) /\ (\A i \in 1 .. Len(b) : bc[i] = b[i]) /\ \A i \in 1 .. Len(c) : bc[Len(b) + i] = c[i]
    BY ConcatShape
  <1> HIDE DEF ab, bc
  <1>3. l \in Seq(S) /\ Len(l) = Len(ab) + Len(c) /\ (\A i \in 1 .. Len(ab) : l[i] = ab[i]) /\ \A i \in 1 .. Len(c) : l[Len(ab) + i] = c[i]
    <2>1. ab \in Seq(S)
      BY <1>1
    <2>2. QED
      BY <2>1, ConcatShape
  <1>4. r \in Seq(S) /\ Len(r) = Len(a) + Len(bc) /\ (\A i \in 1 .. Len(a) : r[i] = a[i]) /\ \A i \in 1 .. Len(bc) : r[Len(a) + i] = bc[i]
    <2>1. bc \in Seq(S)
      BY <1>2
    <2>2. QED
      BY <2>1, ConcatShape
  <1> HIDE DEF l, r
  <1>5. Len(a) \in Nat /\ Len(b) \in Nat /\ Len(c) \in Nat
    OBVIOUS
  <1>6. ASSUME NEW i \in 1 .. Len(l) PROVE l[i] = r[i]
    <2>1. CASE i <= Len(a)
      BY <1>1, <1>3, <1>4, <1>5, <2>1
    <2>2. CASE Len(a) < i /\ i <= Len(a) + Len(b)
      <3>1. i - Len(a) \in 1 .. Len(b) /\ Len(a) + (i - Len(a)) = i /\ i \in 1 .. Len(ab) /\ i - Len(a) \in 1 .. Len(bc)
        BY <1>1, <1>2, <1>5, <2>2
      <3>2. l[i] = b[i - Len(a)]
        BY <1>1, <1>3, <3>1
      <3>3. r[i] = b[i - Len(a)]
        BY <1>2, <1>4, <3>1
      <3>4. QED
        BY <3>2, <3>3
    <2>3. CASE Len(a) + Len(b) < i
      <3> DEFINE j == i - (Len(a) + Len(b))
      <3>1. j \in 1 .. Len(c) /\ Len(ab) + j = i /\ Len(b) + j \in 1 .. Len(bc) /\ Len(a) + (Len(b) + j) = i
        BY <1>1, <1>2, <1>3, <1>5, <2>3
      <3> HIDE DEF j
      <3>2. l[i] = c[j]
        BY <1>3, <3>1
      <3>3. r[i] = c[j]
        BY <1>2, <1>4, <3>1
      <3>4. QED
        BY <3>2, <3>3
    <2>4. QED
      BY <1>1, <1>3, <1>5, <2>1, <2>2, <2>3
  <1>7. Len(l) = Len(r)
    BY <1>1, <1>2, <1>3, <1>4, <1>5
  <1>8. l = r
    BY <1>3, <1>4, <1>6, <1>7, SameSeq
  <1>9. QED
    BY <1>8 DEF l, r, ab, bc

LEMMA CutAndJoin ==
    ASSUME NEW S, NEW s \in Seq(S), NEW n \in 0 .. Len(s)
    PROVE  /\ SubSeq(s, 1, n) \in Seq(S) /\ SubSeq(s, n + 1, Len(s)) \in Seq(S)
           /\ Len(SubSeq(s, 1, n)) = n /\ Len(SubSeq(s, n + 1, Len(s))) = Len(s) - n
           /\ SubSeq(s, 1, n) \o SubSeq(s, n + 1, Len(s)) = s
  <1> DEFINE a == SubSeq(s, 1, n)  b == SubSeq(s, n + 1, Len(s))
  <1>1. PieceAt(s, s, 0)
    BY DEF PieceAt
  <1>2. a \in Seq(S) /\ Len(a) = n /\ PieceAt(a, s, 0) /\ b \in Seq(S) /\ Len(b) = Len(s) - n /\ PieceAt(b, s, 0 + n)
    BY <1>1, PieceCut
  <1> HIDE DEF a, b
  <1>3. PieceAt(a \o b, s, 0) /\ a \o b \in Seq(S) /\ Len(a \o b) = Len(s)
    <2>1. PieceAt(a \o b, s, 0)
      BY <1>2, PieceConcat
    <2>2. a \o b \in Seq(S) /\ Len(a \o b) = n + (Len(s) - n)
      BY <1>2, ConcatShape
    <2>3. QED
      BY <2>1, <2>2
  <1>4. a \o b = s
    <2>1. \A i \in 1 .. Len(a \o b) : (a \o b)[i] = s[i]
      BY <1>3 DEF PieceAt
    <2>2. QED
      BY <1>3, <2>1, SameSeq
  <1>5. QED
    BY <1>2, <1>4 DEF a, b

-----------------------------------------------------------------------------
(* What the PC sends, and what the board reads of it.                      *)

LEMMA PlainOrders ==
  /\ CheckOrder \in Seq(Tokens) /\ Len(CheckOrder) = 2 /\ CheckOrder[1].t = "CHECK_INTERFACE"
  /\ ReadOrder \in Seq(Tokens) /\ Len(ReadOrder) = 1 /\ ReadOrder[1].t = "READ_FINGERPRINT"
  /\ ResetOrder \in Seq(Tokens) /\ Len(ResetOrder) = 2 /\ ResetOrder[1].t = "HARD_RESET"
  <1>1. /\ Tok("CHECK_INTERFACE", 0) \in Tokens /\ Tok("CHECK_INTERFACE", 0).t = "CHECK_INTERFACE"
        /\ Tok("READ_FINGERPRINT", 0) \in Tokens /\ Tok("READ_FINGERPRINT", 0).t = "READ_FINGERPRINT"
        /\ Tok("HARD_RESET", 0) \in Tokens /\ Tok("HARD_RESET", 0).t = "HARD_RESET" /\ Tok("arg", 0) \in Tokens
    BY TokShape DEF TokTypes
  <1>2. QED
    BY <1>1 DEF CheckOrder, ReadOrder, ResetOrder

\* What writeImage sends.
LEMMA ImageOrderShape ==
    ASSUME NEW v \in Versions
    PROVE  /\ ImageOrder(v) \in Seq(Tokens) /\ Len(ImageOrder(v)) = 2 + Len(ImageFile(v)) /\ Len(ImageFile(v)) \in Nat
           /\ ImageOrder(v)[1].t = "WRITE_IMAGE" /\ ImageOrder(v)[2].n = Len(ImageFile(v))
           /\ \A i \in 1 .. Len(ImageFile(v)) : ImageOrder(v)[2 + i] = ImageFile(v)[i]
  <1> DEFINE e == ImageFile(v)  h == <<Tok("WRITE_IMAGE", 0), Tok("size", Len(e))>>
  <1>1. e \in Seq(Tokens) /\ Len(e) \in Nat
    BY FileShape
  <1> HIDE DEF e
  <1>2. Tok("WRITE_IMAGE", 0) \in Tokens /\ Tok("size", Len(e)) \in Tokens /\ Tok("WRITE_IMAGE", 0).t = "WRITE_IMAGE" /\ Tok("size", Len(e)).n = Len(e)
    BY <1>1, TokShape DEF TokTypes
  <1>3. h \in Seq(Tokens) /\ Len(h) = 2 /\ h[1].t = "WRITE_IMAGE" /\ h[2].n = Len(e)
    BY <1>2
  <1> HIDE DEF h
  <1>4. h \o e \in Seq(Tokens) /\ Len(h \o e) = Len(h) + Len(e) /\ (\A i \in 1 .. Len(h) : (h \o e)[i] = h[i]) /\ \A i \in 1 .. Len(e) : (h \o e)[Len(h) + i] = e[i]
    <2>1. h \in Seq(Tokens)
      BY <1>3
    <2>2. QED
      BY <1>1, <2>1, ConcatShape
  <1>5. ImageOrder(v) = h \o e
    BY DEF ImageOrder, h, e
  <1>6. QED
    BY <1>1, <1>3, <1>4, <1>5 DEF e

\* What writeFingerprint sends.
LEMMA PrintOrderShape ==
    ASSUME NEW v \in Versions
    PROVE  /\ PrintOrder(v) \in Seq(Tokens) /\ Len(PrintOrder(v)) = 1 + FpWords /\ PrintOrder(v)[1].t = "WRITE_FINGERPRINT"
           /\ \A i \in 1 .. FpWords : PrintOrder(v)[i + 1].n = v
  <1> DEFINE h == <<Tok("WRITE_FINGERPRINT", 0)>>  w == [i \in 1 .. FpWords |-> Tok("word", v)]
  <1>1. v \in Int /\ FpWords \in Nat
    BY FileShape, IoioFileAssumption
  <1>2. Tok("WRITE_FINGERPRINT", 0) \in Tokens /\ Tok("WRITE_FINGERPRINT", 0).t = "WRITE_FINGERPRINT" /\ Tok("word", v) \in Tokens /\ Tok("word", v).n = v
    BY <1>1, TokShape DEF TokTypes
  <1>3. h \in Seq(Tokens) /\ Len(h) = 1 /\ h[1].t = "WRITE_FINGERPRINT"
    BY <1>2
  <1>4. w \in Seq(Tokens) /\ Len(w) = FpWords /\ \A i \in 1 .. FpWords : w[i].n = v
    BY <1>1, <1>2
  <1> HIDE DEF h, w
  <1>5. h \o w \in Seq(Tokens) /\ Len(h \o w) = Len(h) + Len(w) /\ (\A i \in 1 .. Len(h) : (h \o w)[i] = h[i]) /\ \A i \in 1 .. Len(w) : (h \o w)[Len(h) + i] = w[i]
    <2>1. h \in Seq(Tokens) /\ w \in Seq(Tokens)
      BY <1>3, <1>4
    <2>2. QED
      BY <2>1, ConcatShape
  <1>6. PrintOrder(v) = h \o w
    BY DEF PrintOrder, h, w
  <1>7. \A i \in 1 .. FpWords : (h \o w)[i + 1].n = v
    <2> TAKE i \in 1 .. FpWords
    <2>1. 1 + i = i + 1
      BY <1>1
    <2>2. QED
      BY <1>3, <1>4, <1>5, <2>1
  <1>8. QED
    BY <1>1, <1>3, <1>4, <1>5, <1>6, <1>7

LEMMA Sizes ==
  /\ Size("HARD_RESET") = 2 /\ Size("CHECK_INTERFACE") = 2 /\ Size("READ_FINGERPRINT") = 1
  /\ Size("WRITE_FINGERPRINT") = 1 + FpWords /\ Size("WRITE_IMAGE") = 2
  /\ \A t \in Types : incoming_arg_size[t] \in Nat
  BY IoioFileAssumption DEF Size, incoming_arg_size, Types

\* b is what follows the first n elements of e.
RestOf(b, e, n) == Len(e) = n + Len(b) /\ PieceAt(b, e, n)

LEMMA RestOfConcat == ASSUME NEW a \in Seq(Tokens), NEW b \in Seq(Tokens) PROVE RestOf(b, a \o b, Len(a))
  <1>1. a \o b \in Seq(Tokens) /\ Len(a \o b) = Len(a) + Len(b) /\ \A i \in 1 .. Len(b) : (a \o b)[Len(a) + i] = b[i]
    BY ConcatShape
  <1>2. Len(a) \in Nat /\ Len(b) \in Nat
    OBVIOUS
  <1>3. QED
    BY <1>1, <1>2 DEF RestOf, PieceAt

LEMMA RestIsNothing == ASSUME NEW e \in Seq(Tokens) PROVE RestOf(<<>>, e, Len(e))
  BY DEF RestOf, PieceAt

LEMMA UnreadShape ==
    ASSUME PcTypeOK
    PROVE  /\ Todo \in Seq(Tokens) /\ Unread \in Seq(Tokens) /\ Len(Todo) = Len(rxd) + Len(wire) /\ Len(Unread) = Len(dm.msg) + Len(Todo)
           /\ dm.msg \in Seq(Tokens) /\ Len(dm.msg) \in Nat /\ Len(Todo) \in Nat
           /\ (\A i \in 1 .. Len(dm.msg) : Unread[i] = dm.msg[i])
           /\ \A i \in 1 .. Len(Todo) : Unread[Len(dm.msg) + i] = Todo[i]
  <1>1. rxd \in Seq(Tokens) /\ wire \in Seq(Tokens) /\ dm.msg \in Seq(Tokens)
    BY DEF PcTypeOK, DmOK
  <1>2. Todo \in Seq(Tokens) /\ Len(Todo) = Len(rxd) + Len(wire)
    BY <1>1, ConcatShape DEF Todo
  <1>3. /\ dm.msg \o Todo \in Seq(Tokens) /\ Len(dm.msg \o Todo) = Len(dm.msg) + Len(Todo)
        /\ (\A i \in 1 .. Len(dm.msg) : (dm.msg \o Todo)[i] = dm.msg[i])
        /\ \A i \in 1 .. Len(Todo) : (dm.msg \o Todo)[Len(dm.msg) + i] = Todo[i]
    <2> DEFINE a == dm.msg  b == Todo
    <2>1. a \in Seq(Tokens) /\ b \in Seq(Tokens)
      BY <1>1, <1>2
    <2> HIDE DEF a, b
    <2>2. /\ a \o b \in Seq(Tokens) /\ Len(a \o b) = Len(a) + Len(b) /\ (\A i \in 1 .. Len(a) : (a \o b)[i] = a[i])
          /\ \A i \in 1 .. Len(b) : (a \o b)[Len(a) + i] = b[i]
      BY <2>1, ConcatShape
    <2>3. QED
      BY <2>2 DEF a, b
  <1>4. Unread = dm.msg \o Todo
    BY DEF Unread
  <1>5. Len(dm.msg) \in Nat /\ Len(Todo) \in Nat
    BY <1>1, <1>2
  <1>6. QED
    BY <1>1, <1>2, <1>3, <1>4, <1>5

\* A message that has been read is the beginning of what there is to read.
LEMMA MessageIsHead ==
    ASSUME PcTypeOK, NEW e \in Seq(Tokens), Reads(e)
    PROVE  Len(dm.msg) <= Len(e) /\ \A i \in 1 .. Len(dm.msg) : dm.msg[i] = e[i]
  <1>1. Len(Unread) <= Len(e) /\ \A i \in 1 .. Len(Unread) : Unread[i] = e[0 + i]
    BY UnreadShape DEF Reads, PieceAt
  <1>2. \A i \in 1 .. Len(Unread) : Unread[i] = e[i]
    BY <1>1, UnreadShape
  <1>3. Len(dm.msg) \in Nat /\ Len(Unread) = Len(dm.msg) + Len(Todo) /\ Len(Todo) \in Nat /\ (\A i \in 1 .. Len(dm.msg) : Unread[i] = dm.msg[i])
    BY UnreadShape
  <1>4. QED
    BY <1>1, <1>2, <1>3

\* When a message has been carried out, the rest is left to read.
LEMMA MessageIsRead ==
    ASSUME PcTypeOK, NEW e \in Seq(Tokens), NEW b \in Seq(Tokens), Reads(e), RestOf(b, e, Len(dm.msg)),
           dm'.msg = <<>>, UNCHANGED <<rxd, wire>>, dude' = dude
    PROVE  Reads(b)'
  <1>1. Todo' = Todo /\ Unread' = Todo
    <2>1. Todo \in Seq(Tokens)
      BY UnreadShape
    <2>2. QED
      BY <2>1, ConcatNothing DEF Todo, Unread
  <1> DEFINE l == Len(dm.msg)
  <1>2. l \in Nat /\ Len(Todo) \in Nat /\ Len(Unread) = l + Len(Todo) /\ \A i \in 1 .. Len(Todo) : Unread[l + i] = Todo[i]
    BY UnreadShape
  <1>3. Len(e) = l + Len(b) /\ (\A i \in 1 .. Len(b) : b[i] = e[l + i]) /\ Len(b) \in Nat
    BY DEF RestOf, PieceAt
  <1>4. Len(Unread) + 0 <= Len(e) /\ (\A i \in 1 .. Len(Unread) : Unread[i] = e[0 + i]) /\ (dude.at # "off" => Len(Unread) = Len(e))
    BY DEF Reads, PieceAt
  <1> HIDE DEF l
  <1>5. Len(Todo) <= Len(b) /\ (dude.at # "off" => Len(Todo) = Len(b))
    BY <1>2, <1>3, <1>4
  <1>6. ASSUME NEW i \in 1 .. Len(Todo) PROVE Todo[i] = b[0 + i]
    <2>1. i \in 1 .. Len(b) /\ l + i \in 1 .. Len(Unread) /\ 0 + (l + i) = l + i /\ 0 + i = i
      BY <1>2, <1>3, <1>5
    <2>2. Todo[i] = e[l + i]
      BY <1>2, <1>4, <2>1
    <2>3. QED
      BY <1>3, <2>1, <2>2
  <1>7. PieceAt(Todo, b, 0)
    BY <1>2, <1>5, <1>6 DEF PieceAt
  <1>8. QED
    BY <1>1, <1>5, <1>7 DEF Reads

\* While the PC is there the board reads all of what it sent.
LEMMA AllIsUnread == ASSUME PcTypeOK, NEW e \in Seq(Tokens), Reads(e), dude.at # "off" PROVE Unread = e
  <1>1. Unread \in Seq(Tokens) /\ Len(Unread) = Len(e) /\ \A i \in 1 .. Len(Unread) : Unread[i] = e[0 + i]
    BY UnreadShape DEF Reads, PieceAt
  <1>2. \A i \in 1 .. Len(Unread) : Unread[i] = e[i]
    BY <1>1
  <1>3. QED
    BY <1>1, <1>2, SameSeq

\* The PC sends x.
LEMMA MoreIsSent ==
    ASSUME PcTypeOK, NEW e \in Seq(Tokens), NEW x \in Seq(Tokens), Reads(e), dude.at # "off", wire' = wire \o x, UNCHANGED <<dm, rxd>>
    PROVE  Reads(e \o x)' /\ wire' \in Seq(Tokens) /\ e \o x \in Seq(Tokens)
  <1>1. rxd \in Seq(Tokens) /\ wire \in Seq(Tokens) /\ dm.msg \in Seq(Tokens) /\ Todo \in Seq(Tokens)
    BY UnreadShape DEF PcTypeOK
  <1>2. Todo' = Todo \o x
    <2> DEFINE m == rxd  t == wire
    <2>1. Todo' = m \o (t \o x) /\ m \in Seq(Tokens) /\ t \in Seq(Tokens)
      BY <1>1 DEF Todo
    <2> HIDE DEF m, t
    <2>2. (m \o t) \o x = m \o (t \o x)
      BY SMTT(30), <2>1, ConcatGroups
    <2>3. QED
      BY <2>1, <2>2 DEF Todo, m, t
  <1>3. Unread' = Unread \o x
    <2> DEFINE m == dm.msg  t == Todo
    <2>1. Unread' = m \o (t \o x) /\ m \in Seq(Tokens) /\ t \in Seq(Tokens)
      BY <1>1, <1>2 DEF Unread
    <2> HIDE DEF m, t
    <2>2. (m \o t) \o x = m \o (t \o x)
      BY SMTT(30), <2>1, ConcatGroups
    <2>3. QED
      BY <2>1, <2>2 DEF Unread, m, t
  <1>4. Unread' = e \o x
    BY <1>3, AllIsUnread
  <1>5. e \o x \in Seq(Tokens) /\ wire' \in Seq(Tokens)
    BY <1>1, ConcatShape
  <1>6. PieceAt(Unread', e \o x, 0)
    BY <1>4, <1>5 DEF PieceAt
  <1>7. QED
    BY <1>4, <1>5, <1>6 DEF Reads

LEMMA SameIsRead == ASSUME NEW e, Reads(e), Unread' = Unread, UNCHANGED dude PROVE Reads(e)'
  BY DEF Reads

-----------------------------------------------------------------------------
(* The fingerprint.                                                        *)

FpIs(f, v) == \A i \in 1 .. FpWords : f.fp[i] = v
Means(f) == \A v \in Versions : FpIs(f, v) => Whole(f, v)

LEMMA MeansIsMeans == FingerprintMeansImage <=> Means(flash)
  BY DEF FingerprintMeansImage, Means, FpIs, Whole

LEMMA NoVersion == Erased \notin Versions /\ Garbage \notin Versions /\ 1 \in 1 .. FpWords
  BY IoioFileAssumption DEF Versions, Erased, Garbage

\* A word that is no version leaves no fingerprint.
LEMMA NoPrint == ASSUME NEW f, NEW i \in 1 .. FpWords, f.fp[i] \notin Versions PROVE Means(f)
  BY DEF Means, FpIs

LEMMA ErasedPrint == ASSUME NEW f, FpIs(f, Erased) PROVE Means(f)
  BY NoVersion, NoPrint DEF FpIs

LEMMA SamePrint == ASSUME NEW f, NEW g, Means(f), g.fp = f.fp, g.app = f.app PROVE Means(g)
  BY DEF Means, FpIs, Whole

-----------------------------------------------------------------------------
(* Shapes of records.                                                      *)

LEMMA Beginnings ==
  /\ ImgOK(Idle) /\ ~Idle.due /\ ~Idle.failed
  /\ DeviceBoot.at = "start" /\ DeviceBoot.cmd = "none" /\ DeviceBoot.k = 0
  /\ NoDude.at = "off" /\ NoDude.v = 1 /\ 1 \in Versions
  <1>1. <<>> \in Seq(Tokens) /\ 1 \in 0 .. 2 /\ NoAddress \in Int
    BY DEF NoAddress
  <1>2. ImgOK(Idle) /\ ~Idle.due /\ ~Idle.failed
    BY <1>1 DEF Idle, ImgOK
  <1>3. QED
    BY <1>2, IoioFileAssumption DEF DeviceBoot, NoDude, Versions

\* The board starts.
LEMMA StartIsOffline ==
    ASSUME dm' = DeviceBoot, rxd' = <<>>, wire' = <<>>, ioTx' = <<>>, dude' = NoDude, img' = Idle, buf' = <<>>,
           FlashOK(flash'), Means(flash')
    PROVE  PcInv'
  <1>1. DmOK' /\ dm'.at = "start" /\ dm'.cmd = "none" /\ dm'.k = 0
    <2>1. <<>> \in Seq(Tokens)
      OBVIOUS
    <2>2. QED
      BY <2>1 DEF DmOK, DeviceBoot, Erased
  <1>2. DudeOK' /\ dude'.at = "off"
    BY Beginnings DEF DudeOK, NoDude
  <1>3. PcTypeOK'
    <2>1. <<>> \in Seq(Tokens)
      OBVIOUS
    <2>2. QED
      BY <1>1, <1>2, <2>1, Beginnings DEF PcTypeOK, InstallerOK
  <1>4. Offline'
    BY <1>1, <1>2, Beginnings DEF Offline, Quiet, HandleBufferDone
  <1>5. FingerprintMeansImage'
    BY DEF FingerprintMeansImage, Means, FpIs, Whole
  <1>6. QED
    BY <1>1, <1>3, <1>4, <1>5 DEF PcInv

\* The board gives up.
LEMMA ErrorIsOffline ==
    ASSUME PcTypeOK, FingerprintMeansImage, ProtocolError, UNCHANGED <<flash, buf>>, HandleBufferDone,
           (img' = img /\ ~img.failed) \/ img' = [img EXCEPT !.failed = FALSE]
    PROVE  PcInv'
  <1>1. dm' = [dm EXCEPT !.at = "wait", !.cmd = "none", !.k = 0] /\ rxd' = <<>> /\ wire' = <<>> /\ ioTx' = <<>> /\ dude' = NoDude
    BY DEF ProtocolError, Disconnected
  <1>2. DmOK' /\ dm'.at = "wait" /\ dm'.cmd = "none" /\ dm'.k = 0
    BY <1>1 DEF PcTypeOK, DmOK
  <1>3. DudeOK' /\ dude'.at = "off"
    BY <1>1, Beginnings DEF DudeOK, NoDude
  <1>4. ImgOK(img') /\ ~img'.failed /\ img'.due = img.due
    BY DEF PcTypeOK, InstallerOK, ImgOK
  <1>5. PcTypeOK'
    <2>1. <<>> \in Seq(Tokens)
      OBVIOUS
    <2>2. QED
      BY <1>1, <1>2, <1>3, <1>4, <2>1 DEF PcTypeOK, InstallerOK
  <1>6. Offline'
    BY <1>1, <1>2, <1>3, <1>4 DEF Offline, Quiet, HandleBufferDone
  <1>7. FingerprintMeansImage'
    BY DEF FingerprintMeansImage
  <1>8. QED
    BY <1>2, <1>5, <1>6, <1>7 DEF PcInv

\* What erasing the configuration leaves.
LEMMA ConfigErased ==
    ASSUME FlashOK(flash), flash' = EraseConfig(flash)
    PROVE  FlashOK(flash') /\ FpIs(flash', Erased) /\ flash'.app = flash.app /\ flash'.tun = Erased /\ Means(flash')
  <1> DEFINE w == [i \in 1 .. FpWords |-> Erased]
  <1>1. w \in [1 .. FpWords -> Int] /\ (\A i \in 1 .. FpWords : w[i] = Erased) /\ Erased \in Int
    BY DEF Erased
  <1>2. flash' = [flash EXCEPT !.fp = w, !.tun = Erased]
    BY DEF EraseConfig
  <1> HIDE DEF w
  <1>3. FlashOK(flash') /\ flash'.fp = w /\ flash'.app = flash.app /\ flash'.tun = Erased
    BY <1>1, <1>2 DEF FlashOK
  <1>4. FpIs(flash', Erased)
    BY <1>1, <1>3 DEF FpIs
  <1>5. QED
    BY <1>3, <1>4, ErasedPrint

LEMMA TuningKeeps ==
    ASSUME FlashOK(flash), NEW t \in Int, flash' = [flash EXCEPT !.tun = t]
    PROVE  FlashOK(flash') /\ flash'.fp = flash.fp /\ flash'.app = flash.app /\ flash'.tun = t
  BY DEF FlashOK

-----------------------------------------------------------------------------
(* PcInv is kept: steps that begin or end outside the boot protocol.       *)

LEMMA MainStartKeeps == ASSUME PcInv, NEW b \in BOOLEAN, NEW p \in BOOLEAN, MainStart(b, p) PROVE PcInv'
  <1>1. PcTypeOK /\ dm.at = "start" /\ Offline /\ Means(flash) /\ FlashOK(flash)
    BY MeansIsMeans DEF PcInv, MainStart, PcTypeOK, InstallerOK
  <1>2. dm' = [dm EXCEPT !.at = IF b THEN "tune_boot" ELSE "tune_app"] /\ UNCHANGED <<img, buf, rxd, ioTx, wire, dude>>
    BY DEF MainStart
  <1>3. DmOK' /\ dm'.at \in {"tune_boot", "tune_app"} /\ dm'.cmd = dm.cmd /\ dm'.k = dm.k
    <2>1. DmOK
      BY <1>1 DEF PcTypeOK
    <2>2. QED
      BY <1>2, <2>1 DEF DmOK
  <1>4. FlashOK(flash') /\ Means(flash')
    BY <1>1, ConfigErased DEF MainStart
  <1>5. PcTypeOK' /\ Offline'
    BY <1>1, <1>2, <1>3, <1>4 DEF PcTypeOK, InstallerOK, DudeOK, Offline, Quiet, HandleBufferDone
  <1>6. FingerprintMeansImage'
    BY <1>4 DEF FingerprintMeansImage, Means, FpIs, Whole
  <1>7. QED
    BY <1>3, <1>5, <1>6 DEF PcInv

LEMMA OscCalibrateKeeps == ASSUME PcInv, OscCalibrateCached PROVE PcInv'
  <1>1. PcTypeOK /\ dm.at \in {"tune_boot", "tune_app"} /\ Offline /\ Means(flash) /\ FlashOK(flash)
    BY MeansIsMeans DEF PcInv, OscCalibrateCached, PcTypeOK, InstallerOK
  <1>2. dm' = [dm EXCEPT !.at = IF dm.at = "tune_app" THEN "app" ELSE "wait"] /\ UNCHANGED <<img, buf, rxd, ioTx, wire, dude>>
    BY DEF OscCalibrateCached
  <1>3. DmOK' /\ dm'.at \in {"app", "wait"} /\ dm'.cmd = dm.cmd /\ dm'.k = dm.k
    <2>1. DmOK
      BY <1>1 DEF PcTypeOK
    <2>2. QED
      BY <1>2, <2>1 DEF DmOK
  <1>4. FlashOK(flash') /\ Means(flash')
    <2>1. CASE flash.tun = Erased
      <3>1. flash' = [flash EXCEPT !.tun = Tuned] /\ Tuned \in Int
        BY <2>1 DEF OscCalibrateCached, TunWritten, Tuned
      <3>2. QED
        BY <1>1, <3>1, TuningKeeps, SamePrint
    <2>2. CASE flash.tun # Erased
      BY <1>1, <2>2 DEF OscCalibrateCached
    <2>3. QED
      BY <2>1, <2>2
  <1>5. PcTypeOK' /\ Offline'
    BY <1>1, <1>2, <1>3, <1>4 DEF PcTypeOK, InstallerOK, DudeOK, Offline, Quiet, HandleBufferDone
  <1>6. FingerprintMeansImage'
    BY <1>4 DEF FingerprintMeansImage, Means, FpIs, Whole
  <1>7. QED
    BY <1>3, <1>5, <1>6 DEF PcInv

LEMMA BootProtocolInitKeeps == ASSUME PcInv, BootProtocolInit PROVE PcInv'
  <1>1. PcTypeOK /\ dm.at = "wait" /\ dude.at = "connecting" /\ Offline /\ UNCHANGED <<flash, img, buf, rxd, wire, dude>>
    BY DEF PcInv, BootProtocolInit, fVars
  <1>2. dm' = [dm EXCEPT !.at = "serve", !.rx = "WAIT_TYPE", !.remaining = 1, !.msg = <<>>] /\ ioTx' = <<Tok("ESTABLISH", 0)>>
    BY DEF BootProtocolInit
  <1>3. /\ DmOK' /\ dm'.at = "serve" /\ dm'.cmd = dm.cmd /\ dm'.k = dm.k
        /\ dm'.rx = "WAIT_TYPE" /\ dm'.remaining = 1 /\ dm'.msg = <<>>
    <2>1. DmOK /\ <<>> \in Seq(Tokens)
      BY <1>1 DEF PcTypeOK
    <2>2. QED
      BY <1>2, <2>1 DEF DmOK
  <1>4. PcTypeOK'
    BY <1>1, <1>3 DEF PcTypeOK, InstallerOK, DudeOK
  <1>5. Waiting'
    BY <1>1, <1>3 DEF Waiting, Offline, Quiet, HandleBufferDone
  <1>6. Unread' = <<>>
    <2>1. <<>> \o <<>> = <<>>
      OBVIOUS
    <2>2. QED
      BY <1>1, <1>3, <2>1 DEF Offline, Unread, Todo
  <1>7. Reads(<<>>)'
    BY <1>6 DEF Reads, PieceAt
  <1>8. Stage(<<>>)'
    BY <1>1, <1>2 DEF Stage, PcAt
  <1>9. Talk'
    <2>1. <<>> \in Seq(Tokens)
      OBVIOUS
    <2>2. QED
      BY <1>7, <1>8, <2>1 DEF Talk
  <1>10. FingerprintMeansImage'
    BY <1>1 DEF FingerprintMeansImage, PcInv
  <1>11. QED
    BY <1>3, <1>4, <1>5, <1>9, <1>10 DEF PcInv, Served

LEMMA ServeEndsKeeps == ASSUME PcInv, ServeEnds PROVE PcInv'
  <1>1. PcTypeOK /\ rxd = <<>> /\ Quiet /\ dude.at = "off" /\ UNCHANGED <<flash, img, buf, rxd, dude>> /\ wire' = <<>> /\ ioTx' = <<>>
    BY DEF PcInv, ServeEnds, fVars, Quiet
  <1>2. dm' = [dm EXCEPT !.at = "wait", !.cmd = "none", !.k = 0]
    BY DEF ServeEnds, Disconnected
  <1>3. DmOK' /\ dm'.at = "wait" /\ dm'.cmd = "none" /\ dm'.k = 0
    BY <1>1, <1>2 DEF PcTypeOK, DmOK
  <1>4. PcTypeOK'
    <2>1. <<>> \in Seq(Tokens)
      OBVIOUS
    <2>2. QED
      BY <1>1, <1>3, <2>1 DEF PcTypeOK, InstallerOK, DudeOK
  <1>5. Offline'
    BY <1>1, <1>3 DEF Offline, Quiet, HandleBufferDone
  <1>6. FingerprintMeansImage'
    BY <1>1 DEF FingerprintMeansImage, PcInv
  <1>7. QED
    BY <1>3, <1>4, <1>5, <1>6 DEF PcInv

LEMMA ErrorsKeep == ASSUME PcInv, RxImageFailed \/ FlashFails PROVE PcInv'
  <1>1. CASE RxImageFailed
    BY <1>1, ErrorIsOffline DEF RxImageFailed, PcInv
  <1>2. CASE FlashFails
    BY <1>2, ErrorIsOffline DEF FlashFails, PcInv, Command, fVars
  <1>3. QED
    BY <1>1, <1>2

LEMMA HardResetKeeps == ASSUME PcInv, HardReset PROVE PcInv'
  <1>1. FlashOK(flash') /\ Means(flash')
    BY MeansIsMeans DEF HardReset, PcInv, PcTypeOK, InstallerOK
  <1>2. QED
    BY <1>1, StartIsOffline DEF HardReset

LEMMA DudeConnectsKeeps == ASSUME PcInv, NEW v \in PcVersions, DudeConnects(v) PROVE PcInv'
  <1>1. PcTypeOK /\ dm.at = "wait" /\ Offline /\ UNCHANGED <<flash, img, buf, dm, rxd, ioTx, wire>> /\ dude' = [at |-> "connecting", v |-> v, sum |-> 0]
    BY DEF PcInv, DudeConnects, DudeKeeps, fVars
  <1>2. DudeOK' /\ dude'.at = "connecting"
    BY <1>1, PcBootAssumption DEF DudeOK, Versions
  <1>3. PcTypeOK' /\ Offline'
    BY <1>1, <1>2 DEF PcTypeOK, InstallerOK, DmOK, Offline, Quiet, HandleBufferDone
  <1>4. FingerprintMeansImage'
    BY <1>1 DEF FingerprintMeansImage, PcInv
  <1>5. QED
    BY <1>1, <1>3, <1>4 DEF PcInv

\* A power failure costs the fingerprint before it costs a block of the application.
LEMMA BoardRestartsKeeps == ASSUME PcInv, BoardRestarts PROVE PcInv'
  <1>1. PcTypeOK /\ FlashOK(flash) /\ ImgOK(img) /\ Means(flash)
    BY MeansIsMeans DEF PcInv, PcTypeOK, InstallerOK
  <1>2. CASE flash' = flash
    BY <1>1, <1>2, StartIsOffline DEF BoardRestarts
  <1>3. CASE flash' \in InterruptedImage /\ flash' # flash
    <2> DEFINE new == {WrittenBlock(flash, Address, Garbage),
                       [flash EXCEPT !.app = [b \in DOMAIN flash.app |-> IF PageOf(b) = PageOf(Address) THEN Garbage ELSE flash.app[b]]]}
    <2>1. img.due /\ img.state = "WAIT_BLOCK" /\ ~AddressRefused /\ flash' \in new
      BY <1>3 DEF InterruptedImage
    <2>2. FpIs(flash, Erased)
      <3>1. ~Quiet
        BY <2>1 DEF Quiet, HandleBufferDone
      <3>2. Loading
        BY <3>1 DEF PcInv, Offline, Served, Waiting, Commanded
      <3>3. QED
        BY <3>2 DEF Loading, FpErased, FpIs
    <2>3. \E a \in [0 .. NumBlocks - 1 -> Int] : flash' = [flash EXCEPT !.app = a]
      <3>1. flash.app \in [0 .. NumBlocks - 1 -> Int] /\ DOMAIN flash.app = 0 .. NumBlocks - 1 /\ Garbage \in Int
        BY <1>1 DEF FlashOK, Garbage
      <3>2. CASE flash' = WrittenBlock(flash, Address, Garbage)
        <4>1. Address \in 0 .. NumBlocks - 1
          BY <2>1 DEF AddressRefused
        <4>2. Word(flash.app[Address], Garbage) \in Int
          BY <3>1 DEF Word
        <4> DEFINE a == [flash.app EXCEPT ![Address] = Word(flash.app[Address], Garbage)]
        <4>3. a \in [0 .. NumBlocks - 1 -> Int]
          BY <3>1, <4>1, <4>2
        <4>4. flash' = [flash EXCEPT !.app = a]
          BY <3>2 DEF WrittenBlock
        <4>5. QED
          BY <4>3, <4>4
      <3>3. CASE flash' = [flash EXCEPT !.app = [b \in DOMAIN flash.app |-> IF PageOf(b) = PageOf(Address) THEN Garbage ELSE flash.app[b]]]
        <4> DEFINE a == [b \in DOMAIN flash.app |-> IF PageOf(b) = PageOf(Address) THEN Garbage ELSE flash.app[b]]
        <4>1. a \in [0 .. NumBlocks - 1 -> Int]
          <5>1. \A b \in 0 .. NumBlocks - 1 : flash.app[b] \in Int
            BY <3>1
          <5>2. QED
            BY <3>1, <5>1
        <4>2. QED
          BY <3>3, <4>1
      <3>4. QED
        BY <2>1, <3>2, <3>3
    <2>4. FlashOK(flash') /\ flash'.fp = flash.fp
      BY <1>1, <2>3 DEF FlashOK
    <2>5. Means(flash')
      BY <2>2, <2>4, ErasedPrint DEF FpIs
    <2>6. QED
      BY <2>4, <2>5, StartIsOffline DEF BoardRestarts
  <1>4. CASE flash' \in InterruptedConfig
    <2>1. \/ Command("WRITE_FINGERPRINT") /\ dm.k >= 2 /\ flash' = [flash EXCEPT !.fp[dm.k - 1] = Garbage]
          \/ \E kept \in SUBSET (1 .. FpWords) :
               flash' = [EraseConfig(flash) EXCEPT !.fp = [i \in 1 .. FpWords |-> IF i \in kept THEN flash.fp[i] ELSE Erased]]
      BY <1>4 DEF InterruptedConfig
    <2>2. CASE Command("WRITE_FINGERPRINT") /\ dm.k >= 2 /\ flash' = [flash EXCEPT !.fp[dm.k - 1] = Garbage]
      <3>1. dm.k \in Nat /\ dm.k <= FpWords + 1 /\ FpWords \in Nat
        <4>1. dm.at = "serve" /\ dm.cmd = "WRITE_FINGERPRINT" /\ Commanded
          BY <2>2 DEF Command, PcInv, Served, Waiting, Loading
        <4>2. dm.k \in Nat /\ FpWords \in Nat
          BY <1>1, IoioFileAssumption DEF PcTypeOK, DmOK
        <4>3. QED
          BY <2>2, <4>1, <4>2 DEF Commanded
      <3> DEFINE i == dm.k - 1  w == [flash.fp EXCEPT ![i] = Garbage]
      <3>2. i \in 1 .. FpWords
        BY <2>2, <3>1
      <3> HIDE DEF i
      <3>3. w \in [1 .. FpWords -> Int] /\ w[i] = Garbage
        <4>1. flash.fp \in [1 .. FpWords -> Int] /\ Garbage \in Int
          BY <1>1 DEF FlashOK, Garbage
        <4>2. QED
          BY <3>2, <4>1
      <3>4. flash' = [flash EXCEPT !.fp = w]
        BY <2>2 DEF i
      <3> HIDE DEF w
      <3>5. FlashOK(flash') /\ flash'.fp = w
        BY <1>1, <3>3, <3>4 DEF FlashOK
      <3>6. Means(flash')
        BY <3>2, <3>3, <3>5, NoPrint, NoVersion
      <3>7. QED
        BY <3>5, <3>6, StartIsOffline DEF BoardRestarts
    <2>3. ASSUME NEW kept \in SUBSET (1 .. FpWords),
                 flash' = [EraseConfig(flash) EXCEPT !.fp = [i \in 1 .. FpWords |-> IF i \in kept THEN flash.fp[i] ELSE Erased]]
          PROVE  PcInv'
      <3> DEFINE w == [i \in 1 .. FpWords |-> IF i \in kept THEN flash.fp[i] ELSE Erased]
      <3>1. w \in [1 .. FpWords -> Int]
        <4>1. \A i \in 1 .. FpWords : flash.fp[i] \in Int
          BY <1>1 DEF FlashOK
        <4>2. Erased \in Int
          BY DEF Erased
        <4>3. QED
          BY <4>1, <4>2
      <3>2. \A i \in 1 .. FpWords : w[i] \in {flash.fp[i], Erased}
        OBVIOUS
      <3> HIDE DEF w
      <3>3. flash' = [flash EXCEPT !.fp = w, !.tun = Erased]
        BY <1>1, <2>3 DEF w, EraseConfig, FlashOK
      <3>4. FlashOK(flash') /\ flash'.fp = w /\ flash'.app = flash.app
        <4>1. Erased \in Int
          BY DEF Erased
        <4>2. QED
          BY <1>1, <3>1, <3>3, <4>1 DEF FlashOK
      <3>5. Means(flash')
        <4>1. SUFFICES ASSUME NEW v \in Versions, FpIs(flash', v) PROVE FpIs(flash, v)
          BY <1>1, <3>4 DEF Means, Whole
        <4>2. \A i \in 1 .. FpWords : flash.fp[i] = v
          BY <3>2, <3>4, <4>1, NoVersion DEF FpIs
        <4>3. QED
          BY <4>2 DEF FpIs
      <3>6. QED
        BY <3>4, <3>5, StartIsOffline DEF BoardRestarts
    <2>4. QED
      BY <2>1, <2>2, <2>3
  <1>5. QED
    BY <1>2, <1>3, <1>4 DEF BoardRestarts

-----------------------------------------------------------------------------
(* PcInv is kept: the board receives.                                      *)

\* A step that changes neither the conversation nor the application.
LEMMA SameTalk ==
    ASSUME Talk, Unread' = Unread, UNCHANGED <<dude, ioTx>>, flash'.app = flash.app PROVE Talk'
  <1>1. PICK e \in Seq(Tokens) : Reads(e) /\ Stage(e)
    BY DEF Talk
  <1>2. Reads(e)'
    BY <1>1, SameIsRead
  <1>3. Stage(e)'
    BY <1>1 DEF Stage, PcAt, Whole
  <1>4. QED
    BY <1>2, <1>3 DEF Talk

LEMMA ReceiveKeeps == ASSUME PcInv, NEW n \in 1 .. MaxUsb, Receive(n) PROVE PcInv'
  <1>1. /\ PcTypeOK /\ dm.at = "serve" /\ rxd = <<>> /\ n <= Len(wire) /\ UNCHANGED <<flash, img, buf, dm, ioTx, dude>>
        /\ rxd' = SubSeq(wire, 1, n) /\ wire' = SubSeq(wire, n + 1, Len(wire)) /\ wire \in Seq(Tokens)
    BY DEF PcInv, Receive, Serving, fVars, PcTypeOK
  <1>2. n \in 0 .. Len(wire)
    BY <1>1, PcBootAssumption
  <1>3. rxd' \in Seq(Tokens) /\ wire' \in Seq(Tokens) /\ rxd' \o wire' = wire
    BY <1>1, <1>2, CutAndJoin
  <1>4. Todo' = Todo /\ Unread' = Unread
    <2>1. Todo = wire
      BY <1>1, ConcatNothing DEF Todo
    <2>2. Todo' = wire
      BY <1>3 DEF Todo
    <2>3. QED
      BY <1>1, <2>1, <2>2 DEF Unread
  <1>5. PcTypeOK'
    BY <1>1, <1>3 DEF PcTypeOK, InstallerOK, DmOK, DudeOK
  <1>6. CASE (Waiting \/ Commanded) /\ Talk
    <2>1. Talk'
      BY <1>1, <1>4, <1>6, SameTalk
    <2>2. (Waiting \/ Commanded)'
      BY <1>1, <1>6 DEF Waiting, Commanded, Quiet, HandleBufferDone, FpErased
    <2>3. QED
      BY <1>1, <1>5, <2>1, <2>2 DEF PcInv, Served, FingerprintMeansImage
  <1>7. CASE Loading
    <2>1. Loading'
      BY <1>1, <1>4, <1>7 DEF Loading, LoadingOf, HandleBufferDone, FpErased, PcAt
    <2>2. QED
      BY <1>1, <1>5, <2>1 DEF PcInv, Served, FingerprintMeansImage
  <1>8. QED
    BY <1>1, <1>6, <1>7 DEF PcInv, Served

\* The first token tells what is to be carried out.
LEMMA StageHead ==
    ASSUME NEW e \in Seq(Tokens), Stage(e), e # <<>>
    PROVE  /\ e[1].t \in Types
           /\ e[1].t = "CHECK_INTERFACE" => \/ e = CheckOrder /\ PcAt("write", <<>>)
                                            \/ e = CheckOrder \o ReadOrder /\ PcAt("compare", <<>>)
           /\ e[1].t = "READ_FINGERPRINT" => e = ReadOrder /\ PcAt("compare", <<Tok("INTERFACE", 1)>>)
           /\ e[1].t = "WRITE_IMAGE" =>
                \E v \in Versions : e = ImageOrder(v) /\ PcAt("checksum", <<>>) /\ (dude.at = "off" \/ dude.v = v)
           /\ e[1].t = "WRITE_FINGERPRINT" =>
                \E v \in Versions : /\ Whole(flash, v)
                                    /\ \/ e = PrintOrder(v) /\ dude.at \in {"off", "reset"}
                                       \/ e = PrintOrder(v) \o ResetOrder /\ dude.at \in {"off", "done"}
  <1>1. CASE e = CheckOrder /\ PcAt("write", <<>>)
    BY <1>1, PlainOrders DEF Types
  <1>2. CASE e = CheckOrder \o ReadOrder /\ PcAt("compare", <<>>)
    <2>1. e[1] = CheckOrder[1]
      BY <1>2, PlainOrders, ConcatShape
    <2>2. QED
      BY <1>2, <2>1, PlainOrders DEF Types
  <1>3. CASE e = ReadOrder /\ PcAt("compare", <<Tok("INTERFACE", 1)>>)
    BY <1>3, PlainOrders DEF Types
  <1>4. ASSUME NEW v \in Versions, e = ImageOrder(v), PcAt("checksum", <<>>), dude.at = "off" \/ dude.v = v
        PROVE  e[1].t = "WRITE_IMAGE" /\ \E u \in Versions : e = ImageOrder(u) /\ PcAt("checksum", <<>>) /\ (dude.at = "off" \/ dude.v = u)
    BY <1>4, ImageOrderShape
  <1>5. ASSUME NEW v \in Versions, Whole(flash, v), e = PrintOrder(v), dude.at \in {"off", "reset"} PROVE e[1].t = "WRITE_FINGERPRINT"
    BY <1>5, PrintOrderShape
  <1>6. ASSUME NEW v \in Versions, Whole(flash, v), e = PrintOrder(v) \o ResetOrder, dude.at \in {"off", "done"} PROVE e[1].t = "WRITE_FINGERPRINT"
    <2>1. PrintOrder(v) \in Seq(Tokens) /\ 1 \in 1 .. Len(PrintOrder(v)) /\ PrintOrder(v)[1].t = "WRITE_FINGERPRINT" /\ ResetOrder \in Seq(Tokens)
      BY PrintOrderShape, PlainOrders, IoioFileAssumption
    <2>2. e[1] = PrintOrder(v)[1]
      BY <1>6, <2>1, ConcatShape
    <2>3. QED
      BY <2>1, <2>2
  <1>7. CASE e = ResetOrder
    BY <1>7, PlainOrders DEF Types
  <1>8. CASE \E v \in Versions : e = ImageOrder(v) /\ PcAt("checksum", <<>>) /\ (dude.at = "off" \/ dude.v = v)
    BY <1>4, <1>8 DEF Types
  <1>9. CASE \E v \in Versions : /\ Whole(flash, v)
                                 /\ \/ e = PrintOrder(v) /\ dude.at \in {"off", "reset"}
                                    \/ e = PrintOrder(v) \o ResetOrder /\ dude.at \in {"off", "done"}
    BY <1>5, <1>6, <1>9 DEF Types
  <1>10. QED
    BY <1>1, <1>2, <1>3, <1>7, <1>8, <1>9 DEF Stage

\* A message that the board has begun to read is one it knows.
LEMMA KnownMessage ==
    ASSUME PcTypeOK, Talk, Len(Unread) >= 1 PROVE Unread[1].t \in Types
  <1>1. PICK e \in Seq(Tokens) : Reads(e) /\ Stage(e)
    BY DEF Talk
  <1>2. Len(Unread) \in Nat /\ Unread[1] = e[1] /\ e # <<>>
    <2>1. Len(Unread) \in Nat
      BY UnreadShape
    <2>2. Unread[1] = e[0 + 1] /\ Len(e) >= 1
      BY <1>1, <2>1 DEF Reads, PieceAt
    <2>3. QED
      BY <2>1, <2>2
  <1>3. QED
    BY <1>1, <1>2, StageHead

LEMMA RxMessageKeeps == ASSUME PcInv, RxMessage PROVE PcInv'
  <1> DEFINE n == Min({dm.remaining, Len(rxd)})
             a == SubSeq(rxd, 1, n)  b == SubSeq(rxd, n + 1, Len(rxd))
             msg == dm.msg \o a
             args == IF dm.rx = "WAIT_TYPE" THEN incoming_arg_size[msg[1].t] ELSE 0
  <1>1. /\ PcTypeOK /\ dm.at = "serve" /\ dm.cmd = "none" /\ rxd # <<>> /\ dm.rx # "WAIT_FILE" /\ Quiet
        /\ UNCHANGED <<flash, img, buf, ioTx, wire, dude>> /\ rxd' = b
        /\ dm.msg \in Seq(Tokens) /\ rxd \in Seq(Tokens) /\ wire \in Seq(Tokens) /\ dm.remaining \in Nat
    BY DEF PcInv, RxMessage, Serving, Quiet, fVars, PcTypeOK, DmOK
  <1>2. dm' = IF n < dm.remaining THEN [dm EXCEPT !.msg = msg, !.remaining = dm.remaining - n]
              ELSE IF args > 0 THEN [dm EXCEPT !.msg = msg, !.rx = "WAIT_ARGS", !.remaining = args]
              ELSE [dm EXCEPT !.msg = msg, !.rx = "WAIT_TYPE", !.remaining = 1, !.cmd = msg[1].t]
    BY DEF RxMessage
  <1>3. Waiting /\ Talk
    <2>1. "none" \notin Types
      BY DEF Types
    <2>2. QED
      BY <1>1, <2>1 DEF PcInv, Served, Commanded, Loading
  <1>4. n = (IF dm.remaining <= Len(rxd) THEN dm.remaining ELSE Len(rxd)) /\ n \in 1 .. Len(rxd) /\ n \in Nat /\ dm.remaining >= 1
    <2>1. Len(rxd) \in Nat /\ Len(rxd) > 0 /\ dm.remaining >= 1
      BY <1>1, <1>3 DEF Waiting
    <2>2. n = IF dm.remaining <= Len(rxd) THEN dm.remaining ELSE Len(rxd)
      <3> DEFINE x == dm.remaining  y == Len(rxd)
      <3>1. x \in Int /\ y \in Int
        BY <1>1, <2>1
      <3> HIDE DEF x, y
      <3>2. Min({x, y}) = IF x <= y THEN x ELSE y
        BY <3>1, MinOfTwo
      <3>3. QED
        BY <3>2 DEF x, y
    <2>3. QED
      BY <1>1, <2>1, <2>2
  <1> HIDE DEF n
  <1>5. a \in Seq(Tokens) /\ b \in Seq(Tokens) /\ Len(a) = n /\ a \o b = rxd
    <2>1. rxd \in Seq(Tokens) /\ n \in 0 .. Len(rxd)
      BY <1>1, <1>4
    <2>2. QED
      BY <2>1, CutAndJoin
  <1> HIDE DEF a, b
  <1>6. /\ msg \in Seq(Tokens) /\ Len(msg) = Len(dm.msg) + n /\ Len(dm.msg) \in Nat
        /\ \A i \in 1 .. Len(dm.msg) : msg[i] = dm.msg[i]
    <2> DEFINE d == dm.msg
    <2>1. d \in Seq(Tokens) /\ a \in Seq(Tokens) /\ Len(a) = n
      BY <1>1, <1>5
    <2> HIDE DEF d
    <2>2. d \o a \in Seq(Tokens) /\ Len(d \o a) = Len(d) + Len(a) /\ \A i \in 1 .. Len(d) : (d \o a)[i] = d[i]
      BY <2>1, ConcatShape
    <2>3. QED
      BY <2>1, <2>2 DEF d
  <1> HIDE DEF msg
  <1>7. dm'.msg = msg /\ Unread' = Unread
    <2>1. dm'.msg = msg
      BY <1>1, <1>2 DEF PcTypeOK, DmOK
    <2> DEFINE d == dm.msg  w == wire
    <2>2. d \in Seq(Tokens) /\ w \in Seq(Tokens) /\ Unread = d \o ((a \o b) \o w) /\ msg = d \o a
      BY <1>1, <1>5 DEF Unread, Todo, msg
    <2>3. Unread' = msg \o (b \o w)
      BY <1>1, <2>1 DEF Unread, Todo
    <2> HIDE DEF d, w
    <2>4. (a \o b) \o w = a \o (b \o w) /\ b \o w \in Seq(Tokens)
      <3>1. a \in Seq(Tokens) /\ b \in Seq(Tokens) /\ w \in Seq(Tokens)
        BY <1>5, <2>2
      <3>2. (a \o b) \o w = a \o (b \o w)
        BY <3>1, ConcatGroups
      <3>3. b \o w \in Seq(Tokens)
        BY <3>1, ConcatShape
      <3>4. QED
        BY <3>2, <3>3
    <2> DEFINE bw == b \o w
    <2>5. (d \o a) \o bw = d \o (a \o bw)
      <3> HIDE DEF bw
      <3>1. bw \in Seq(Tokens) /\ a \in Seq(Tokens) /\ d \in Seq(Tokens)
        BY <1>5, <2>2, <2>4 DEF bw
      <3>2. QED
        BY <3>1, ConcatGroups
    <2>6. QED
      BY <2>1, <2>2, <2>3, <2>4, <2>5
  <1>8. Talk'
    BY <1>1, <1>3, <1>7, SameTalk
  <1>9. msg[1].t \in Types
    <2>1. b \o wire \in Seq(Tokens)
      BY <1>1, <1>5, ConcatShape
    <2>2. Unread = msg \o (b \o wire)
      BY <1>1, <1>7 DEF Unread, Todo
    <2> DEFINE r == b \o wire
    <2> HIDE DEF r
    <2>3. r \in Seq(Tokens) /\ Unread = msg \o r
      BY <2>1, <2>2 DEF r
    <2>4. Len(Unread) = Len(msg) + Len(r) /\ Len(r) \in Nat /\ \A i \in 1 .. Len(msg) : Unread[i] = msg[i]
      BY <1>6, <2>3, ConcatShape
    <2>5. Len(Unread) >= 1 /\ Unread[1] = msg[1]
      BY <1>4, <1>6, <2>4
    <2>6. QED
      BY <1>1, <1>3, <2>5, KnownMessage
  <1>10. incoming_arg_size[msg[1].t] \in Nat /\ Size(msg[1].t) = 1 + incoming_arg_size[msg[1].t]
    BY <1>9, Sizes DEF Size
  <1>11. rxd' \in Seq(Tokens) /\ dm'.at = "serve" /\ dm'.k = dm.k /\ dm'.tun = dm.tun
    BY <1>1, <1>2, <1>5 DEF PcTypeOK, DmOK
  <1>12. (Waiting \/ Commanded)' /\ DmOK'
    <2>1. CASE dm.rx = "WAIT_TYPE"
      <3>1. n = 1 /\ Len(msg) = 1 /\ dm.remaining = 1
        BY <1>3, <1>4, <1>6, <2>1 DEF Waiting
      <3>2. CASE args > 0
        <4>1. dm' = [dm EXCEPT !.msg = msg, !.rx = "WAIT_ARGS", !.remaining = args] /\ args \in Nat /\ args = incoming_arg_size[msg[1].t]
          BY <1>2, <1>10, <2>1, <3>1, <3>2
        <4> HIDE DEF args
        <4>2. DmOK' /\ dm'.rx = "WAIT_ARGS" /\ dm'.remaining = args /\ dm'.cmd = dm.cmd
          BY <1>1, <1>6, <4>1 DEF PcTypeOK, DmOK
        <4>3. args = Size(msg[1].t) - Len(msg)
          BY <1>10, <3>1, <4>1
        <4>4. Waiting'
          <5>1. msg # <<>>
            <6>1. Len(msg) = 1
              BY <3>1
            <6>2. QED
              BY <6>1
          <5>a. args >= 1
            BY <3>2, <4>1
          <5>2. QED
            BY <1>1, <1>3, <1>7, <1>9, <1>11, <4>2, <4>3, <5>1, <5>a DEF Waiting, Quiet, HandleBufferDone
        <4>5. QED
          BY <4>2, <4>4
      <3>3. CASE ~(args > 0)
        <4>1. dm' = [dm EXCEPT !.msg = msg, !.rx = "WAIT_TYPE", !.remaining = 1, !.cmd = msg[1].t] /\ incoming_arg_size[msg[1].t] = 0
          BY <1>2, <1>10, <2>1, <3>1, <3>3
        <4>2. DmOK' /\ dm'.rx = "WAIT_TYPE" /\ dm'.remaining = 1 /\ dm'.cmd = msg[1].t
          BY <1>1, <1>6, <4>1 DEF PcTypeOK, DmOK
        <4>3. Len(msg) = Size(msg[1].t)
          BY <1>10, <3>1, <4>1
        <4>4. Commanded'
          BY <1>1, <1>3, <1>7, <1>9, <1>11, <4>2, <4>3 DEF Waiting, Commanded, Quiet, HandleBufferDone
        <4>5. QED
          BY <4>2, <4>4
      <3>4. QED
        BY <3>2, <3>3
    <2>2. CASE dm.rx = "WAIT_ARGS"
      <3>1. args = 0 /\ dm.msg # <<>> /\ dm.remaining = Size(dm.msg[1].t) - Len(dm.msg) /\ msg[1] = dm.msg[1] /\ Size(msg[1].t) \in Nat
        <4>1. args = 0 /\ dm.msg # <<>> /\ dm.remaining = Size(dm.msg[1].t) - Len(dm.msg)
          BY <1>3, <2>2 DEF Waiting
        <4>2. Len(dm.msg) >= 1
          BY <1>1, <1>6, <4>1
        <4>3. QED
          BY <1>6, <1>10, <4>1, <4>2
      <3>2. CASE n < dm.remaining
        <4>1. dm' = [dm EXCEPT !.msg = msg, !.remaining = dm.remaining - n] /\ dm.remaining - n \in Nat /\ dm.remaining - n >= 1
          BY <1>1, <1>2, <1>4, <3>2
        <4>2. DmOK' /\ dm'.rx = "WAIT_ARGS" /\ dm'.remaining = dm.remaining - n /\ dm'.cmd = dm.cmd
          BY <1>1, <1>6, <2>2, <4>1 DEF PcTypeOK, DmOK
        <4>3. dm.remaining - n = Size(msg[1].t) - Len(msg)
          BY <1>1, <1>4, <1>6, <3>1
        <4>4. msg # <<>>
          BY <1>4, <1>6
        <4>5. Waiting'
          BY <1>1, <1>3, <1>7, <1>9, <1>11, <4>1, <4>2, <4>3, <4>4 DEF Waiting, Quiet, HandleBufferDone
        <4>6. QED
          BY <4>2, <4>5
      <3>3. CASE ~(n < dm.remaining)
        <4>1. dm' = [dm EXCEPT !.msg = msg, !.rx = "WAIT_TYPE", !.remaining = 1, !.cmd = msg[1].t] /\ n = dm.remaining
          BY <1>1, <1>2, <1>4, <3>1, <3>3
        <4>2. DmOK' /\ dm'.rx = "WAIT_TYPE" /\ dm'.remaining = 1 /\ dm'.cmd = msg[1].t
          BY <1>1, <1>6, <4>1 DEF PcTypeOK, DmOK
        <4>3. Len(msg) = Size(msg[1].t)
          BY <1>1, <1>4, <1>6, <3>1, <4>1
        <4>4. Commanded'
          BY <1>1, <1>3, <1>7, <1>9, <1>11, <4>2, <4>3 DEF Waiting, Commanded, Quiet, HandleBufferDone
        <4>5. QED
          BY <4>2, <4>4
      <3>4. QED
        BY <3>2, <3>3
    <2>3. QED
      BY <1>3, <2>1, <2>2 DEF Waiting
  <1>13. PcTypeOK'
    BY <1>1, <1>11, <1>12 DEF PcTypeOK, InstallerOK, DudeOK
  <1>14. QED
    BY <1>1, <1>8, <1>11, <1>12, <1>13 DEF PcInv, Served, FingerprintMeansImage

LEMMA PieceSplit ==
    ASSUME NEW S, NEW a \in Seq(S), NEW b \in Seq(S), NEW e \in Seq(S), NEW k \in Nat, PieceAt(a \o b, e, k)
    PROVE  PieceAt(a, e, k) /\ PieceAt(b, e, k + Len(a))
  <1> DEFINE s == a \o b
  <1>1. Len(s) = Len(a) + Len(b) /\ (\A i \in 1 .. Len(a) : s[i] = a[i]) /\ (\A i \in 1 .. Len(b) : s[Len(a) + i] = b[i])
    BY ConcatShape
  <1>2. Len(a) \in Nat /\ Len(b) \in Nat /\ Len(e) \in Nat
    OBVIOUS
  <1>3. Len(s) + k <= Len(e) /\ \A i \in 1 .. Len(s) : s[i] = e[k + i]
    BY DEF PieceAt
  <1> HIDE DEF s
  <1>4. PieceAt(a, e, k)
    BY <1>1, <1>2, <1>3 DEF PieceAt
  <1>5. ASSUME NEW i \in 1 .. Len(b) PROVE b[i] = e[(k + Len(a)) + i]
    <2>1. Len(a) + i \in 1 .. Len(s) /\ k + (Len(a) + i) = (k + Len(a)) + i
      BY <1>1, <1>2
    <2>2. QED
      BY <1>1, <1>3, <2>1
  <1>6. Len(b) + (k + Len(a)) <= Len(e)
    BY <1>1, <1>2, <1>3
  <1>7. QED
    BY <1>4, <1>5, <1>6 DEF PieceAt

LEMMA RxFileKeeps == ASSUME PcInv, RxFile PROVE PcInv'
  <1> DEFINE n == Min({dm.remaining, Len(rxd)})
             a == SubSeq(rxd, 1, n)  b == SubSeq(rxd, n + 1, Len(rxd))
  <1>1. /\ PcTypeOK /\ dm.at = "serve" /\ dm.cmd = "none" /\ rxd # <<>> /\ dm.rx = "WAIT_FILE" /\ Quiet
        /\ UNCHANGED <<flash, img, ioTx, wire, dude>> /\ rxd' = b /\ buf' = a
        /\ rxd \in Seq(Tokens) /\ wire \in Seq(Tokens) /\ dm.remaining \in Nat /\ buf = <<>>
    BY DEF PcInv, RxFile, Serving, Quiet, fVars, PcTypeOK, DmOK, HandleBufferDone
  <1>2. \E x : dm' = [dm EXCEPT !.remaining = dm.remaining - n, !.sum = x, !.cmd = IF n = dm.remaining THEN "FILE_END" ELSE dm.cmd]
    <2> DEFINE y == (dm.sum + Checksum(SubSeq(rxd, 1, n))) % 65536
    <2>1. dm' = [dm EXCEPT !.remaining = dm.remaining - n, !.sum = y, !.cmd = IF n = dm.remaining THEN "FILE_END" ELSE dm.cmd]
      BY DEF RxFile
    <2> HIDE DEF y, n
    <2>2. QED
      BY <2>1
  <1>3. Loading /\ ~img.failed
    BY <1>1 DEF PcInv, Served, Waiting, Commanded, Quiet
  <1>4. PICK v \in Versions, c \in Nat : LoadingOf(v, c)
    BY <1>3 DEF Loading
  <1> DEFINE F == ImageFile(v)
  <1>5. /\ Installing(flash, img, v, c) /\ c + dm.remaining = Len(F) /\ dm.remaining > 0 /\ PieceAt(Todo, F, c)
        /\ F \in Seq(Tokens) /\ Len(F) \in Nat
        /\ dude.at # "off" => dude.v = v /\ Len(Todo) = dm.remaining
    <2>1. F \in Seq(Tokens) /\ Len(F) \in Nat
      BY FileShape
    <2>2. Len(buf) = 0 /\ c + Len(buf) = c
      BY <1>1
    <2>3. /\ Installing(flash, img, v, c) /\ c + Len(buf) + dm.remaining = Len(F) /\ ~(dm.remaining = 0) /\ PieceAt(Todo, F, c + Len(buf))
          /\ dude.at # "off" => dude.v = v /\ Len(Todo) = dm.remaining
      BY <1>1, <1>4 DEF LoadingOf
    <2> HIDE DEF F
    <2>4. QED
      BY <1>1, <2>1, <2>2, <2>3
  <1> HIDE DEF F
  <1>6. n \in 1 .. Len(rxd) /\ n \in Nat /\ n <= dm.remaining
    <2> DEFINE x == dm.remaining  y == Len(rxd)
    <2>1. x \in Int /\ y \in Int /\ x > 0 /\ y > 0
      BY <1>1, <1>5
    <2> HIDE DEF x, y
    <2>2. Min({x, y}) = IF x <= y THEN x ELSE y
      BY <2>1, MinOfTwo
    <2>3. n = IF x <= y THEN x ELSE y
      BY <2>2 DEF x, y
    <2> HIDE DEF n
    <2>4. QED
      BY <2>1, <2>3 DEF x, y
  <1> HIDE DEF n
  <1>7. a \in Seq(Tokens) /\ b \in Seq(Tokens) /\ Len(a) = n /\ a \o b = rxd
    <2>1. rxd \in Seq(Tokens) /\ n \in 0 .. Len(rxd)
      BY <1>1, <1>6
    <2>2. QED
      BY <2>1, CutAndJoin
  <1> HIDE DEF a, b
  <1>8. Todo = a \o Todo' /\ Todo' \in Seq(Tokens)
    <2> DEFINE w == wire
    <2>1. a \in Seq(Tokens) /\ b \in Seq(Tokens) /\ w \in Seq(Tokens) /\ Todo = (a \o b) \o w /\ Todo' = b \o w
      BY <1>1, <1>7 DEF Todo
    <2> HIDE DEF w
    <2>2. (a \o b) \o w = a \o (b \o w) /\ b \o w \in Seq(Tokens)
      <3>1. a \in Seq(Tokens) /\ b \in Seq(Tokens) /\ w \in Seq(Tokens)
        BY <2>1
      <3>2. (a \o b) \o w = a \o (b \o w)
        BY <3>1, ConcatGroups
      <3>3. b \o w \in Seq(Tokens)
        BY <3>1, ConcatShape
      <3>4. QED
        BY <3>2, <3>3
    <2>3. QED
      BY <2>1, <2>2
  <1>9. PieceAt(a, F, c) /\ PieceAt(Todo', F, c + n) /\ Len(Todo) = n + Len(Todo') /\ Len(Todo') \in Nat
    <2> DEFINE t == Todo'
    <2>1. a \in Seq(Tokens) /\ t \in Seq(Tokens) /\ F \in Seq(Tokens) /\ PieceAt(a \o t, F, c) /\ Todo = a \o t
      BY <1>5, <1>7, <1>8
    <2> HIDE DEF t
    <2>2. PieceAt(a, F, c) /\ PieceAt(t, F, c + Len(a))
      BY <2>1, PieceSplit
    <2>3. Len(a \o t) = Len(a) + Len(t) /\ Len(t) \in Nat
      BY <2>1, ConcatShape
    <2>4. QED
      BY <1>7, <2>1, <2>2, <2>3 DEF t
  <1>10. /\ DmOK' /\ dm'.at = dm.at /\ dm'.rx = dm.rx /\ dm'.remaining = dm.remaining - n /\ dm'.k = dm.k /\ dm'.msg = dm.msg
         /\ dm'.cmd = IF n = dm.remaining THEN "FILE_END" ELSE "none"
    <2>1. PICK x : dm' = [dm EXCEPT !.remaining = dm.remaining - n, !.sum = x, !.cmd = IF n = dm.remaining THEN "FILE_END" ELSE dm.cmd]
      BY <1>2
    <2>2. dm.remaining - n \in Nat
      BY <1>1, <1>6
    <2>3. QED
      BY <1>1, <2>1, <2>2 DEF PcTypeOK, DmOK
  <1>11. LoadingOf(v, c)'
    <2>1. c + Len(buf') + dm'.remaining = Len(F)
      BY <1>1, <1>5, <1>6, <1>7, <1>10
    <2>2. dm'.cmd = "FILE_END" <=> dm'.remaining = 0
      BY <1>1, <1>6, <1>10
    <2>3. PieceAt(buf', F, c) /\ PieceAt(Todo', F, c + Len(buf'))
      BY <1>1, <1>7, <1>9
    <2>4. dude'.at # "off" => dude'.v = v /\ Len(Todo') = dm'.remaining
      BY <1>1, <1>5, <1>6, <1>9, <1>10
    <2>5. Installing(flash', img', v, c)
      BY <1>1, <1>5
    <2>6. QED
      BY <2>1, <2>2, <2>3, <2>4, <2>5 DEF LoadingOf, F
  <1>12. Loading'
    BY <1>1, <1>3, <1>10, <1>11 DEF Loading, FpErased, Quiet, PcAt
  <1>13. PcTypeOK'
    BY <1>1, <1>7, <1>10 DEF PcTypeOK, InstallerOK, DudeOK
  <1>14. QED
    BY <1>1, <1>10, <1>12, <1>13 DEF PcInv, Served, FingerprintMeansImage

LEMMA RxImageKeeps == ASSUME PcInv, RxImage PROVE PcInv'
  <1>1. PcTypeOK /\ dm.at = "serve" /\ HandleBuffer(TRUE) /\ UNCHANGED <<dm, rxd, ioTx, wire, dude>> /\ ~HandleBufferDone
    BY DEF PcInv, RxImage, HandleBuffer, CopyField, HeaderDone, BlockRefused, ErasePage, WriteBlock, HandleBufferDone
  <1>2. Loading /\ ~img.failed
    BY <1>1 DEF PcInv, Served, Waiting, Commanded, Quiet, Loading
  <1>3. PICK v \in Versions, c \in Nat : LoadingOf(v, c)
    BY <1>2 DEF Loading
  <1>4. AtWork(flash, img, buf, v, c)
    BY <1>1, <1>2, <1>3 DEF AtWork, LoadingOf, PcTypeOK
  <1>5. GoesOn(v, c)
    BY <1>1, <1>4, BufferInstalls
  <1>6. InstallerOK(flash', img', buf') /\ flash'.fp = flash.fp /\ (img'.failed => ~img'.due /\ buf' = <<>>)
    BY <1>5 DEF GoesOn
  <1>7. ASSUME ~img'.failed PROVE \E d \in Nat : LoadingOf(v, d)'
    <2>1. PICK d \in Nat : AtWork(flash', img', buf', v, d) /\ d + Len(buf') = c + Len(buf)
      BY <1>5, <1>7 DEF GoesOn
    <2>2. Todo' = Todo
      BY <1>1 DEF Todo
    <2>3. LoadingOf(v, d)'
      BY <1>1, <1>3, <2>1, <2>2 DEF LoadingOf, AtWork
    <2>4. QED
      BY <2>3
  <1>8. Loading'
    BY <1>1, <1>2, <1>6, <1>7 DEF Loading, FpErased, HandleBufferDone, PcAt
  <1>9. FingerprintMeansImage'
    <2>1. FpIs(flash', Erased)
      BY <1>2, <1>6 DEF Loading, FpErased, FpIs
    <2>2. Means(flash')
      BY <2>1, ErasedPrint
    <2>3. QED
      BY <2>2 DEF FingerprintMeansImage, Means, FpIs, Whole
  <1>10. PcTypeOK'
    BY <1>1, <1>6 DEF PcTypeOK, DmOK, DudeOK
  <1>11. QED
    BY <1>1, <1>8, <1>9, <1>10 DEF PcInv, Served

LEMMA FileEndsKeeps == ASSUME PcInv, FileEnds PROVE PcInv'
  <1>1. /\ PcTypeOK /\ dm.at = "serve" /\ dm.cmd = "FILE_END" /\ Quiet /\ HandleBufferDone /\ ~img.failed /\ UNCHANGED <<flash, img, buf>>
        /\ FingerprintMeansImage /\ buf = <<>>
    BY DEF PcInv, FileEnds, Quiet, fVars, HandleBufferDone
  <1>2. CASE ~IOIOFileDone
    BY <1>1, <1>2, ErrorIsOffline DEF FileEnds
  <1>3. CASE IOIOFileDone
    <2>1. Loading
      <3>1. "FILE_END" \notin Types
        BY DEF Types
      <3>2. QED
        BY <1>1, <3>1 DEF PcInv, Served, Waiting, Commanded
    <2>2. PICK v \in Versions, c \in Nat : LoadingOf(v, c)
      <3>1. \E v \in Versions : \E c \in Nat : LoadingOf(v, c)
        BY <1>1, <2>1 DEF Loading
      <3>2. QED
        BY <3>1
    <2> DEFINE F == ImageFile(v)
    <2>3. F \in Seq(Tokens) /\ Len(F) \in Nat
      BY FileShape
    <2>4. /\ c = Len(F) /\ PieceAt(Todo, F, c) /\ Installing(flash, img, v, c)
          /\ dude.at # "off" => dude.at = "checksum" /\ dude.v = v /\ ioTx = <<>>
      <3>1. /\ dm.remaining = 0 /\ c + Len(buf) + dm.remaining = Len(F) /\ PieceAt(Todo, F, c + Len(buf)) /\ Installing(flash, img, v, c)
            /\ dude.at # "off" => dude.at = "checksum" /\ dude.v = v /\ ioTx = <<>>
        BY <1>1, <2>1, <2>2 DEF LoadingOf, Loading, PcAt
      <3>2. Len(buf) = 0
        BY <1>1
      <3> HIDE DEF F
      <3>3. QED
        BY <2>3, <3>1, <3>2
    <2>5. Whole(flash, v)
      BY <1>3, <2>4, DoneIsWhole
    <2> HIDE DEF F
    <2>6. Todo = <<>>
      <3>1. Todo \in Seq(Tokens) /\ Len(Todo) \in Nat
        BY <1>1, UnreadShape
      <3>2. Len(Todo) = 0
        BY <2>3, <2>4, <3>1 DEF PieceAt
      <3>3. QED
        BY <3>1, <3>2
    <2>7. /\ dm' = [dm EXCEPT !.rx = "WAIT_TYPE", !.remaining = 1, !.cmd = "none", !.msg = <<>>]
          /\ UNCHANGED <<rxd, wire, dude>> /\ ioTx' = Append(ioTx, Tok("CHECKSUM", dm.sum))
      BY <1>3 DEF FileEnds
    <2>8. DmOK' /\ dm'.at = "serve" /\ dm'.rx = "WAIT_TYPE" /\ dm'.remaining = 1 /\ dm'.cmd = "none" /\ dm'.msg = <<>> /\ dm'.k = dm.k
      <3>1. DmOK /\ <<>> \in Seq(Tokens)
        BY <1>1 DEF PcTypeOK
      <3>2. QED
        BY <1>1, <2>7, <3>1 DEF DmOK
    <2>9. Waiting'
      BY <1>1, <2>1, <2>8 DEF Waiting, Loading, Quiet, HandleBufferDone
    <2>10. Unread' = <<>>
      <3>1. <<>> \o <<>> = <<>> /\ Todo' = Todo
        BY <2>7 DEF Todo
      <3>2. QED
        BY <2>6, <2>8, <3>1 DEF Unread
    <2>11. Reads(<<>>)'
      BY <2>10 DEF Reads, PieceAt
    <2>12. Stage(<<>>)'
      <3>1. CASE dude.at = "off"
        BY <2>7, <3>1 DEF Stage
      <3>2. CASE dude.at # "off"
        <4>1. \E x : ioTx' = <<x>>
          BY <2>4, <2>7, <3>2
        <4>2. Whole(flash', dude'.v) /\ dude'.at = "checksum"
          BY <1>1, <2>4, <2>5, <2>7, <3>2
        <4>3. QED
          BY <4>1, <4>2 DEF Stage
      <3>3. QED
        BY <3>1, <3>2
    <2>13. Talk'
      <3>1. <<>> \in Seq(Tokens)
        OBVIOUS
      <3>2. QED
        BY <2>11, <2>12, <3>1 DEF Talk
    <2>14. PcTypeOK'
      BY <1>1, <2>7, <2>8 DEF PcTypeOK, DudeOK
    <2>15. QED
      BY <1>1, <2>8, <2>9, <2>13, <2>14 DEF PcInv, Served, FingerprintMeansImage
  <1>4. QED
    BY <1>2, <1>3

-----------------------------------------------------------------------------
(* PcInv is kept: the board carries out a command.                         *)

\* A command comes from the first message the board has not carried out.
LEMMA CommandIsHead ==
    ASSUME PcInv, NEW c \in Types, Command(c)
    PROVE  /\ PcTypeOK /\ dm.at = "serve" /\ Commanded /\ dm.cmd = c /\ Talk /\ Quiet
           /\ \E e \in Seq(Tokens) : /\ Reads(e) /\ Stage(e) /\ e # <<>> /\ e[1].t = c /\ Len(dm.msg) = Size(c)
                                     /\ \A i \in 1 .. Size(c) : dm.msg[i] = e[i]
  <1>1. PcTypeOK /\ dm.at = "serve" /\ dm.cmd = c /\ c \notin {"none", "FILE_END"} /\ Quiet
    BY DEF PcInv, Command, Types, Quiet
  <1>2. Commanded /\ Talk
    BY <1>1 DEF PcInv, Served, Waiting, Loading
  <1>3. PICK e \in Seq(Tokens) : Reads(e) /\ Stage(e)
    BY <1>2 DEF Talk
  <1>4. Len(dm.msg) = Size(c) /\ dm.msg[1].t = c /\ Size(c) \in Nat /\ Size(c) >= 1
    BY <1>1, <1>2, Sizes DEF Commanded, Size
  <1>5. Len(dm.msg) <= Len(e) /\ \A i \in 1 .. Len(dm.msg) : dm.msg[i] = e[i]
    BY <1>1, <1>3, MessageIsHead
  <1>6. e # <<>> /\ e[1].t = c
    <2>1. Len(e) >= 1
      BY <1>4, <1>5
    <2>2. e # <<>>
      BY <2>1
    <2>3. QED
      BY <1>4, <1>5, <2>2
  <1>7. QED
    BY <1>1, <1>2, <1>3, <1>4, <1>5, <1>6

LEMMA DoneWaits ==
    ASSUME PcTypeOK, Commanded, dm.at = "serve", Done, UNCHANGED <<img, buf>>
    PROVE  Waiting' /\ DmOK' /\ dm'.at = "serve" /\ dm'.msg = <<>>
  <1>1. dm' = [dm EXCEPT !.cmd = "none", !.k = 0, !.msg = <<>>]
    BY DEF Done
  <1>2. DmOK' /\ dm'.at = "serve" /\ dm'.msg = <<>> /\ dm'.cmd = "none" /\ dm'.k = 0 /\ dm'.rx = dm.rx /\ dm'.remaining = dm.remaining
    <2>1. DmOK /\ <<>> \in Seq(Tokens)
      BY DEF PcTypeOK
    <2>2. QED
      BY <1>1, <2>1 DEF DmOK
  <1>3. QED
    BY <1>2 DEF Waiting, Commanded, Quiet, HandleBufferDone

LEMMA OneAnswer == \A x : Append(<<>>, x) = <<x>> /\ Tail(<<x>>) = <<>>
  OBVIOUS

LEMMA CheckInterfaceKeeps == ASSUME PcInv, CheckInterface PROVE PcInv'
  <1>1. Command("CHECK_INTERFACE") /\ Done /\ ioTx' = Append(ioTx, Tok("INTERFACE", 1)) /\ UNCHANGED <<flash, img, buf, rxd, wire, dude>>
    BY DEF CheckInterface, fVars
  <1>2. PcTypeOK /\ dm.at = "serve" /\ Commanded /\ FingerprintMeansImage
    BY <1>1, CommandIsHead DEF Types, PcInv
  <1>3. PICK e \in Seq(Tokens) : Reads(e) /\ Stage(e) /\ e # <<>> /\ e[1].t = "CHECK_INTERFACE" /\ Len(dm.msg) = 2
    BY <1>1, CommandIsHead, Sizes DEF Types
  <1>4. Waiting' /\ DmOK' /\ dm'.at = "serve" /\ dm'.msg = <<>>
    BY <1>1, <1>2, DoneWaits
  <1>5. Talk'
    <2>1. CASE e = CheckOrder /\ PcAt("write", <<>>)
      <3>1. RestOf(<<>>, e, Len(dm.msg)) /\ <<>> \in Seq(Tokens)
        <4>1. e \in Seq(Tokens) /\ Len(dm.msg) = Len(e)
          BY <1>3, <2>1, PlainOrders
        <4>2. RestOf(<<>>, e, Len(e))
          BY <4>1, RestIsNothing
        <4>3. QED
          BY <4>1, <4>2
      <3>2. Reads(<<>>)'
        BY <1>1, <1>2, <1>3, <1>4, <3>1, MessageIsRead
      <3>3. Stage(<<>>)'
        <4>1. PcAt("write", <<Tok("INTERFACE", 1)>>)'
          BY <1>1, <2>1, OneAnswer DEF PcAt
        <4>2. QED
          BY <4>1 DEF Stage
      <3>4. QED
        BY <3>1, <3>2, <3>3 DEF Talk
    <2>2. CASE e = CheckOrder \o ReadOrder /\ PcAt("compare", <<>>)
      <3>1. RestOf(ReadOrder, e, Len(dm.msg)) /\ ReadOrder \in Seq(Tokens)
        BY <1>3, <2>2, RestOfConcat, PlainOrders
      <3>2. Reads(ReadOrder)'
        BY <1>1, <1>2, <1>3, <1>4, <3>1, MessageIsRead
      <3>3. Stage(ReadOrder)'
        <4>1. PcAt("compare", <<Tok("INTERFACE", 1)>>)'
          BY <1>1, <2>2, OneAnswer DEF PcAt
        <4>2. QED
          BY <4>1 DEF Stage
      <3>4. QED
        BY <3>1, <3>2, <3>3 DEF Talk
    <2>3. QED
      BY <1>3, <2>1, <2>2, StageHead
  <1>6. PcTypeOK'
    BY <1>1, <1>2, <1>4 DEF PcTypeOK, InstallerOK, DudeOK
  <1>7. QED
    BY <1>1, <1>2, <1>4, <1>5, <1>6 DEF PcInv, Served, FingerprintMeansImage

LEMMA ReadFingerprintKeeps == ASSUME PcInv, ReadFingerprint PROVE PcInv'
  <1> DEFINE s == [i \in 1 .. FpWords |-> Tok("FINGERPRINT", flash.fp[i])]
  <1>1. Command("READ_FINGERPRINT") /\ Done /\ ioTx' = ioTx \o s /\ UNCHANGED <<flash, img, buf, rxd, wire, dude>>
    BY DEF ReadFingerprint, fVars
  <1>2. PcTypeOK /\ dm.at = "serve" /\ Commanded /\ FingerprintMeansImage
    BY <1>1, CommandIsHead DEF Types, PcInv
  <1>3. PICK e \in Seq(Tokens) : Reads(e) /\ Stage(e) /\ e # <<>> /\ e[1].t = "READ_FINGERPRINT" /\ Len(dm.msg) = 1
    BY <1>1, CommandIsHead, Sizes DEF Types
  <1>4. Waiting' /\ DmOK' /\ dm'.at = "serve" /\ dm'.msg = <<>>
    BY <1>1, <1>2, DoneWaits
  <1>5. s \in Seq(Tokens)
    <2>1. FpWords \in Nat /\ \A i \in 1 .. FpWords : flash.fp[i] \in Int
      BY <1>2, IoioFileAssumption DEF PcTypeOK, InstallerOK, FlashOK
    <2>2. \A i \in 1 .. FpWords : Tok("FINGERPRINT", flash.fp[i]) \in Tokens
      BY <2>1, TokShape DEF TokTypes
    <2>3. QED
      BY <2>1, <2>2
  <1> HIDE DEF s
  <1>6. e = ReadOrder /\ PcAt("compare", <<Tok("INTERFACE", 1)>>)
    BY <1>3, StageHead
  <1>7. Talk'
    <2>1. RestOf(<<>>, e, Len(dm.msg)) /\ <<>> \in Seq(Tokens)
      <3>1. e \in Seq(Tokens) /\ Len(dm.msg) = Len(e)
        BY <1>3, <1>6, PlainOrders
      <3>2. RestOf(<<>>, e, Len(e))
        BY <3>1, RestIsNothing
      <3>3. QED
        BY <3>1, <3>2
    <2>2. Reads(<<>>)'
      BY <1>1, <1>2, <1>3, <1>4, <2>1, MessageIsRead
    <2>3. \E r \in Seq(Tokens) : PcAt("compare", <<Tok("INTERFACE", 1)>> \o r)'
      BY <1>1, <1>5, <1>6 DEF PcAt
    <2>4. Stage(<<>>)'
      BY <2>3 DEF Stage
    <2>5. QED
      BY <2>1, <2>2, <2>4 DEF Talk
  <1>8. PcTypeOK'
    BY <1>1, <1>2, <1>4 DEF PcTypeOK, InstallerOK, DudeOK
  <1>9. QED
    BY <1>1, <1>2, <1>4, <1>7, <1>8 DEF PcInv, Served, FingerprintMeansImage

LEMMA EraseFingerprintKeeps == ASSUME PcInv, EraseFingerprint PROVE PcInv'
  <1>1. Command("WRITE_FINGERPRINT") \/ Command("WRITE_IMAGE")
    BY DEF EraseFingerprint
  <1>2. PcTypeOK /\ dm.at = "serve" /\ Commanded /\ Talk /\ Quiet /\ dm.cmd \in {"WRITE_FINGERPRINT", "WRITE_IMAGE"}
    BY <1>1, CommandIsHead DEF Types
  <1>3. UNCHANGED <<img, buf, rxd, ioTx, wire, dude>> /\ FlashOK(flash) /\ DmOK /\ Means(flash) /\ FpWords \in Nat \ {0}
    BY <1>2, MeansIsMeans, IoioFileAssumption DEF EraseFingerprint, PcTypeOK, InstallerOK, PcInv
  <1>4. /\ FlashOK(flash') /\ flash'.app = flash.app
        /\ FpIs(flash', Erased) \/ (dm.cmd = "WRITE_FINGERPRINT" /\ Means(flash'))
        /\ \E k \in {1, 2}, t \in Int : dm' = [dm EXCEPT !.k = k, !.tun = t]
    <2>1. CASE dm.k = 0 /\ IsFingerprintErased /\ dm' = [dm EXCEPT !.k = 2] /\ UNCHANGED flash
      <3>1. dm' = [dm EXCEPT !.k = 2, !.tun = dm.tun] /\ dm.tun \in Int
        BY <1>3, <2>1 DEF DmOK
      <3>2. FpIs(flash', Erased)
        BY <2>1 DEF IsFingerprintErased, FpIs
      <3>3. QED
        BY <1>3, <2>1, <3>1, <3>2
    <2>2. CASE dm.k = 0 /\ flash' = EraseConfig(flash) /\ dm' = [dm EXCEPT !.k = 1, !.tun = flash.tun]
      <3>1. flash.tun \in Int
        BY <1>3 DEF FlashOK
      <3>2. QED
        BY <1>3, <2>2, <3>1, ConfigErased
    <2>3. CASE dm.k = 1 /\ flash' = [flash EXCEPT !.tun = dm.tun] /\ dm' = [dm EXCEPT !.k = 2]
      <3>1. dm' = [dm EXCEPT !.k = 2, !.tun = dm.tun] /\ dm.tun \in Int
        BY <1>3, <2>3 DEF DmOK
      <3>2. FlashOK(flash') /\ flash'.fp = flash.fp /\ flash'.app = flash.app /\ Means(flash')
        BY <1>3, <2>3, <3>1, TuningKeeps, SamePrint
      <3>3. dm.cmd = "WRITE_IMAGE" => FpIs(flash', Erased)
        BY <1>2, <2>3, <3>2 DEF Commanded, FpErased, FpIs
      <3>4. QED
        BY <1>2, <3>1, <3>2, <3>3
    <2>4. QED
      BY <2>1, <2>2, <2>3 DEF EraseFingerprint
  <1>5. Means(flash')
    BY <1>4, ErasedPrint
  <1>6. PICK k \in {1, 2}, t \in Int : dm' = [dm EXCEPT !.k = k, !.tun = t]
    BY <1>4
  <1>7. /\ DmOK' /\ dm'.at = dm.at /\ dm'.rx = dm.rx /\ dm'.remaining = dm.remaining /\ dm'.msg = dm.msg /\ dm'.cmd = dm.cmd
        /\ dm'.k = k
    <2>1. k \in Nat
      OBVIOUS
    <2>2. QED
      BY <1>3, <1>6, <2>1 DEF DmOK
  <1>8. Commanded'
    <2>1. dm.cmd = "WRITE_IMAGE" => FpErased'
      BY <1>4 DEF FpErased, FpIs
    <2>2. k <= 2 /\ k <= FpWords + 1
      BY <1>3
    <2>3. QED
      BY <1>2, <1>3, <1>7, <2>1, <2>2 DEF Commanded, Quiet, HandleBufferDone
  <1>9. Talk'
    <2>1. Unread' = Unread /\ flash'.app = flash.app
      BY <1>3, <1>4, <1>7 DEF Unread, Todo
    <2>2. QED
      BY <1>2, <1>3, <2>1, SameTalk
  <1>10. PcTypeOK'
    BY <1>2, <1>3, <1>4, <1>7 DEF PcTypeOK, InstallerOK, DudeOK
  <1>11. FingerprintMeansImage'
    BY <1>5 DEF FingerprintMeansImage, Means, FpIs, Whole
  <1>12. QED
    BY <1>2, <1>7, <1>8, <1>9, <1>10, <1>11 DEF PcInv, Served

LEMMA StartImageKeeps == ASSUME PcInv, StartImage PROVE PcInv'
  <1>1. /\ Command("WRITE_IMAGE") /\ dm.k = 2 /\ img' = Idle /\ UNCHANGED <<flash, buf, rxd, ioTx, wire, dude>>
        /\ dm' = [dm EXCEPT !.rx = "WAIT_FILE", !.remaining = dm.msg[2].n, !.sum = 0, !.cmd = "none", !.k = 0, !.msg = <<>>]
    BY DEF StartImage, IOIOFileInit
  <1>2. PcTypeOK /\ dm.at = "serve" /\ Commanded /\ Quiet /\ dm.cmd = "WRITE_IMAGE" /\ FingerprintMeansImage
    BY <1>1, CommandIsHead DEF Types, PcInv
  <1>3. PICK e \in Seq(Tokens) : Reads(e) /\ Stage(e) /\ e # <<>> /\ e[1].t = "WRITE_IMAGE" /\ Len(dm.msg) = 2 /\ dm.msg[2] = e[2]
    <2>1. Size("WRITE_IMAGE") = 2 /\ "WRITE_IMAGE" \in Types
      BY Sizes DEF Types
    <2>2. PICK e \in Seq(Tokens) : /\ Reads(e) /\ Stage(e) /\ e # <<>> /\ e[1].t = "WRITE_IMAGE" /\ Len(dm.msg) = Size("WRITE_IMAGE")
                                   /\ \A i \in 1 .. Size("WRITE_IMAGE") : dm.msg[i] = e[i]
      BY <1>1, <2>1, CommandIsHead
    <2>3. dm.msg[2] = e[2] /\ Len(dm.msg) = 2
      BY <2>1, <2>2
    <2>4. QED
      BY <2>2, <2>3
  <1>4. PICK v \in Versions : e = ImageOrder(v) /\ PcAt("checksum", <<>>) /\ (dude.at = "off" \/ dude.v = v)
    BY <1>3, StageHead
  <1> DEFINE F == ImageFile(v)
  <1>5. /\ F \in Seq(Tokens) /\ Len(F) \in Nat /\ Len(F) > 0 /\ e \in Seq(Tokens) /\ Len(e) = 2 + Len(F) /\ dm.msg[2].n = Len(F)
        /\ \A i \in 1 .. Len(F) : e[2 + i] = F[i]
    BY <1>3, <1>4, ImageOrderShape, FileShape
  <1> HIDE DEF F
  <1>6. DmOK' /\ dm'.at = "serve" /\ dm'.rx = "WAIT_FILE" /\ dm'.remaining = Len(F) /\ dm'.cmd = "none" /\ dm'.k = 0 /\ dm'.msg = <<>>
    <2>1. DmOK /\ <<>> \in Seq(Tokens)
      BY <1>2 DEF PcTypeOK
    <2>2. dm' = [dm EXCEPT !.rx = "WAIT_FILE", !.remaining = Len(F), !.sum = 0, !.cmd = "none", !.k = 0, !.msg = <<>>]
      BY <1>1, <1>5
    <2>3. QED
      BY <1>2, <1>5, <2>1, <2>2 DEF DmOK
  <1>7. RestOf(F, e, Len(dm.msg))
    BY <1>3, <1>5 DEF RestOf, PieceAt
  <1>8. Reads(F)'
    BY <1>1, <1>2, <1>3, <1>5, <1>6, <1>7, MessageIsRead
  <1>9. Unread' = Todo'
    <2>1. Todo \in Seq(Tokens) /\ Todo' = Todo
      BY <1>1, <1>2, UnreadShape DEF Todo
    <2>2. <<>> \o Todo = Todo
      BY <2>1, ConcatNothing
    <2>3. QED
      BY <1>6, <2>1, <2>2 DEF Unread
  <1>10. InHeader(img', v, 0)
    <2>1. Idle.state = "WAIT_HEADER" /\ Idle.buf = <<>> /\ Idle.remaining = 1 /\ Idle.last = NoAddress /\ ~Idle.due
      BY DEF Idle
    <2>2. PieceAt(<<>>, ImageFile(v), 0) /\ Len(<<>>) = 0
      BY <1>5 DEF PieceAt, F
    <2>3. QED
      BY <1>1, <2>1, <2>2 DEF InHeader
  <1>11. LoadingOf(v, 0)'
    <2>1. buf' = <<>> /\ Len(buf') = 0
      BY <1>1, <1>2 DEF Quiet, HandleBufferDone
    <2>2. PieceAt(buf', F, 0)
      BY <1>5, <2>1 DEF PieceAt
    <2>3. PieceAt(Todo', F, 0) /\ (dude'.at # "off" => Len(Todo') = Len(F))
      BY <1>8, <1>9 DEF Reads
    <2>4. dude'.at # "off" => dude'.v = v
      BY <1>1, <1>4
    <2>5. 0 + Len(buf') + dm'.remaining = Len(F) /\ (dm'.cmd = "FILE_END" <=> dm'.remaining = 0) /\ 0 + Len(buf') = 0
      BY <1>5, <1>6, <2>1
    <2>6. QED
      BY <1>6, <1>10, <2>2, <2>3, <2>4, <2>5 DEF LoadingOf, Installing, F
  <1>12. Loading'
    <2>1. FpErased'
      BY <1>1, <1>2 DEF Commanded, FpErased
    <2>2. 0 \in Nat /\ ~img'.failed /\ PcAt("checksum", <<>>)'
      BY <1>1, <1>4, Beginnings DEF PcAt
    <2>3. QED
      BY <1>6, <1>11, <2>1, <2>2 DEF Loading
  <1>13. PcTypeOK'
    BY <1>1, <1>2, <1>6, Beginnings DEF PcTypeOK, InstallerOK, DudeOK
  <1>14. QED
    BY <1>1, <1>2, <1>6, <1>12, <1>13 DEF PcInv, Served, FingerprintMeansImage

LEMMA WriteFingerprintKeeps == ASSUME PcInv, WriteFingerprint PROVE PcInv'
  <1> DEFINE i == dm.k - 1
  <1>1. /\ Command("WRITE_FINGERPRINT") /\ dm.k >= 2 /\ flash' = [flash EXCEPT !.fp[i] = Word(flash.fp[i], dm.msg[i + 1].n)]
        /\ (IF i = FpWords THEN Done ELSE dm' = [dm EXCEPT !.k = dm.k + 1]) /\ UNCHANGED <<img, buf, rxd, ioTx, wire, dude>>
    BY DEF WriteFingerprint
  <1>2. PcTypeOK /\ dm.at = "serve" /\ Commanded /\ Talk /\ dm.cmd = "WRITE_FINGERPRINT"
    BY <1>1, CommandIsHead DEF Types
  <1>3. FlashOK(flash) /\ DmOK /\ dm.k \in Nat /\ FpWords \in Nat \ {0} /\ dm.k <= FpWords + 1
    BY <1>1, <1>2, IoioFileAssumption DEF PcTypeOK, InstallerOK, DmOK, Commanded
  <1>4. i \in 1 .. FpWords /\ i + 1 \in 1 .. 1 + FpWords
    BY <1>1, <1>3
  <1>5. PICK e \in Seq(Tokens) : /\ Reads(e) /\ Stage(e) /\ e # <<>> /\ e[1].t = "WRITE_FINGERPRINT" /\ Len(dm.msg) = 1 + FpWords
                                 /\ \A j \in 1 .. 1 + FpWords : dm.msg[j] = e[j]
    <2>1. Size("WRITE_FINGERPRINT") = 1 + FpWords
      BY Sizes
    <2>2. QED
      BY <1>1, <2>1, CommandIsHead DEF Types
  <1>6. PICK v \in Versions : /\ Whole(flash, v)
                              /\ \/ e = PrintOrder(v) /\ dude.at \in {"off", "reset"}
                                 \/ e = PrintOrder(v) \o ResetOrder /\ dude.at \in {"off", "done"}
    BY <1>5, StageHead
  <1>7. PrintOrder(v) \in Seq(Tokens) /\ Len(PrintOrder(v)) = 1 + FpWords /\ PrintOrder(v)[i + 1].n = v /\ v \in Int
    BY <1>4, PrintOrderShape, FileShape
  <1> HIDE DEF i
  <1>8. dm.msg[i + 1].n = v
    <2>1. CASE e = PrintOrder(v)
      BY <1>4, <1>5, <1>7, <2>1
    <2>2. CASE e = PrintOrder(v) \o ResetOrder
      <3> DEFINE p == PrintOrder(v)
      <3>1. p \in Seq(Tokens) /\ ResetOrder \in Seq(Tokens) /\ i + 1 \in 1 .. Len(p)
        BY <1>4, <1>7, PlainOrders
      <3>2. (p \o ResetOrder)[i + 1] = p[i + 1]
        BY <3>1, ConcatShape
      <3>3. QED
        BY <1>4, <1>5, <1>7, <2>2, <3>2
    <2>3. QED
      BY <1>6, <2>1, <2>2
  <1>9. FlashOK(flash') /\ flash'.app = flash.app /\ flash'.fp[i] \in {v, Garbage}
    <2> DEFINE x == Word(flash.fp[i], v)  w == [flash.fp EXCEPT ![i] = x]
    <2>1. x \in {v, Garbage} /\ x \in Int
      BY <1>7 DEF Word, Garbage
    <2> HIDE DEF x
    <2>2. w \in [1 .. FpWords -> Int] /\ w[i] = x
      BY <1>3, <1>4, <2>1 DEF FlashOK
    <2>3. flash' = [flash EXCEPT !.fp = w]
      BY <1>1, <1>8 DEF x
    <2> HIDE DEF w
    <2>4. FlashOK(flash') /\ flash'.app = flash.app /\ flash'.fp = w
      BY <1>3, <2>2, <2>3 DEF FlashOK
    <2>5. QED
      BY <2>1, <2>2, <2>4
  <1>10. FingerprintMeansImage'
    <2>1. ASSUME NEW u \in Versions, FpIs(flash', u) PROVE Whole(flash', u)
      <3>1. u = v
        BY <1>4, <1>9, <2>1, NoVersion DEF FpIs
      <3>2. QED
        BY <1>6, <1>9, <3>1 DEF Whole
    <2>2. QED
      BY <2>1 DEF FingerprintMeansImage, FpIs, Whole
  <1>11. Whole(flash', v)
    BY <1>6, <1>9 DEF Whole
  <1>12. CASE i = FpWords
    <2>1. Waiting' /\ DmOK' /\ dm'.at = "serve" /\ dm'.msg = <<>>
      BY <1>1, <1>2, <1>12, DoneWaits
    <2>2. Talk'
      <3>1. CASE e = PrintOrder(v) /\ dude.at \in {"off", "reset"}
        <4>1. Len(dm.msg) = Len(e)
          BY <1>5, <1>7, <3>1
        <4>2. RestOf(<<>>, e, Len(e)) /\ <<>> \in Seq(Tokens)
          BY <1>5, RestIsNothing
        <4>3. RestOf(<<>>, e, Len(dm.msg))
          BY <4>1, <4>2
        <4>4. Reads(<<>>)'
          BY <1>1, <1>2, <1>5, <2>1, <4>2, <4>3, MessageIsRead
        <4>5. Stage(<<>>)'
          BY <1>1, <3>1 DEF Stage
        <4>6. QED
          BY <4>2, <4>4, <4>5 DEF Talk
      <3>2. CASE e = PrintOrder(v) \o ResetOrder /\ dude.at \in {"off", "done"}
        <4>1. ResetOrder \in Seq(Tokens)
          BY PlainOrders
        <4>2. RestOf(ResetOrder, e, Len(dm.msg))
          <5>1. RestOf(ResetOrder, PrintOrder(v) \o ResetOrder, Len(PrintOrder(v)))
            BY <1>7, <4>1, RestOfConcat
          <5>2. QED
            BY <1>5, <1>7, <3>2, <5>1
        <4>3. Reads(ResetOrder)'
          BY <1>1, <1>2, <1>5, <2>1, <4>1, <4>2, MessageIsRead
        <4>4. Stage(ResetOrder)'
          BY <1>1, <3>2 DEF Stage
        <4>5. QED
          BY <4>1, <4>3, <4>4 DEF Talk
      <3>3. QED
        BY <1>6, <3>1, <3>2
    <2>3. PcTypeOK'
      BY <1>1, <1>2, <1>9, <2>1 DEF PcTypeOK, InstallerOK, DudeOK
    <2>4. QED
      BY <1>10, <2>1, <2>2, <2>3 DEF PcInv, Served
  <1>13. CASE i # FpWords
    <2>1. dm' = [dm EXCEPT !.k = dm.k + 1] /\ dm.k + 1 \in Nat /\ dm.k + 1 <= FpWords + 1
      BY SMTT(30), <1>1, <1>3, <1>4, <1>13 DEF i
    <2>2. /\ DmOK' /\ dm'.at = dm.at /\ dm'.rx = dm.rx /\ dm'.remaining = dm.remaining /\ dm'.msg = dm.msg /\ dm'.cmd = dm.cmd
          /\ dm'.k = dm.k + 1
      BY <1>3, <2>1 DEF DmOK
    <2>3. Commanded'
      BY <1>1, <1>2, <2>1, <2>2 DEF Commanded, Quiet, HandleBufferDone
    <2>4. Talk'
      <3>1. Unread' = Unread
        BY <1>1, <2>2 DEF Unread, Todo
      <3>2. QED
        BY <1>1, <1>2, <1>9, <3>1, SameTalk
    <2>5. PcTypeOK'
      BY <1>1, <1>2, <1>9, <2>2 DEF PcTypeOK, InstallerOK, DudeOK
    <2>6. QED
      BY <1>2, <1>10, <2>2, <2>3, <2>4, <2>5 DEF PcInv, Served
  <1>14. QED
    BY <1>12, <1>13

-----------------------------------------------------------------------------
(* PcInv is kept: the PC.                                                  *)

\* A PC that is past the connection, or has been greeted, talks with the board.
LEMMA PcTalks ==
    ASSUME PcInv, dude.at # "off", dude.at # "connecting" \/ ioTx # <<>>, dude.at # "checksum" \/ ioTx # <<>>
    PROVE  PcTypeOK /\ dm.at = "serve" /\ (Waiting \/ Commanded) /\ Talk
  <1>1. dm.at = "serve"
    BY DEF PcInv, Offline
  <1>2. ~Loading
    BY DEF Loading, PcAt
  <1>3. QED
    BY <1>1, <1>2 DEF PcInv, Served

\* A step of the PC leaves the board alone.
LEMMA PcStep ==
    ASSUME PcTypeOK, FingerprintMeansImage, dm.at = "serve", Waiting \/ Commanded, DudeKeeps, wire' \in Seq(Tokens), DudeOK', Talk'
    PROVE  PcInv'
  <1>1. UNCHANGED <<flash, img, buf, dm, rxd>>
    BY DEF DudeKeeps, fVars
  <1>2. (Waiting \/ Commanded)'
    BY <1>1 DEF Waiting, Commanded, Quiet, HandleBufferDone, FpErased
  <1>3. PcTypeOK'
    BY <1>1 DEF PcTypeOK, InstallerOK, DmOK
  <1>4. QED
    BY <1>1, <1>2, <1>3 DEF PcInv, Served, FingerprintMeansImage

LEMMA DudeMoves ==
    ASSUME DudeOK, NEW x, dude' = [dude EXCEPT !.at = x] PROVE DudeOK' /\ dude'.at = x /\ dude'.v = dude.v
  BY DEF DudeOK

LEMMA DudeStartsKeeps == ASSUME PcInv, NEW force \in BOOLEAN, DudeStarts(force) PROVE PcInv'
  <1>1. /\ dude.at = "connecting" /\ ioTx # <<>> /\ ioTx' = Tail(ioTx) /\ DudeKeeps /\ UNCHANGED <<dm, rxd>>
        /\ dude' = [dude EXCEPT !.at = IF force THEN "write" ELSE "compare"]
        /\ wire' = wire \o CheckOrder \o IF force THEN <<>> ELSE ReadOrder
    BY DEF DudeStarts, Says, DudeKeeps, CheckOrder, ReadOrder
  <1>2. PcTypeOK /\ dm.at = "serve" /\ (Waiting \/ Commanded) /\ Talk /\ FingerprintMeansImage /\ wire \in Seq(Tokens) /\ DudeOK
    BY <1>1, PcTalks DEF PcInv, PcTypeOK
  <1>3. PICK e \in Seq(Tokens) : Reads(e) /\ Stage(e)
    BY <1>2 DEF Talk
  <1>4. e = <<>> /\ ioTx = <<Tok("ESTABLISH", 0)>>
    BY <1>1, <1>3 DEF Stage, PcAt
  <1>5. ioTx' = <<>>
    BY <1>1, <1>4, OneAnswer
  <1>6. DudeOK' /\ dude'.at = IF force THEN "write" ELSE "compare"
    BY <1>1, <1>2, DudeMoves
  <1> DEFINE x == IF force THEN CheckOrder ELSE CheckOrder \o ReadOrder
  <1>7. x \in Seq(Tokens) /\ wire' = wire \o x
    <2>1. CheckOrder \in Seq(Tokens) /\ ReadOrder \in Seq(Tokens)
      BY PlainOrders
    <2>2. CASE force
      <3>1. wire \o CheckOrder \in Seq(Tokens)
        BY <1>2, <2>1, ConcatShape
      <3>2. (wire \o CheckOrder) \o <<>> = wire \o CheckOrder
        BY <3>1, ConcatNothing
      <3>3. QED
        BY <1>1, <2>1, <2>2, <3>2
    <2>3. CASE ~force
      <3> DEFINE w == wire
      <3>1. w \in Seq(Tokens)
        BY <1>2
      <3> HIDE DEF w
      <3>2. (w \o CheckOrder) \o ReadOrder = w \o (CheckOrder \o ReadOrder) /\ CheckOrder \o ReadOrder \in Seq(Tokens)
        <4>1. (w \o CheckOrder) \o ReadOrder = w \o (CheckOrder \o ReadOrder)
          BY SMTT(30), <2>1, <3>1, ConcatGroups
        <4>2. CheckOrder \o ReadOrder \in Seq(Tokens)
          BY <2>1, ConcatShape
        <4>3. QED
          BY <4>1, <4>2
      <3>3. QED
        BY <1>1, <2>3, <3>2 DEF w
    <2>4. QED
      BY <2>2, <2>3
  <1> HIDE DEF x
  <1>8. Reads(<<>> \o x)' /\ wire' \in Seq(Tokens) /\ <<>> \o x = x
    <2>1. Reads(<<>> \o x)' /\ wire' \in Seq(Tokens)
      BY <1>1, <1>2, <1>3, <1>4, <1>7, MoreIsSent
    <2>2. QED
      BY <1>7, <2>1, ConcatNothing
  <1>9. Stage(x)'
    <2>1. CASE force
      BY <1>5, <1>6, <2>1 DEF x, Stage, PcAt
    <2>2. CASE ~force
      BY <1>5, <1>6, <2>2 DEF x, Stage, PcAt
    <2>3. QED
      BY <2>1, <2>2
  <1>10. Talk'
    BY <1>7, <1>8, <1>9 DEF Talk
  <1>11. QED
    BY <1>1, <1>2, <1>6, <1>8, <1>10, PcStep

LEMMA DudeComparesKeeps == ASSUME PcInv, DudeCompares PROVE PcInv'
  <1>1. /\ dude.at = "compare" /\ Len(ioTx) >= 1 + FpWords /\ ioTx' = SubSeq(ioTx, 1, 1) /\ DudeKeeps /\ UNCHANGED <<dm, rxd, wire>>
        /\ \E at \in {"reset", "write"} : dude' = [dude EXCEPT !.at = at]
    BY DEF DudeCompares, DudeKeeps
  <1>2. PcTypeOK /\ dm.at = "serve" /\ (Waiting \/ Commanded) /\ Talk /\ FingerprintMeansImage /\ wire \in Seq(Tokens) /\ DudeOK
    BY <1>1, PcTalks DEF PcInv, PcTypeOK
  <1>3. PICK e \in Seq(Tokens) : Reads(e) /\ Stage(e)
    BY <1>2 DEF Talk
  <1>4. FpWords \in Nat \ {0}
    BY IoioFileAssumption
  <1>5. e = <<>> /\ \E s \in Seq(Tokens) : ioTx = <<Tok("INTERFACE", 1)>> \o s
    <2>1. ioTx # <<>> /\ ioTx # <<Tok("INTERFACE", 1)>>
      <3>1. ioTx # <<>>
        <4>1. SUFFICES ASSUME ioTx = <<>> PROVE FALSE
          OBVIOUS
        <4>2. Len(ioTx) = 0
          BY <4>1
        <4>3. QED
          BY <1>1, <1>4, <4>2
      <3>2. ioTx # <<Tok("INTERFACE", 1)>>
        <4>1. SUFFICES ASSUME ioTx = <<Tok("INTERFACE", 1)>> PROVE FALSE
          OBVIOUS
        <4>2. Len(ioTx) = 1
          BY <4>1
        <4>3. QED
          BY <1>1, <1>4, <4>2
      <3>3. QED
        BY <3>1, <3>2
    <2>2. QED
      BY <1>1, <1>3, <2>1 DEF Stage, PcAt
  <1>6. ioTx' = <<Tok("INTERFACE", 1)>>
    <2>1. PICK s \in Seq(Tokens) : ioTx = <<Tok("INTERFACE", 1)>> \o s
      BY <1>5
    <2> DEFINE h == Tok("INTERFACE", 1)
    <2>2. h \in Tokens
      BY TokShape DEF TokTypes
    <2> HIDE DEF h
    <2>3. <<h>> \in Seq(Tokens) /\ Len(<<h>>) = 1 /\ <<h>>[1] = h
      BY <2>2
    <2>4. ioTx \in Seq(Tokens) /\ Len(ioTx) >= 1 /\ ioTx[1] = h
      <3> DEFINE g == <<h>>
      <3>1. g \in Seq(Tokens) /\ Len(g) = 1 /\ g[1] = h /\ ioTx = g \o s
        BY <2>1, <2>3 DEF h
      <3> HIDE DEF g
      <3>2. g \o s \in Seq(Tokens) /\ Len(g \o s) = Len(g) + Len(s) /\ \A i \in 1 .. Len(g) : (g \o s)[i] = g[i]
        BY <3>1, ConcatShape
      <3>3. QED
        BY <3>1, <3>2
    <2>5. SubSeq(ioTx, 1, 1) \in Seq(Tokens) /\ Len(SubSeq(ioTx, 1, 1)) = 1 /\ SubSeq(ioTx, 1, 1)[1] = h
      BY <2>4
    <2>6. SubSeq(ioTx, 1, 1) = <<h>>
      <3> DEFINE q == SubSeq(ioTx, 1, 1)  g == <<h>>
      <3>1. q \in Seq(Tokens) /\ g \in Seq(Tokens) /\ Len(q) = 1 /\ Len(g) = 1 /\ q[1] = g[1]
        BY <2>3, <2>5
      <3> HIDE DEF q, g
      <3>2. q = g
        BY <3>1
      <3>3. QED
        BY <3>2 DEF q, g
    <2>7. QED
      BY <1>1, <2>6 DEF h
  <1>7. PICK at \in {"reset", "write"} : dude' = [dude EXCEPT !.at = at]
    BY <1>1
  <1>8. DudeOK' /\ dude'.at = at
    BY <1>2, <1>7, DudeMoves
  <1>9. Reads(<<>>)'
    <2>1. Unread' = Unread
      BY <1>1 DEF Unread, Todo
    <2>2. QED
      BY <1>1, <1>3, <1>5, <2>1 DEF Reads
  <1>10. Stage(<<>>)'
    BY <1>6, <1>8 DEF Stage, PcAt
  <1>11. Talk'
    BY <1>5, <1>9, <1>10 DEF Talk
  <1>12. wire' \in Seq(Tokens)
    BY <1>1, <1>2
  <1>13. QED
    BY <1>1, <1>2, <1>8, <1>11, <1>12, PcStep

LEMMA WriteImageKeeps == ASSUME PcInv, writeImage PROVE PcInv'
  <1>0. PICK v \in Versions : v = dude.v
    BY DEF PcInv, PcTypeOK, DudeOK
  <1> DEFINE F == ImageFile(v)  h == <<Tok("WRITE_IMAGE", 0), Tok("size", Len(F))>>
  <1>1. /\ dude.at = "write" /\ ioTx # <<>> /\ ioTx' = Tail(ioTx) /\ DudeKeeps /\ UNCHANGED <<dm, rxd>>
        /\ wire' = wire \o h \o F /\ \E x : dude' = [dude EXCEPT !.at = "checksum", !.sum = x]
    <2> DEFINE y == Checksum(ImageFile(dude.v))
    <2>1. /\ dude.at = "write" /\ ioTx # <<>> /\ ioTx' = Tail(ioTx) /\ DudeKeeps /\ UNCHANGED <<dm, rxd>>
          /\ wire' = wire \o h \o F /\ dude' = [dude EXCEPT !.at = "checksum", !.sum = y]
      BY <1>0 DEF writeImage, Says, DudeKeeps
    <2> HIDE DEF y, h, F
    <2>2. QED
      BY <2>1
  <1>2. PcTypeOK /\ dm.at = "serve" /\ (Waiting \/ Commanded) /\ Talk /\ FingerprintMeansImage /\ wire \in Seq(Tokens) /\ DudeOK
    BY <1>1, PcTalks DEF PcInv, PcTypeOK
  <1>3. PICK e \in Seq(Tokens) : Reads(e) /\ Stage(e)
    BY <1>2 DEF Talk
  <1>4. e = <<>> /\ ioTx = <<Tok("INTERFACE", 1)>>
    BY <1>1, <1>3 DEF Stage, PcAt
  <1>5. ioTx' = <<>>
    BY <1>1, <1>4, OneAnswer
  <1>6. DudeOK' /\ dude'.at = "checksum" /\ dude'.v = v
    <2>1. PICK x : dude' = [dude EXCEPT !.at = "checksum", !.sum = x]
      BY <1>1
    <2>2. QED
      BY <1>0, <1>2, <2>1 DEF DudeOK
  <1>7. ImageOrder(v) \in Seq(Tokens) /\ wire' = wire \o ImageOrder(v)
    <2>1. F \in Seq(Tokens) /\ Len(F) \in Nat /\ ImageOrder(v) \in Seq(Tokens) /\ ImageOrder(v) = h \o F
      BY FileShape, ImageOrderShape DEF ImageOrder
    <2>2. h \in Seq(Tokens)
      <3> HIDE DEF F
      <3>1. Tok("WRITE_IMAGE", 0) \in Tokens /\ Tok("size", Len(F)) \in Tokens
        BY <2>1, TokShape DEF TokTypes
      <3>2. QED
        BY <3>1
    <2> DEFINE w == wire
    <2>3. w \in Seq(Tokens)
      BY <1>2
    <2> HIDE DEF w, h, F
    <2>4. (w \o h) \o F = w \o (h \o F)
      <3>1. w \in Seq(Tokens) /\ h \in Seq(Tokens) /\ F \in Seq(Tokens)
        BY <2>1, <2>2, <2>3
      <3>2. QED
        BY <3>1, ConcatGroups
    <2>5. QED
      BY <1>1, <2>1, <2>4 DEF w
  <1> HIDE DEF h, F
  <1>8. Reads(<<>> \o ImageOrder(v))' /\ wire' \in Seq(Tokens) /\ <<>> \o ImageOrder(v) = ImageOrder(v)
    <2> DEFINE x == ImageOrder(v)
    <2> HIDE DEF x
    <2>1. x \in Seq(Tokens) /\ wire' = wire \o x
      BY <1>7 DEF x
    <2>2. Reads(<<>> \o x)' /\ wire' \in Seq(Tokens)
      BY <1>1, <1>2, <1>3, <1>4, <2>1, MoreIsSent
    <2>3. <<>> \o x = x
      BY <2>1, ConcatNothing
    <2>4. QED
      BY <2>2, <2>3 DEF x
  <1>9. Stage(ImageOrder(v))'
    BY <1>5, <1>6 DEF Stage, PcAt
  <1>10. Talk'
    BY <1>7, <1>8, <1>9 DEF Talk
  <1>11. QED
    BY <1>1, <1>2, <1>6, <1>8, <1>10, PcStep

LEMMA ReadChecksumKeeps == ASSUME PcInv, readChecksum PROVE PcInv'
  <1>0. PICK v \in Versions : v = dude.v
    BY DEF PcInv, PcTypeOK, DudeOK
  <1>1. dude.at = "checksum" /\ ioTx # <<>> /\ DudeKeeps /\ UNCHANGED <<dm, rxd>>
    BY DEF readChecksum, Says, DudeKeeps
  <1>2. PcTypeOK /\ dm.at = "serve" /\ (Waiting \/ Commanded) /\ Talk /\ FingerprintMeansImage /\ wire \in Seq(Tokens) /\ DudeOK
    BY <1>1, PcTalks DEF PcInv, PcTypeOK
  <1>3. PICK e \in Seq(Tokens) : Reads(e) /\ Stage(e)
    BY <1>2 DEF Talk
  <1>4. e = <<>> /\ Whole(flash, v)
    BY <1>0, <1>1, <1>3 DEF Stage, PcAt
  <1>5. CASE Head(ioTx).n = dude.sum
    <2> DEFINE h == <<Tok("WRITE_FINGERPRINT", 0)>>  w == [i \in 1 .. FpWords |-> Tok("word", v)]
    <2>1. wire' = wire \o h \o w /\ dude' = [dude EXCEPT !.at = "reset"]
      BY <1>0, <1>5 DEF readChecksum
    <2>2. DudeOK' /\ dude'.at = "reset"
      BY <1>2, <2>1, DudeMoves
    <2>3. PrintOrder(v) \in Seq(Tokens) /\ wire' = wire \o PrintOrder(v)
      <3>1. FpWords \in Nat /\ v \in Int
        BY IoioFileAssumption, FileShape
      <3>2. Tok("WRITE_FINGERPRINT", 0) \in Tokens /\ Tok("word", v) \in Tokens
        BY <3>1, TokShape DEF TokTypes
      <3>3. h \in Seq(Tokens) /\ w \in Seq(Tokens)
        BY <3>1, <3>2
      <3>4. PrintOrder(v) \in Seq(Tokens) /\ PrintOrder(v) = h \o w
        BY PrintOrderShape DEF PrintOrder
      <3> DEFINE s == wire
      <3>5. s \in Seq(Tokens)
        BY <1>2
      <3> HIDE DEF s, h, w
      <3>6. (s \o h) \o w = s \o (h \o w)
        BY <3>3, <3>5, ConcatGroups
      <3>7. QED
        BY <2>1, <3>4, <3>6 DEF s
    <2> HIDE DEF h, w
    <2>4. Reads(<<>> \o PrintOrder(v))' /\ wire' \in Seq(Tokens) /\ <<>> \o PrintOrder(v) = PrintOrder(v)
      <3> DEFINE x == PrintOrder(v)
      <3> HIDE DEF x
      <3>1. x \in Seq(Tokens) /\ wire' = wire \o x
        BY <2>3 DEF x
      <3>2. Reads(<<>> \o x)' /\ wire' \in Seq(Tokens)
        BY <1>1, <1>2, <1>3, <1>4, <3>1, MoreIsSent
      <3>3. <<>> \o x = x
        BY <3>1, ConcatNothing
      <3>4. QED
        BY <3>2, <3>3 DEF x
    <2>5. Stage(PrintOrder(v))'
      <3>1. Whole(flash', v)
        BY <1>1, <1>4 DEF DudeKeeps, fVars
      <3>2. QED
        BY <2>2, <3>1 DEF Stage
    <2>6. Talk'
      BY <2>3, <2>4, <2>5 DEF Talk
    <2>7. QED
      BY <1>1, <1>2, <2>2, <2>4, <2>6, PcStep
  <1>6. CASE Head(ioTx).n # dude.sum
    <2>1. dude' = NoDude /\ UNCHANGED wire
      BY <1>6 DEF readChecksum
    <2>2. DudeOK' /\ dude'.at = "off"
      BY <2>1, Beginnings DEF DudeOK, NoDude
    <2>3. Reads(<<>>)'
      <3>1. Unread' = Unread
        BY <1>1, <2>1 DEF Unread, Todo
      <3>2. QED
        BY <1>3, <1>4, <2>2, <3>1 DEF Reads
    <2>4. Stage(<<>>)'
      BY <2>2 DEF Stage
    <2>5. Talk'
      BY <1>4, <2>3, <2>4 DEF Talk
    <2>6. wire' \in Seq(Tokens)
      BY <1>2, <2>1
    <2>7. QED
      BY <1>1, <1>2, <2>2, <2>5, <2>6, PcStep
  <1>7. QED
    BY <1>5, <1>6

LEMMA DudeResetsKeeps == ASSUME PcInv, hardReset PROVE PcInv'
  <1>1. /\ dude.at = "reset" /\ wire' = wire \o ResetOrder /\ dude' = [dude EXCEPT !.at = "done"]
        /\ DudeKeeps /\ UNCHANGED <<flash, dm, rxd, ioTx>>
    BY DEF hardReset, DudeKeeps, ResetOrder, fVars
  <1>2. PcTypeOK /\ dm.at = "serve" /\ (Waiting \/ Commanded) /\ Talk /\ FingerprintMeansImage /\ wire \in Seq(Tokens) /\ DudeOK
    BY <1>1, PcTalks DEF PcInv, PcTypeOK
  <1>3. PICK e \in Seq(Tokens) : Reads(e) /\ Stage(e)
    BY <1>2 DEF Talk
  <1>4. e = <<>> \/ \E v \in Versions : Whole(flash, v) /\ e = PrintOrder(v)
    BY <1>1, <1>3 DEF Stage, PcAt
  <1>5. DudeOK' /\ dude'.at = "done"
    BY <1>1, <1>2, DudeMoves
  <1>6. ResetOrder \in Seq(Tokens)
    BY PlainOrders
  <1>7. Reads(e \o ResetOrder)' /\ wire' \in Seq(Tokens) /\ e \o ResetOrder \in Seq(Tokens)
    BY <1>1, <1>2, <1>3, <1>6, MoreIsSent
  <1>8. Stage(e \o ResetOrder)'
    <2>1. CASE e = <<>>
      <3>1. e \o ResetOrder = ResetOrder
        BY <1>6, <2>1, ConcatNothing
      <3>2. QED
        BY <1>5, <3>1 DEF Stage
    <2>2. CASE \E v \in Versions : Whole(flash, v) /\ e = PrintOrder(v)
      <3>1. PICK v \in Versions : Whole(flash', v) /\ e = PrintOrder(v)
        BY <1>1, <2>2 DEF Whole
      <3>2. QED
        BY <1>5, <3>1 DEF Stage
    <2>3. QED
      BY <1>4, <2>1, <2>2
  <1>9. Talk'
    BY <1>7, <1>8 DEF Talk
  <1>10. QED
    BY <1>1, <1>2, <1>5, <1>7, <1>9, PcStep

LEMMA DudeLostKeeps == ASSUME PcInv, DudeLost PROVE PcInv'
  <1>1. dude.at # "off" /\ dude' = NoDude /\ wire' = <<>> /\ UNCHANGED <<flash, img, buf, dm, rxd, ioTx>>
    BY DEF DudeLost, fVars
  <1>2. PcTypeOK /\ rxd \in Seq(Tokens) /\ wire \in Seq(Tokens) /\ dm.msg \in Seq(Tokens)
    BY DEF PcInv, PcTypeOK, DmOK
  <1>3. DudeOK' /\ dude'.at = "off"
    BY <1>1, Beginnings DEF DudeOK, NoDude
  <1>4. PcTypeOK'
    <2>1. <<>> \in Seq(Tokens)
      OBVIOUS
    <2>2. QED
      BY <1>1, <1>2, <1>3, <2>1 DEF PcTypeOK, InstallerOK, DmOK
  <1>5. FingerprintMeansImage'
    BY <1>1 DEF PcInv, FingerprintMeansImage
  <1>6. Todo' = rxd /\ Todo = rxd \o wire
    BY <1>1, <1>2, ConcatNothing DEF Todo
  <1>7. CASE dm.at # "serve"
    <2>1. Offline'
      BY <1>1, <1>3, <1>7 DEF PcInv, Offline, Quiet, HandleBufferDone
    <2>2. QED
      BY <1>1, <1>4, <1>5, <1>7, <2>1 DEF PcInv
  <1>8. CASE dm.at = "serve" /\ (Waiting \/ Commanded) /\ Talk
    <2>1. (Waiting \/ Commanded)'
      BY <1>1, <1>8 DEF Waiting, Commanded, Quiet, HandleBufferDone, FpErased
    <2>2. PICK e \in Seq(Tokens) : Reads(e) /\ Stage(e)
      BY <1>8 DEF Talk
    <2>3. Reads(e)'
      <3> DEFINE m == dm.msg  r == rxd  w == wire  mr == m \o r
      <3>1. m \in Seq(Tokens) /\ r \in Seq(Tokens) /\ w \in Seq(Tokens) /\ Unread = m \o (r \o w) /\ Unread' = m \o r
        BY <1>1, <1>2, <1>6 DEF Unread
      <3> HIDE DEF m, r, w
      <3>2. m \o (r \o w) = mr \o w /\ mr \in Seq(Tokens)
        <4>1. m \in Seq(Tokens) /\ r \in Seq(Tokens) /\ w \in Seq(Tokens)
          BY <3>1
        <4>2. m \o (r \o w) = (m \o r) \o w
          BY SMTT(30), <4>1, ConcatGroups
        <4>3. m \o r \in Seq(Tokens)
          BY <4>1, ConcatShape
        <4>4. QED
          BY <4>2, <4>3
      <3>3. PieceAt(mr \o w, e, 0)
        BY <2>2, <3>1, <3>2 DEF Reads
      <3>4. PieceAt(mr, e, 0)
        <4> HIDE DEF mr
        <4>1. mr \in Seq(Tokens) /\ w \in Seq(Tokens) /\ PieceAt(mr \o w, e, 0)
          BY <3>1, <3>2, <3>3
        <4>2. QED
          BY <4>1, PieceSplit
      <3>5. QED
        BY <1>3, <3>1, <3>4 DEF Reads
    <2>4. Stage(e)'
      BY <1>1, <1>3, <2>2 DEF Stage, PcAt
    <2>5. Talk'
      BY <2>3, <2>4 DEF Talk
    <2>6. QED
      BY <1>1, <1>4, <1>5, <1>8, <2>1, <2>5 DEF PcInv, Served
  <1>9. CASE dm.at = "serve" /\ Loading
    <2>1. ASSUME NEW v \in Versions, NEW c \in Nat, LoadingOf(v, c) PROVE LoadingOf(v, c)'
      <3> DEFINE F == ImageFile(v)  k == c + Len(buf)  r == rxd  w == wire
      <3>1. F \in Seq(Tokens) /\ k \in Nat /\ r \in Seq(Tokens) /\ w \in Seq(Tokens) /\ PieceAt(r \o w, F, k)
        <4>1. Len(buf) \in Nat
          BY <1>2 DEF PcTypeOK, InstallerOK
        <4>2. QED
          BY <1>2, <1>6, <2>1, <4>1, FileShape DEF LoadingOf
      <3> HIDE DEF F, k, r, w
      <3>2. PieceAt(r, F, k)
        BY <3>1, PieceSplit
      <3>3. PieceAt(Todo', ImageFile(v), c + Len(buf))
        BY <1>6, <3>2 DEF F, k, r
      <3>4. QED
        BY <1>1, <1>3, <2>1, <3>3 DEF LoadingOf
    <2>2. Loading'
      BY <1>1, <1>3, <1>9, <2>1 DEF Loading, HandleBufferDone, FpErased, PcAt
    <2>3. QED
      BY <1>1, <1>4, <1>5, <1>9, <2>2 DEF PcInv, Served
  <1>10. QED
    BY <1>7, <1>8, <1>9 DEF PcInv, Served

-----------------------------------------------------------------------------
(* The theorems.                                                           *)

LEMMA PcInitHolds == ASSUME PcBootInit PROVE PcInv
  <1>1. /\ dm = DeviceBoot /\ rxd = <<>> /\ ioTx = <<>> /\ wire = <<>> /\ dude = NoDude /\ img = Idle /\ buf = <<>> /\ FlashInit(1)
    BY DEF PcBootInit
  <1>2. <<>> \in Seq(Tokens)
    OBVIOUS
  <1>3. DmOK /\ dm.at = "start" /\ dm.cmd = "none" /\ dm.k = 0
    BY <1>1, <1>2 DEF DmOK, DeviceBoot, Erased
  <1>4. DudeOK /\ dude.at = "off"
    BY <1>1, Beginnings DEF DudeOK, NoDude
  <1> DEFINE app == [b \in 0 .. NumBlocks - 1 |-> IF \E i \in DOMAIN Images[1] : Images[1][i] = b THEN 1 ELSE Erased]
             fp == [i \in 1 .. FpWords |-> 1]
  <1>5. flash = [app |-> app, fp |-> fp, tun |-> Erased]
    BY <1>1 DEF FlashInit
  <1>6. app \in [0 .. NumBlocks - 1 -> Int] /\ fp \in [1 .. FpWords -> Int] /\ Erased \in Int
    BY DEF Erased
  <1>7. \A i \in DOMAIN Images[1] : app[Images[1][i]] = 1
    <2> TAKE i \in DOMAIN Images[1]
    <2>1. Images[1] \in Seq(Nat) /\ Images[1][i] < NumBlocks /\ NumBlocks \in Nat
      BY IoioFileAssumption
    <2>2. Images[1][i] \in 0 .. NumBlocks - 1
      BY <2>1
    <2>3. QED
      BY <2>2
  <1>8. \A i \in 1 .. FpWords : fp[i] = 1
    OBVIOUS
  <1> HIDE DEF app, fp
  <1>9. FlashOK(flash) /\ flash.app = app /\ flash.fp = fp
    BY <1>5, <1>6 DEF FlashOK
  <1>10. Means(flash)
    <2>1. SUFFICES ASSUME NEW v \in Versions, FpIs(flash, v) PROVE Whole(flash, v)
      BY DEF Means
    <2>2. v = 1
      BY <1>8, <1>9, <2>1, NoVersion DEF FpIs
    <2>3. QED
      BY <1>7, <1>9, <2>2 DEF Whole
  <1>11. PcTypeOK /\ Offline
    BY <1>1, <1>2, <1>3, <1>4, <1>9, Beginnings DEF PcTypeOK, InstallerOK, Offline, Quiet, HandleBufferDone
  <1>12. QED
    BY <1>3, <1>10, <1>11, MeansIsMeans DEF PcInv

LEMMA PcStutters == ASSUME PcInv, UNCHANGED dVars PROVE PcInv'
  <1>1. UNCHANGED <<flash, img, buf, dm, rxd, ioTx, wire, dude>>
    BY DEF dVars, fVars
  <1>2. PcTypeOK' /\ FingerprintMeansImage'
    BY <1>1 DEF PcInv, PcTypeOK, InstallerOK, DmOK, DudeOK, FingerprintMeansImage
  <1>3. CASE dm.at # "serve"
    <2>1. Offline'
      BY <1>1, <1>3 DEF PcInv, Offline, Quiet, HandleBufferDone
    <2>2. QED
      BY <1>1, <1>2, <1>3, <2>1 DEF PcInv
  <1>4. CASE dm.at = "serve" /\ (Waiting \/ Commanded) /\ Talk
    <2>1. (Waiting \/ Commanded)'
      BY <1>1, <1>4 DEF Waiting, Commanded, Quiet, HandleBufferDone, FpErased
    <2>2. Talk'
      <3>1. Unread' = Unread
        BY <1>1 DEF Unread, Todo
      <3>2. QED
        BY <1>1, <1>4, <3>1, SameTalk
    <2>3. QED
      BY <1>1, <1>2, <1>4, <2>1, <2>2 DEF PcInv, Served
  <1>5. CASE dm.at = "serve" /\ Loading
    <2>1. Todo' = Todo
      BY <1>1 DEF Todo
    <2>2. Loading'
      BY <1>1, <1>5, <2>1 DEF Loading, LoadingOf, HandleBufferDone, FpErased, PcAt
    <2>3. QED
      BY <1>1, <1>2, <1>5, <2>2 DEF PcInv, Served
  <1>6. QED
    BY <1>3, <1>4, <1>5 DEF PcInv, Served

LEMMA PcNextKeeps == ASSUME PcInv, PcBootNext PROVE PcInv'
  BY MainStartKeeps, OscCalibrateKeeps, BootProtocolInitKeeps, ServeEndsKeeps, ReceiveKeeps, RxMessageKeeps, RxFileKeeps,
     RxImageKeeps, ErrorsKeep, FileEndsKeeps, HardResetKeeps, CheckInterfaceKeeps, ReadFingerprintKeeps, EraseFingerprintKeeps,
     StartImageKeeps, WriteFingerprintKeeps, DudeConnectsKeeps, DudeStartsKeeps, DudeComparesKeeps, WriteImageKeeps,
     ReadChecksumKeeps, DudeResetsKeeps, DudeLostKeeps, BoardRestartsKeeps DEF PcBootNext

\* PcInv, the inductive invariant of the bootloader and ioiodude.
THEOREM PcBootInvariant == PcBootSpec => []PcInv
  <1>1. PcBootInit => PcInv
    BY PcInitHolds
  <1>2. PcInv /\ [PcBootNext]_dVars => PcInv'
    BY PcNextKeeps, PcStutters
  <1>3. QED
    BY <1>1, <1>2, PTL DEF PcBootSpec

\* Whatever is lost, fails or loses power while ioiodude and device_bootloader write an image, a complete
\* fingerprint in the Flash is the one of the image that is there: the fingerprint is erased before the first
\* page, and written only after IOIOFileDone and the checksum.
THEOREM PcFingerprintMeansImage == PcBootSpec => []FingerprintMeansImage
  <1>1. PcInv => FingerprintMeansImage
    BY DEF PcInv
  <1>2. QED
    BY <1>1, PcBootInvariant, PTL

-----------------------------------------------------------------------------
(* The calibration.                                                        *)

\* While the calibration is neither in the Flash nor in the hands of EraseFingerprint, one tuning is still due.
TunInv ==
  /\ count \in [faults : Nat, tunings : Nat, erasures : Nat]
  /\ CalibrationKept
  /\ dm.k = 1 => flash.tun = Erased
  /\ flash.tun = Erased /\ (dm.k = 1 => dm.tun = Erased) => count.tunings <= count.faults + count.erasures

\* Only a command that writes has steps.
LEMMA StepsOfCommands == ASSUME PcInv, dm.k # 0 PROVE dm.at = "serve" /\ Commanded /\ dm.cmd \in {"WRITE_IMAGE", "WRITE_FINGERPRINT"}
  BY DEF PcInv, Offline, Served, Waiting, Commanded, Loading

\* A step that takes nothing from the page.
LEMMA TunStays ==
    ASSUME TunInv, flash'.tun = flash.tun, dm'.tun = dm.tun, dm'.k = dm.k \/ (dm.k # 1 /\ dm'.k # 1), UNCHANGED count
    PROVE  TunInv'
  BY DEF TunInv, CalibrationKept

\* A step that may take it, at the price of a fault.
LEMMA FaultPays ==
    ASSUME TunInv, dm'.k # 1 \/ (dm'.k = dm.k /\ flash' = flash), count' = [count EXCEPT !.faults = @ + 1] PROVE TunInv'
  <1>1. /\ count' \in [faults : Nat, tunings : Nat, erasures : Nat]
        /\ count'.faults = count.faults + 1 /\ count'.tunings = count.tunings /\ count'.erasures = count.erasures
    BY DEF TunInv
  <1>2. count'.tunings <= count'.faults + count'.erasures
    BY <1>1 DEF TunInv, CalibrationKept
  <1>3. QED
    BY <1>1, <1>2 DEF TunInv, CalibrationKept

LEMMA TunNextKeeps == ASSUME PcInv, TunInv, PcBootNext PROVE TunInv'
  <1>1. DmOK /\ FlashOK(flash) /\ PcTypeOK
    BY DEF PcInv, PcTypeOK, InstallerOK
  <1>2. ASSUME NEW b \in BOOLEAN, NEW p \in BOOLEAN, MainStart(b, p) PROVE TunInv'
    <2>1. dm.k = 0 /\ dm'.k = 0 /\ dm'.tun = dm.tun
      BY <1>1, <1>2, StepsOfCommands DEF MainStart, DmOK
    <2>2. CASE p
      <3>1. /\ count' \in [faults : Nat, tunings : Nat, erasures : Nat]
            /\ count'.faults = count.faults /\ count'.tunings = count.tunings /\ count'.erasures = count.erasures + 1
        BY <1>2, <2>2 DEF MainStart, TunInv
      <3>2. count'.tunings <= count'.faults + count'.erasures
        BY <3>1 DEF TunInv, CalibrationKept
      <3>3. QED
        BY <2>1, <3>1, <3>2 DEF TunInv, CalibrationKept
    <2>3. CASE ~p
      BY <1>2, <2>1, <2>3, TunStays DEF MainStart
    <2>4. QED
      BY <2>2, <2>3
  <1>3. CASE OscCalibrateCached
    <2>1. dm.k = 0 /\ dm'.k = 0 /\ dm'.tun = dm.tun
      BY <1>1, <1>3, StepsOfCommands DEF OscCalibrateCached, DmOK
    <2>2. CASE flash.tun = Erased
      <3>1. flash' = [flash EXCEPT !.tun = Tuned] /\ count' = [count EXCEPT !.tunings = @ + 1]
        BY <1>3, <2>2 DEF OscCalibrateCached, TunWritten
      <3>2. flash'.tun # Erased
        BY <1>1, <3>1 DEF FlashOK, Tuned, Erased
      <3>3. /\ count' \in [faults : Nat, tunings : Nat, erasures : Nat]
            /\ count'.faults = count.faults /\ count'.tunings = count.tunings + 1 /\ count'.erasures = count.erasures
        BY <3>1 DEF TunInv
      <3>4. count.tunings <= count.faults + count.erasures
        BY <2>1, <2>2 DEF TunInv
      <3>5. count'.tunings <= 1 + count'.faults + count'.erasures
        BY <3>3, <3>4 DEF TunInv
      <3>6. QED
        BY <2>1, <3>2, <3>3, <3>5 DEF TunInv, CalibrationKept
    <2>3. CASE flash.tun # Erased
      BY <1>3, <2>1, <2>3, TunStays DEF OscCalibrateCached
    <2>4. QED
      BY <2>2, <2>3
  <1>4. CASE BootProtocolInit
    BY <1>1, <1>4, TunStays DEF BootProtocolInit, fVars, DmOK
  <1>5. CASE ServeEnds
    <2>1. dm.k = 0
      BY <1>5, StepsOfCommands DEF ServeEnds
    <2>2. QED
      BY <1>1, <1>5, <2>1, TunStays DEF ServeEnds, Disconnected, fVars, DmOK
  <1>6. CASE \E n \in 1 .. MaxUsb : Receive(n)
    BY <1>6, TunStays DEF Receive, fVars
  <1>7. CASE RxMessage
    <2>1. dm'.k = dm.k /\ dm'.tun = dm.tun /\ UNCHANGED <<flash, count>>
      BY <1>1, <1>7 DEF RxMessage, DmOK, fVars
    <2>2. QED
      BY <2>1, TunStays
  <1>8. CASE RxFile
    <2>1. dm'.k = dm.k /\ dm'.tun = dm.tun /\ UNCHANGED <<flash, count>>
      BY <1>1, <1>8 DEF RxFile, DmOK
    <2>2. QED
      BY <2>1, TunStays
  <1>9. CASE RxImage
    <2>1. flash'.tun = flash.tun /\ UNCHANGED <<dm, count>>
      <3>1. CASE UNCHANGED flash
        BY <1>9, <3>1 DEF RxImage
      <3>2. CASE \E p : flash' = ErasedPage(flash, p)
        BY <1>1, <1>9, <3>2 DEF RxImage, ErasedPage, FlashOK
      <3>3. CASE \E b, v : flash' = WrittenBlock(flash, b, v)
        BY <1>1, <1>9, <3>3 DEF RxImage, WrittenBlock, FlashOK
      <3>4. QED
        BY <1>9, <3>1, <3>2, <3>3 DEF RxImage, HandleBuffer, CopyField, HeaderDone, BlockRefused, ErasePage, WriteBlock
    <2>2. QED
      BY <2>1, TunStays
  <1>10. CASE RxImageFailed
    <2>1. dm.k = 0
      BY <1>10, StepsOfCommands DEF RxImageFailed, Commanded, Quiet
    <2>2. QED
      BY <1>1, <1>10, <2>1, TunStays DEF RxImageFailed, ProtocolError, Disconnected, DmOK
  <1>11. CASE FileEnds
    <2>1. dm.k = 0
      BY <1>11, StepsOfCommands DEF FileEnds
    <2>2. dm'.k = 0 /\ dm'.tun = dm.tun /\ UNCHANGED <<flash, count>>
      BY <1>1, <1>11, <2>1 DEF FileEnds, ProtocolError, Disconnected, DmOK, fVars
    <2>3. QED
      BY <2>1, <2>2, TunStays
  <1>12. CASE HardReset
    <2>1. dm.k = 0 /\ dm'.k = 0 /\ UNCHANGED <<flash, count>>
      BY <1>12, StepsOfCommands, Beginnings DEF HardReset, Command
    <2>2. QED
      BY <2>1 DEF TunInv, CalibrationKept
  <1>13. CASE CheckInterface \/ ReadFingerprint
    <2>1. dm.k = 0
      BY <1>13, StepsOfCommands DEF CheckInterface, ReadFingerprint, Command
    <2>2. QED
      BY <1>1, <1>13, <2>1, TunStays DEF CheckInterface, ReadFingerprint, Done, DmOK, fVars
  <1>14. CASE EraseFingerprint
    <2>1. CASE dm.k = 0 /\ dm' = [dm EXCEPT !.k = 2] /\ UNCHANGED flash
      <3>1. dm'.k = 2 /\ dm'.tun = dm.tun /\ UNCHANGED count
        BY <1>1, <1>14, <2>1 DEF EraseFingerprint, DmOK
      <3>2. QED
        BY <2>1, <3>1, TunStays
    <2>2. CASE dm.k = 0 /\ flash' = EraseConfig(flash) /\ dm' = [dm EXCEPT !.k = 1, !.tun = flash.tun]
      <3>1. dm'.k = 1 /\ dm'.tun = flash.tun /\ UNCHANGED count
        BY <1>1, <1>14, <2>2 DEF EraseFingerprint, DmOK
      <3>2. flash'.tun = Erased
        BY <1>1, <2>2, ConfigErased
      <3>3. QED
        BY <2>2, <3>1, <3>2 DEF TunInv, CalibrationKept
    <2>3. CASE dm.k = 1 /\ flash' = [flash EXCEPT !.tun = dm.tun] /\ dm' = [dm EXCEPT !.k = 2]
      <3>1. dm'.k = 2 /\ UNCHANGED count /\ dm.tun \in Int
        BY <1>1, <1>14, <2>3 DEF EraseFingerprint, DmOK
      <3>2. flash'.tun = dm.tun
        BY <1>1, <2>3, <3>1, TuningKeeps
      <3>3. QED
        BY <2>3, <3>1, <3>2 DEF TunInv, CalibrationKept
    <2>4. QED
      BY <1>14, <2>1, <2>2, <2>3 DEF EraseFingerprint
  <1>15. CASE StartImage
    BY <1>1, <1>15, TunStays DEF StartImage, DmOK
  <1>16. CASE WriteFingerprint
    <2>1. dm.k # 1 /\ UNCHANGED count
      BY <1>16 DEF WriteFingerprint
    <2>2. dm'.k # 1 /\ dm'.tun = dm.tun
      <3>1. dm.k \in Nat /\ dm.k >= 2 /\ dm.k + 1 # 1 /\ dm.k + 1 \in Nat
        BY <1>1, <1>16 DEF WriteFingerprint, DmOK
      <3>2. CASE dm' = [dm EXCEPT !.cmd = "none", !.k = 0, !.msg = <<>>]
        BY <1>1, <3>2 DEF DmOK
      <3>3. CASE dm' = [dm EXCEPT !.k = dm.k + 1]
        BY <1>1, <3>1, <3>3 DEF DmOK
      <3>4. QED
        BY <1>16, <3>2, <3>3 DEF WriteFingerprint, Done
    <2>3. flash'.tun = flash.tun
      BY <1>1, <1>16 DEF WriteFingerprint, FlashOK
    <2>4. QED
      BY <2>1, <2>2, <2>3, TunStays
  <1>17. CASE FlashFails
    <2>1. dm'.k = 0
      BY <1>1, <1>17 DEF FlashFails, ProtocolError, Disconnected, DmOK
    <2>2. QED
      BY <1>17, <2>1, FaultPays DEF FlashFails
  <1>18. CASE \/ \E v \in PcVersions : DudeConnects(v)
              \/ \E f \in BOOLEAN : DudeStarts(f)
              \/ DudeCompares \/ writeImage \/ readChecksum \/ hardReset
    BY <1>18, TunStays DEF DudeConnects, DudeStarts, DudeCompares, writeImage, readChecksum, hardReset, DudeKeeps, fVars
  <1>19. CASE DudeLost
    BY <1>19, FaultPays DEF DudeLost, fVars
  <1>20. CASE BoardRestarts
    <2>1. dm'.k = 0
      BY <1>20, Beginnings DEF BoardRestarts
    <2>2. CASE dm.at = "app" /\ UNCHANGED <<flash, count>>
      <3>1. dm.k = 0
        BY <2>2, StepsOfCommands
      <3>2. QED
        BY <2>1, <2>2, <3>1 DEF TunInv, CalibrationKept
    <2>3. CASE count' = [count EXCEPT !.faults = @ + 1]
      BY <2>1, <2>3, FaultPays
    <2>4. QED
      BY <1>20, <2>2, <2>3 DEF BoardRestarts
  <1>21. QED
    BY <1>2, <1>3, <1>4, <1>5, <1>6, <1>7, <1>8, <1>9, <1>10, <1>11, <1>12, <1>13, <1>14, <1>15, <1>16, <1>17, <1>18, <1>19, <1>20
    DEF PcBootNext

\* EraseFingerprint rewrites OSCTUN: the oscillator is calibrated again only after a fault while the
\* configuration page is rewritten, or when pin 1 asks for it.
THEOREM PcCalibrationKept == PcBootSpec => []CalibrationKept
  <1>1. PcBootInit => TunInv
    BY DEF PcBootInit, TunInv, CalibrationKept, DeviceBoot, FlashInit, Erased
  <1>2. PcInv /\ TunInv /\ [PcBootNext]_dVars => TunInv'
    BY TunNextKeeps DEF dVars, fVars, TunInv, CalibrationKept
  <1>3. TunInv => CalibrationKept
    BY DEF TunInv
  <1>4. QED
    BY <1>1, <1>2, <1>3, PcBootInvariant, PTL DEF PcBootSpec
=============================================================================
