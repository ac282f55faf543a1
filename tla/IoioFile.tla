------------------------------ MODULE IoioFile ------------------------------
(***************************************************************************)
(* Program memory, and the installer of application images that both       *)
(* bootloaders use (ioio_file.c).  A file is a header and blocks, each an  *)
(* address and its code; it arrives in buffers cut anywhere.  A buffer is  *)
(* handled in steps, one per operation on the Flash, because the power may *)
(* fail between any two of them.                                           *)
(***************************************************************************)
EXTENDS Integers, Sequences, FiniteSetsExt

CONSTANTS Images,         \* the images there are: a function from versions to sequences of blocks
          NumBlocks,      \* blocks of application space
          BlocksPerPage,
          FpWords         \* words of a fingerprint (8)

ASSUME IoioFileAssumption ==
  /\ {NumBlocks, BlocksPerPage, FpWords} \subseteq Nat \ {0}
  /\ DOMAIN Images \subseteq Nat \ {0} /\ \A v \in DOMAIN Images : Images[v] \in Seq(Nat)
  \* The board is delivered with image 1.
  /\ 1 \in DOMAIN Images /\ \A i \in DOMAIN Images[1] : Images[1][i] < NumBlocks

VARIABLES flash,  \* the application, the fingerprint and the value for OSCTUN
          img,    \* the static variables of ioio_file.c; due: a field is complete
          buf     \* what IOIOFileHandleBuffer has still to copy

fVars == <<flash, img, buf>>

Versions == DOMAIN Images
Erased == 0
Garbage == -1
Tok(t, n) == [t |-> t, n |-> n]

\* Image v as a file.
ImageFile(v) ==
  <<Tok("IOIO", 0)>> \o [i \in 1 .. 2 * Len(Images[v]) |->
     IF i % 2 = 1 THEN Tok("addr", Images[v][(i + 1) \div 2]) ELSE Tok("code", v)]

NoAddress == -1
Idle == [state |-> "WAIT_HEADER", buf |-> <<>>, remaining |-> 1, last |-> NoAddress, due |-> FALSE, failed |-> FALSE]
PageOf(a) == (a \div BlocksPerPage) * BlocksPerPage

\* FlashErasePage, FlashWriteDWORD and FlashWriteBlock: writing only clears bits.
ErasedPage(f, p) == [f EXCEPT !.app = [b \in DOMAIN @ |-> IF PageOf(b) = p THEN Erased ELSE @[b]]]
Word(w, v) == IF w \in {Erased, v} THEN v ELSE Garbage
WrittenBlock(f, b, v) == [f EXCEPT !.app[b] = Word(@, v)]

IOIOFileInit == img' = Idle

-----------------------------------------------------------------------------
(* IOIOFileHandleBuffer.                                                   *)

\* One turn of the loop up to IOIOFileBlockDone.  After a failure remaining is still 0.
CopyField ==
  /\ ~img.due /\ buf # <<>>
  /\ LET n == Min({img.remaining, Len(buf)}) IN
       /\ img' = [img EXCEPT !.buf = @ \o SubSeq(buf, 1, n), !.remaining = @ - n, !.due = img.remaining = n]
       /\ buf' = SubSeq(buf, n + 1, Len(buf))
  /\ UNCHANGED flash

BlockFailed == img' = [img EXCEPT !.due = FALSE, !.failed = TRUE] /\ buf' = <<>>
NextField == [img EXCEPT !.state = "WAIT_BLOCK", !.buf = <<>>, !.remaining = 2, !.due = FALSE]

HeaderDone ==
  /\ img.due /\ img.state = "WAIT_HEADER"
  /\ IF img.buf[1].t = "IOIO" THEN img' = NextField /\ UNCHANGED buf ELSE BlockFailed
  /\ UNCHANGED flash

Address == img.buf[1].n
AddressRefused ==
  \/ img.buf[1].t # "addr" \/ Address \notin 0 .. NumBlocks - 1
  \/ img.last # NoAddress /\ Address < img.last

BlockRefused ==
  /\ img.due /\ img.state = "WAIT_BLOCK" /\ AddressRefused
  /\ BlockFailed /\ UNCHANGED flash

ErasePage(fails) ==
  /\ img.due /\ img.state = "WAIT_BLOCK" /\ ~AddressRefused /\ PageOf(Address) # img.last
  /\ \/ flash' = ErasedPage(flash, PageOf(Address)) /\ img' = [img EXCEPT !.last = PageOf(Address)] /\ UNCHANGED buf
     \/ fails /\ BlockFailed /\ UNCHANGED flash

WriteBlock(fails) ==
  /\ img.due /\ img.state = "WAIT_BLOCK" /\ ~AddressRefused /\ PageOf(Address) = img.last
  /\ \/ flash' = WrittenBlock(flash, Address, img.buf[2].n) /\ img' = NextField /\ UNCHANGED buf
     \/ fails /\ BlockFailed /\ UNCHANGED flash

\* fails: whether the Flash may fail.
HandleBuffer(fails) == CopyField \/ HeaderDone \/ BlockRefused \/ ErasePage(fails) \/ WriteBlock(fails)
HandleBufferDone == ~img.due /\ buf = <<>>

IOIOFileDone == img.state = "WAIT_BLOCK" /\ img.remaining = 2

-----------------------------------------------------------------------------
(* Power failure: what the operation in progress leaves in the Flash.      *)

InterruptedImage ==
  {flash} \cup
  (IF ~(img.due /\ img.state = "WAIT_BLOCK") \/ AddressRefused THEN {}
   ELSE IF PageOf(Address) = img.last THEN {WrittenBlock(flash, Address, Garbage)}
   ELSE {[flash EXCEPT !.app = [b \in DOMAIN @ |-> IF PageOf(b) = PageOf(Address) THEN Garbage ELSE @[b]]]})

FlashInit(v) ==
  flash = [app |-> [b \in 0 .. NumBlocks - 1 |-> IF \E i \in DOMAIN Images[v] : Images[v][i] = b THEN v ELSE Erased],
           fp |-> [i \in 1 .. FpWords |-> v], tun |-> Erased]

\* A fingerprint in the Flash means that the image it was computed from is there, whole:
\* what ValidateFingerprint and ioiodude rely on when they skip the download.
FingerprintMeansImage ==
  \A v \in Versions : (\A i \in 1 .. FpWords : flash.fp[i] = v) =>
                        \A i \in DOMAIN Images[v] : flash.app[Images[v][i]] = v
=============================================================================
