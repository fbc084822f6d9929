-------------------------- MODULE PrivSoundInProofs --------------------------
(***************************************************************************)
(* The input ring of private sound, for every size of the ring, of an      *)
(* update and of a read.  InRingInv is inductive: the driver writes only   *)
(* to slots that QEMU does not read, and what is between the pointers is   *)
(* the key stream from where QEMU is to where the kernel is.               *)
(***************************************************************************)
EXTENDS PrivSoundIn, Integers, SequenceTheorems, TLAPS

\* The frames between the two pointers, and how far a slot is from ifptr.
Filled == IF iwptr >= ifptr THEN iwptr - ifptr ELSE N - ifptr + iwptr
Ahead(s) == IF s >= ifptr THEN s - ifptr ELSE N - ifptr + s

Cipher(n) == [kind |-> "cipher", n |-> n]

\* Frames that QEMU has read and ifptr has passed, and those that the driver has
\* encrypted and not published.
Passed == IF rpc \in {"copy2", "advance2"} THEN fetch1
          ELSE IF rpc = "decrypt" THEN fetch1 + fetch2 ELSE 0
Pending == IF wpc = "publish" THEN avail1 ELSE IF wpc = "publish2" THEN avail2 ELSE 0

\* The pieces of the key stream before slot ifptr, and before slot iwptr.
Base == upos + Passed
Published == kpos - Pending

\* The update fits behind what is in the ring, also after QEMU has moved ifptr.
RoomInv ==
    /\ wpc \in {"copy", "publish"} =>
           /\ 0 < avail1 /\ iwptr + avail1 <= N
           /\ avail1 + avail2 <= N - 1 - Filled
           /\ avail2 > 0 => iwptr + avail1 = N
    /\ wpc \in {"copy2", "publish2"} => iwptr = 0 /\ 0 < avail2 /\ avail2 <= N - 1 - Filled
    /\ wpc = "copy" => kpos + avail1 + avail2 <= MaxFrames
    /\ wpc \in {"publish", "copy2"} => kpos + avail2 <= MaxFrames

\* The read takes no more than is in the ring, also after the driver has added to
\* it; its second part starts at the start of the ring.
FetchInv ==
    /\ rpc \in {"copy", "advance"} =>
           /\ ifptr + fetch1 <= N /\ fetch1 <= Filled
           /\ fetch2 > 0 => N - ifptr + fetch2 <= Filled
    /\ rpc = "copy" => fetch1 <= rest /\ (fetch2 > 0 => ifptr + fetch1 = N \/ fetch1 = rest)
    /\ rpc = "advance" /\ fetch2 > 0 => ifptr + fetch1 = N \/ rest = 0
    /\ rpc \in {"copy2", "advance2"} => ifptr = 0 /\ 0 < fetch2 /\ fetch2 <= Filled
    /\ rpc \in {"advance", "copy2"} => Len(buf) = fetch1
    /\ rpc \in {"advance2", "decrypt"} => Len(buf) = fetch1 + fetch2
    /\ rpc \in {"none", "dead", "idle", "copy"} => buf = <<>>

\* As long as QEMU has its context, the kernel's counter is ahead of its own by what
\* is in the ring, in the update and in the read.
CountInv ==
    /\ in_cctx <=> rpc \notin {"none", "dead"}
    /\ rpc = "none" => wpc = "idle"
    /\ in_cctx => Published = Base + Filled

\* What is between the pointers is the key stream, in order; what was encrypted
\* and not published is its continuation.
ContentInv ==
    in_cctx =>
        /\ \A s \in Slot : Ahead(s) < Filled => ibuffer[s] = Cipher(Base + Ahead(s) + 1)
        /\ \A s \in Slot : iwptr <= s /\ s < iwptr + Pending =>
               ibuffer[s] = Cipher(Published + 1 + (s - iwptr))

BufInv == \A i \in 1 .. Len(buf) : buf[i] = Cipher(upos + i)

InRingInv == InTypeOK /\ RoomInv /\ FetchInv /\ CountInv /\ ContentInv /\ BufInv

-----------------------------------------------------------------------------
USE DEF Slot

\* A pointer that reached the end of the ring goes back to its start (the %= of
\* privsound_encrypt_input and bin_read).
LEMMA WrapModulo ==
    ASSUME NEW a \in 0 .. N
    PROVE  a % N = IF a = N THEN 0 ELSE a
BY SoundInAssumption

\* The frames of the model are frames.
LEMMA Frames ==
    /\ Junk \in Frame
    /\ \A n \in 0 .. MaxFrames :
           /\ Cipher(n) \in Frame /\ Cipher(n).kind = "cipher" /\ Cipher(n).n = n
           /\ [kind |-> "cipher", n |-> n] = Cipher(n)
           /\ [kind |-> "plain", n |-> 0] \in Frame
BY SoundInAssumption DEF Frame, Junk, Cipher

\* What bin_read copies: the next n frames of the ring, and of the key stream.
LEMMA FetchedFrames ==
    ASSUME InTypeOK, NEW n \in Nat, ifptr + n <= N
    PROVE  /\ Fetched(n) \in Seq(Frame) /\ Len(Fetched(n)) = n
           /\ \A i \in 1 .. n : Fetched(n)[i] = ibuffer[ifptr + i - 1]
           /\ InRingInv /\ in_cctx /\ n <= Filled =>
                  \A i \in 1 .. n : Fetched(n)[i] = Cipher(Base + i)
<1>1. \A i \in 1 .. n : ifptr + i - 1 \in Slot
  BY SoundInAssumption DEF InTypeOK
<1>2. Fetched(n) \in [1 .. n -> Frame]
  BY <1>1 DEF InTypeOK, Fetched
<1>3. Fetched(n) \in Seq(Frame) /\ Len(Fetched(n)) = n
  BY <1>2
<1>4. \A i \in 1 .. n : Fetched(n)[i] = ibuffer[ifptr + i - 1]
  BY DEF Fetched
<1>5. ASSUME InRingInv, in_cctx, n <= Filled, NEW i \in 1 .. n
      PROVE  Fetched(n)[i] = Cipher(Base + i)
  <2>1. Ahead(ifptr + i - 1) = i - 1 /\ i - 1 < Filled
    BY <1>5, SoundInAssumption DEF InTypeOK, Ahead, Filled
  <2>2. Base \in Int
    BY DEF InTypeOK, Base, Passed
  <2>3. Base + Ahead(ifptr + i - 1) + 1 = Base + i
    BY <2>1, <2>2
  <2> QED BY <1>1, <1>4, <1>5, <2>1, <2>3 DEF InRingInv, ContentInv
<1> QED BY <1>3, <1>4, <1>5

\* The invariant holds before the first channel is registered.
LEMMA InRingInit == InInit => InRingInv
<1> SUFFICES ASSUME InInit PROVE InRingInv
  OBVIOUS
<1> USE SoundInAssumption DEF InInit
<1>1. InTypeOK
  <2>1. ibuffer \in [Slot -> Frame]
    BY Frames
  <2>2. buf \in Seq(Frame)
    OBVIOUS
  <2> QED BY <2>1, <2>2 DEF InTypeOK
<1>2. RoomInv /\ FetchInv /\ CountInv /\ ContentInv /\ BufInv
  BY DEF RoomInv, FetchInv, CountInv, ContentInv, BufInv, Filled
<1> QED BY <1>1, <1>2 DEF InRingInv

\* A new channel starts empty.
LEMMA RegisterInStep ==
    ASSUME InRingInv, RegisterIn
    PROVE  InRingInv'
<1> USE SoundInAssumption DEF InRingInv, RegisterIn, driverVars, userVars
<1>1. InTypeOK'
  BY Frames DEF InTypeOK, RoomInv, FetchInv, Filled, Lesser
<1>2. RoomInv'
  BY DEF InTypeOK, RoomInv, FetchInv, CountInv, Filled, Lesser
<1>3. FetchInv'
  BY DEF InTypeOK, RoomInv, FetchInv, CountInv, Filled, Lesser
<1>4. CountInv'
  BY DEF InTypeOK, RoomInv, FetchInv, CountInv, Filled, Published, Base, Passed, Pending
<1>5. ContentInv'
  BY Frames DEF InTypeOK, RoomInv, FetchInv, CountInv, ContentInv, Filled, Published, Base, Passed, Pending, Ahead
<1>6. BufInv'
  BY DEF InTypeOK, BufInv, FetchInv
<1> QED BY <1>1, <1>2, <1>3, <1>4, <1>5, <1>6

\* Switching the input on and off leaves the ring alone.
LEMMA EnableInputStep ==
    ASSUME InRingInv, NEW on \in BOOLEAN, EnableInput(on)
    PROVE  InRingInv'
<1> USE SoundInAssumption DEF InRingInv, EnableInput, driverVars, userVars
<1>1. InTypeOK'
  BY Frames DEF InTypeOK, RoomInv, FetchInv, Filled, Lesser
<1>2. RoomInv'
  BY DEF InTypeOK, RoomInv, FetchInv, CountInv, Filled, Lesser
<1>3. FetchInv'
  BY DEF InTypeOK, RoomInv, FetchInv, CountInv, Filled, Lesser
<1>4. CountInv'
  BY DEF InTypeOK, RoomInv, FetchInv, CountInv, Filled, Published, Base, Passed, Pending
<1>5. ContentInv'
  BY Frames DEF InTypeOK, RoomInv, FetchInv, CountInv, ContentInv, Filled, Published, Base, Passed, Pending, Ahead
<1>6. BufInv'
  BY DEF InTypeOK, BufInv, FetchInv
<1> QED BY <1>1, <1>2, <1>3, <1>4, <1>5, <1>6

\* When QEMU dies nothing is promised of the ring any
\* more, except where it is written.
LEMMA DieInStep ==
    ASSUME InRingInv, DieIn
    PROVE  InRingInv'
<1> USE SoundInAssumption DEF InRingInv, DieIn, driverVars, userVars
<1>1. InTypeOK'
  BY Frames DEF InTypeOK, RoomInv, FetchInv, Filled, Lesser
<1>2. RoomInv'
  BY DEF InTypeOK, RoomInv, FetchInv, CountInv, Filled, Lesser
<1>3. FetchInv'
  BY DEF InTypeOK, RoomInv, FetchInv, CountInv, Filled, Lesser
<1>4. CountInv'
  BY DEF InTypeOK, RoomInv, FetchInv, CountInv, Filled, Published, Base, Passed, Pending
<1>5. ContentInv'
  BY Frames DEF InTypeOK, RoomInv, FetchInv, CountInv, ContentInv, Filled, Published, Base, Passed, Pending, Ahead
<1>6. BufInv'
  BY DEF InTypeOK, BufInv, FetchInv
<1> QED BY <1>1, <1>2, <1>3, <1>4, <1>5, <1>6

\* The channel is removed while no update is under way.
LEMMA RemoveInStep ==
    ASSUME InRingInv, RemoveIn
    PROVE  InRingInv'
<1> USE SoundInAssumption DEF InRingInv, RemoveIn, driverVars, userVars
<1>1. InTypeOK'
  BY Frames DEF InTypeOK, RoomInv, FetchInv, Filled, Lesser
<1>2. RoomInv'
  BY DEF InTypeOK, RoomInv, FetchInv, CountInv, Filled, Lesser
<1>3. FetchInv'
  BY DEF InTypeOK, RoomInv, FetchInv, CountInv, Filled, Lesser
<1>4. CountInv'
  BY DEF InTypeOK, RoomInv, FetchInv, CountInv, Filled, Published, Base, Passed, Pending
<1>5. ContentInv'
  BY Frames DEF InTypeOK, RoomInv, FetchInv, CountInv, ContentInv, Filled, Published, Base, Passed, Pending, Ahead
<1>6. BufInv'
  BY DEF InTypeOK, BufInv, FetchInv
<1> QED BY <1>1, <1>2, <1>3, <1>4, <1>5, <1>6

\* The room computed from the two pointers is there for the whole update.
LEMMA CaptureStep ==
    ASSUME InRingInv, NEW len \in 1 .. MaxLen, Capture(len)
    PROVE  InRingInv'
<1> USE SoundInAssumption DEF InRingInv, Capture, driverVars, userVars
<1>1. InTypeOK'
  BY Frames DEF InTypeOK, RoomInv, FetchInv, Filled, Lesser
<1>2. RoomInv'
  BY SMTT(30) DEF InTypeOK, RoomInv, FetchInv, CountInv, Filled, Lesser
<1>3. FetchInv'
  BY DEF InTypeOK, RoomInv, FetchInv, CountInv, Filled, Lesser
<1>4. CountInv'
  BY DEF InTypeOK, RoomInv, FetchInv, CountInv, Filled, Published, Base, Passed, Pending
<1>5. ContentInv'
  BY Frames DEF InTypeOK, RoomInv, FetchInv, CountInv, ContentInv, Filled, Published, Base, Passed, Pending, Ahead
<1>6. BufInv'
  BY DEF InTypeOK, BufInv, FetchInv
<1> QED BY <1>1, <1>2, <1>3, <1>4, <1>5, <1>6

\* The first part goes to slots that QEMU does not read.
LEMMA CaptureCopyStep ==
    ASSUME InRingInv, CaptureCopy
    PROVE  InRingInv'
<1> USE SoundInAssumption DEF InRingInv, CaptureCopy, EncryptAt, driverVars, userVars
<1>1. InTypeOK'
  <2>1. ibuffer' \in [Slot -> Frame]
    <3>1. \A s \in Slot : s \in iwptr .. iwptr + avail1 - 1 =>
             kpos + 1 + (s - iwptr) \in 0 .. MaxFrames
      BY DEF InTypeOK, RoomInv
    <3>2. ASSUME NEW s \in Slot, s \in iwptr .. iwptr + avail1 - 1, in_cctx
          PROVE  ibuffer'[s] \in Frame
      BY <3>1, <3>2, Frames
    <3>3. ASSUME NEW s \in Slot, s \in iwptr .. iwptr + avail1 - 1, ~in_cctx
          PROVE  ibuffer'[s] \in Frame
      BY <3>3, Frames
    <3>4. ASSUME NEW s \in Slot, s \notin iwptr .. iwptr + avail1 - 1
          PROVE  ibuffer'[s] \in Frame
      BY <3>4 DEF InTypeOK
    <3>5. \A s \in Slot : ibuffer'[s] \in Frame
      BY <3>2, <3>3, <3>4
    <3> QED BY <3>5
  <2>2. kpos' \in 0 .. MaxFrames
    BY DEF InTypeOK, RoomInv
  <2> QED BY <2>1, <2>2 DEF InTypeOK
<1>2. RoomInv'
  BY DEF InTypeOK, RoomInv, FetchInv, CountInv, Filled, Lesser
<1>3. FetchInv'
  BY DEF InTypeOK, RoomInv, FetchInv, CountInv, Filled, Lesser
<1>4. CountInv'
  BY DEF InTypeOK, RoomInv, FetchInv, CountInv, Filled, Published, Base, Passed, Pending
<1>5. ContentInv'
  <2> SUFFICES ASSUME in_cctx, NEW s \in Slot
               PROVE  /\ Ahead(s) < Filled => ibuffer'[s] = Cipher(Base + Ahead(s) + 1)
                      /\ iwptr <= s /\ s < iwptr + avail1 =>
                             ibuffer'[s] = Cipher(Published' + 1 + (s - iwptr))
    BY DEF ContentInv, Pending, Filled, Base, Passed, Ahead
  <2>1. Ahead(s) < Filled => ~(iwptr <= s /\ s < iwptr + avail1)
    BY DEF InTypeOK, RoomInv, Filled, Ahead
  <2>2. Published' = kpos
    BY DEF InTypeOK, RoomInv, Published, Pending
  <2>3. s \in iwptr .. iwptr + avail1 - 1 <=> iwptr <= s /\ s < iwptr + avail1
    BY DEF InTypeOK, RoomInv
  <2>4. Ahead(s) < Filled => ibuffer'[s] = ibuffer[s]
    BY <2>1, <2>3
  <2>5. iwptr <= s /\ s < iwptr + avail1 => ibuffer'[s] = Cipher(kpos + 1 + (s - iwptr))
    BY <2>3 DEF Cipher
  <2> QED BY <2>2, <2>4, <2>5 DEF ContentInv
<1>6. BufInv'
  BY DEF InTypeOK, BufInv, FetchInv
<1> QED BY <1>1, <1>2, <1>3, <1>4, <1>5, <1>6

\* The first store to iwptr publishes the first part.
LEMMA CapturePublishStep ==
    ASSUME InRingInv, CapturePublish
    PROVE  InRingInv'
<1> USE SoundInAssumption DEF InRingInv, CapturePublish, driverVars, userVars
<1>0. iwptr' = IF iwptr + avail1 = N THEN 0 ELSE iwptr + avail1
  <2>1. iwptr + avail1 \in 0 .. N
    BY DEF InTypeOK, RoomInv
  <2> QED BY <2>1, WrapModulo
<1>1. InTypeOK'
  BY <1>0, Frames DEF InTypeOK, RoomInv, FetchInv, Filled, Lesser
<1>2. RoomInv'
  BY <1>0 DEF InTypeOK, RoomInv, FetchInv, CountInv, Filled, Lesser
<1>3. FetchInv'
  BY <1>0 DEF InTypeOK, RoomInv, FetchInv, CountInv, Filled, Lesser
<1>a. /\ Filled \in Int /\ Base \in Int /\ Published \in Int
      /\ \A s \in Slot : Ahead(s) \in Int
  BY DEF InTypeOK, Filled, Base, Published, Passed, Pending, Ahead
<1>b. /\ Filled' = Filled + avail1 /\ Published' = Published + avail1 /\ Base' = Base
      /\ \A s \in Slot : Ahead(s)' = Ahead(s)
  <2>1. Filled' = Filled + avail1
    BY <1>0 DEF InTypeOK, RoomInv, Filled
  <2>2. Published' = Published + avail1
    BY DEF InTypeOK, Published, Pending
  <2> QED BY <2>1, <2>2 DEF Base, Passed, Ahead
<1>4. CountInv'
  BY <1>a, <1>b DEF InTypeOK, CountInv
<1>5. ContentInv'
  <2> SUFFICES ASSUME in_cctx, NEW s \in Slot
               PROVE  Ahead(s)' < Filled' => ibuffer[s] = Cipher(Base' + Ahead(s)' + 1)
    BY DEF ContentInv, Pending
  <2>1. Ahead(s) < Filled + avail1 /\ ~(Ahead(s) < Filled) =>
           iwptr <= s /\ s < iwptr + avail1 /\ Ahead(s) = Filled + (s - iwptr)
    BY DEF InTypeOK, RoomInv, Filled, Ahead
  <2>2. Base + Filled = Published /\ Pending = avail1
    BY <1>a DEF CountInv, Pending
  <2>3. ASSUME Ahead(s) < Filled + avail1, ~(Ahead(s) < Filled)
        PROVE  ibuffer[s] = Cipher(Base + Ahead(s) + 1)
    <3>1. ibuffer[s] = Cipher(Published + 1 + (s - iwptr))
      BY <2>1, <2>2, <2>3 DEF ContentInv
    <3>2. Published + 1 + (s - iwptr) = Base + Ahead(s) + 1
      BY <1>a, <2>1, <2>2, <2>3 DEF InTypeOK
    <3> QED BY <3>1, <3>2
  <2>4. Ahead(s) < Filled => ibuffer[s] = Cipher(Base + Ahead(s) + 1)
    BY DEF ContentInv
  <2> QED BY <1>a, <1>b, <2>3, <2>4 DEF InTypeOK
<1>6. BufInv'
  BY <1>0 DEF InTypeOK, BufInv, FetchInv
<1> QED BY <1>1, <1>2, <1>3, <1>4, <1>5, <1>6

\* The second part goes to slots that QEMU does not read.
LEMMA CaptureCopy2Step ==
    ASSUME InRingInv, CaptureCopy2
    PROVE  InRingInv'
<1> USE SoundInAssumption DEF InRingInv, CaptureCopy2, EncryptAt, driverVars, userVars
<1>1. InTypeOK'
  <2>1. ibuffer' \in [Slot -> Frame]
    <3>1. \A s \in Slot : s \in iwptr .. iwptr + avail2 - 1 =>
             kpos + 1 + (s - iwptr) \in 0 .. MaxFrames
      BY DEF InTypeOK, RoomInv
    <3>2. ASSUME NEW s \in Slot, s \in iwptr .. iwptr + avail2 - 1, in_cctx
          PROVE  ibuffer'[s] \in Frame
      BY <3>1, <3>2, Frames
    <3>3. ASSUME NEW s \in Slot, s \in iwptr .. iwptr + avail2 - 1, ~in_cctx
          PROVE  ibuffer'[s] \in Frame
      BY <3>3, Frames
    <3>4. ASSUME NEW s \in Slot, s \notin iwptr .. iwptr + avail2 - 1
          PROVE  ibuffer'[s] \in Frame
      BY <3>4 DEF InTypeOK
    <3>5. \A s \in Slot : ibuffer'[s] \in Frame
      BY <3>2, <3>3, <3>4
    <3> QED BY <3>5
  <2>2. kpos' \in 0 .. MaxFrames
    BY DEF InTypeOK, RoomInv
  <2> QED BY <2>1, <2>2 DEF InTypeOK
<1>2. RoomInv'
  BY DEF InTypeOK, RoomInv, FetchInv, CountInv, Filled, Lesser
<1>3. FetchInv'
  BY DEF InTypeOK, RoomInv, FetchInv, CountInv, Filled, Lesser
<1>4. CountInv'
  BY DEF InTypeOK, RoomInv, FetchInv, CountInv, Filled, Published, Base, Passed, Pending
<1>5. ContentInv'
  <2> SUFFICES ASSUME in_cctx, NEW s \in Slot
               PROVE  /\ Ahead(s) < Filled => ibuffer'[s] = Cipher(Base + Ahead(s) + 1)
                      /\ iwptr <= s /\ s < iwptr + avail2 =>
                             ibuffer'[s] = Cipher(Published' + 1 + (s - iwptr))
    BY DEF ContentInv, Pending, Filled, Base, Passed, Ahead
  <2>1. Ahead(s) < Filled => ~(iwptr <= s /\ s < iwptr + avail2)
    BY DEF InTypeOK, RoomInv, Filled, Ahead
  <2>2. Published' = kpos
    BY DEF InTypeOK, RoomInv, Published, Pending
  <2>3. s \in iwptr .. iwptr + avail2 - 1 <=> iwptr <= s /\ s < iwptr + avail2
    BY DEF InTypeOK, RoomInv
  <2>4. Ahead(s) < Filled => ibuffer'[s] = ibuffer[s]
    BY <2>1, <2>3
  <2>5. iwptr <= s /\ s < iwptr + avail2 => ibuffer'[s] = Cipher(kpos + 1 + (s - iwptr))
    BY <2>3 DEF Cipher
  <2> QED BY <2>2, <2>4, <2>5 DEF ContentInv
<1>6. BufInv'
  BY DEF InTypeOK, BufInv, FetchInv
<1> QED BY <1>1, <1>2, <1>3, <1>4, <1>5, <1>6

\* The second store to iwptr publishes the rest.
LEMMA CapturePublish2Step ==
    ASSUME InRingInv, CapturePublish2
    PROVE  InRingInv'
<1> USE SoundInAssumption DEF InRingInv, CapturePublish2, driverVars, userVars
<1>0. iwptr' = avail2
  <2>1. iwptr + avail2 \in 0 .. N /\ iwptr + avail2 = avail2 /\ avail2 # N
    BY DEF InTypeOK, RoomInv, Filled
  <2> QED BY <2>1, WrapModulo
<1>1. InTypeOK'
  BY <1>0, Frames DEF InTypeOK, RoomInv, FetchInv, Filled, Lesser
<1>2. RoomInv'
  BY <1>0 DEF InTypeOK, RoomInv, FetchInv, CountInv, Filled, Lesser
<1>3. FetchInv'
  BY <1>0 DEF InTypeOK, RoomInv, FetchInv, CountInv, Filled, Lesser
<1>a. /\ Filled \in Int /\ Base \in Int /\ Published \in Int
      /\ \A s \in Slot : Ahead(s) \in Int
  BY DEF InTypeOK, Filled, Base, Published, Passed, Pending, Ahead
<1>b. /\ Filled' = Filled + avail2 /\ Published' = Published + avail2 /\ Base' = Base
      /\ \A s \in Slot : Ahead(s)' = Ahead(s)
  <2>1. Filled' = Filled + avail2
    BY <1>0 DEF InTypeOK, RoomInv, Filled
  <2>2. Published' = Published + avail2
    BY DEF InTypeOK, Published, Pending
  <2> QED BY <2>1, <2>2 DEF Base, Passed, Ahead
<1>4. CountInv'
  BY <1>a, <1>b DEF InTypeOK, CountInv
<1>5. ContentInv'
  <2> SUFFICES ASSUME in_cctx, NEW s \in Slot
               PROVE  Ahead(s)' < Filled' => ibuffer[s] = Cipher(Base' + Ahead(s)' + 1)
    BY DEF ContentInv, Pending
  <2>1. Ahead(s) < Filled + avail2 /\ ~(Ahead(s) < Filled) =>
           iwptr <= s /\ s < iwptr + avail2 /\ Ahead(s) = Filled + (s - iwptr)
    BY DEF InTypeOK, RoomInv, Filled, Ahead
  <2>2. Base + Filled = Published /\ Pending = avail2
    BY <1>a DEF CountInv, Pending
  <2>3. ASSUME Ahead(s) < Filled + avail2, ~(Ahead(s) < Filled)
        PROVE  ibuffer[s] = Cipher(Base + Ahead(s) + 1)
    <3>1. ibuffer[s] = Cipher(Published + 1 + (s - iwptr))
      BY <2>1, <2>2, <2>3 DEF ContentInv
    <3>2. Published + 1 + (s - iwptr) = Base + Ahead(s) + 1
      BY <1>a, <2>1, <2>2, <2>3 DEF InTypeOK
    <3> QED BY <3>1, <3>2
  <2>4. Ahead(s) < Filled => ibuffer[s] = Cipher(Base + Ahead(s) + 1)
    BY DEF ContentInv
  <2> QED BY <1>a, <1>b, <2>3, <2>4 DEF InTypeOK
<1>6. BufInv'
  BY <1>0 DEF InTypeOK, BufInv, FetchInv
<1> QED BY <1>1, <1>2, <1>3, <1>4, <1>5, <1>6

\* The frames computed from the two pointers stay in the ring
\* for the whole read.
LEMMA ReadStep ==
    ASSUME InRingInv, NEW count \in 1 .. MaxLen, Read(count)
    PROVE  InRingInv'
<1> USE SoundInAssumption DEF InRingInv, Read, driverVars, userVars
<1>1. InTypeOK'
  BY Frames DEF InTypeOK, RoomInv, FetchInv, Filled, Lesser
<1>2. RoomInv'
  BY DEF InTypeOK, RoomInv, FetchInv, CountInv, Filled, Lesser
<1>3. FetchInv'
  BY DEF InTypeOK, RoomInv, FetchInv, CountInv, Filled, Lesser
<1>4. CountInv'
  BY DEF InTypeOK, RoomInv, FetchInv, CountInv, Filled, Published, Base, Passed, Pending
<1>5. ContentInv'
  BY Frames DEF InTypeOK, RoomInv, FetchInv, CountInv, ContentInv, Filled, Published, Base, Passed, Pending, Ahead
<1>6. BufInv'
  BY DEF InTypeOK, BufInv, FetchInv
<1> QED BY <1>1, <1>2, <1>3, <1>4, <1>5, <1>6

\* What is copied first is the next of the key stream.
LEMMA ReadCopyStep ==
    ASSUME InRingInv, ReadCopy
    PROVE  InRingInv'
<1> USE SoundInAssumption DEF InRingInv, ReadCopy, driverVars, userVars
<1>0. Len(buf') = fetch1
  BY FetchedFrames DEF InTypeOK, FetchInv
<1>1. InTypeOK'
  <2>1. buf' \in Seq(Frame)
    BY FetchedFrames DEF InTypeOK, FetchInv
  <2> QED BY <2>1 DEF InTypeOK, FetchInv
<1>2. RoomInv'
  BY DEF InTypeOK, RoomInv, FetchInv, CountInv, Filled, Lesser
<1>3. FetchInv'
  BY <1>0 DEF InTypeOK, RoomInv, FetchInv, CountInv, Filled, Lesser
<1>4. CountInv'
  BY DEF InTypeOK, RoomInv, FetchInv, CountInv, Filled, Published, Base, Passed, Pending
<1>5. ContentInv'
  BY Frames DEF InTypeOK, RoomInv, FetchInv, CountInv, ContentInv, Filled, Published, Base, Passed, Pending, Ahead
<1>6. BufInv'
  <2>1. in_cctx /\ fetch1 <= Filled /\ Base = upos
    BY DEF InTypeOK, CountInv, FetchInv, Base, Passed
  <2>2. Len(buf') = fetch1 /\ \A i \in 1 .. fetch1 : buf'[i] = Cipher(upos + i)
    <3>1. fetch1 \in Nat /\ ifptr + fetch1 <= N
      BY DEF InTypeOK, FetchInv
    <3>2. \A i \in 1 .. fetch1 : Fetched(fetch1)[i] = Cipher(Base + i)
      BY <2>1, <3>1, FetchedFrames
    <3> QED BY <1>0, <2>1, <3>2
  <2> QED BY <2>2 DEF BufInv
<1> QED BY <1>1, <1>2, <1>3, <1>4, <1>5, <1>6

\* The first store to ifptr frees what was copied.
LEMMA ReadAdvanceStep ==
    ASSUME InRingInv, ReadAdvance
    PROVE  InRingInv'
<1> USE SoundInAssumption DEF InRingInv, ReadAdvance, driverVars, userVars
<1>0. ifptr' = IF ifptr + fetch1 = N THEN 0 ELSE ifptr + fetch1
  <2>1. ifptr + fetch1 \in 0 .. N
    BY DEF InTypeOK, FetchInv
  <2> QED BY <2>1, WrapModulo
<1>1. InTypeOK'
  BY <1>0, Frames DEF InTypeOK, RoomInv, FetchInv, Filled, Lesser
<1>2. RoomInv'
  BY <1>0 DEF InTypeOK, RoomInv, FetchInv, CountInv, Filled, Lesser
<1>3. FetchInv'
  BY <1>0 DEF InTypeOK, RoomInv, FetchInv, CountInv, Filled, Lesser
<1>a. /\ Filled \in Int /\ Base \in Int /\ Published \in Int
      /\ \A s \in Slot : Ahead(s) \in Int
  BY DEF InTypeOK, Filled, Base, Published, Passed, Pending, Ahead
<1>b. /\ Filled' = Filled - fetch1 /\ Base' = Base + fetch1 /\ Published' = Published
      /\ \A s \in Slot : Ahead(s)' < Filled' => Ahead(s) = Ahead(s)' + fetch1 /\ Ahead(s) < Filled
  <2>1. Filled' = Filled - fetch1
    BY <1>0 DEF InTypeOK, FetchInv, Filled
  <2>2. Base' = Base + fetch1
    BY DEF InTypeOK, Base, Passed, Lesser
  <2>3. \A s \in Slot : Ahead(s)' < Filled' => Ahead(s) = Ahead(s)' + fetch1 /\ Ahead(s) < Filled
    BY <1>0, SMTT(30) DEF InTypeOK, FetchInv, Filled, Ahead
  <2> QED BY <2>1, <2>2, <2>3 DEF Published, Pending
<1>4. CountInv'
  BY <1>a, <1>b DEF InTypeOK, CountInv
<1>5. ContentInv'
  <2> SUFFICES ASSUME in_cctx, NEW s \in Slot
               PROVE  Ahead(s)' < Filled' => ibuffer[s] = Cipher(Base' + Ahead(s)' + 1)
    BY <1>b DEF ContentInv, Pending
  <2>1. Ahead(s)' \in Int
    BY <1>0 DEF InTypeOK, FetchInv, Ahead
  <2>2. ASSUME Ahead(s)' < Filled' PROVE Base' + Ahead(s)' + 1 = Base + Ahead(s) + 1
    BY <1>a, <1>b, <2>1, <2>2 DEF InTypeOK
  <2> QED BY <1>b, <2>2 DEF ContentInv
<1>6. BufInv'
  BY <1>0 DEF InTypeOK, BufInv, FetchInv
<1> QED BY <1>1, <1>2, <1>3, <1>4, <1>5, <1>6

\* What is copied from the start of the ring is its continuation.
LEMMA ReadCopy2Step ==
    ASSUME InRingInv, ReadCopy2
    PROVE  InRingInv'
<1> USE SoundInAssumption DEF InRingInv, ReadCopy2, driverVars, userVars
<1>0. /\ fetch2 \in Nat /\ ifptr + fetch2 <= N /\ ifptr = 0 /\ fetch2 <= Filled
      /\ Len(buf) \in Nat /\ Len(buf) = fetch1 /\ in_cctx
  BY DEF InTypeOK, FetchInv, Filled, CountInv
<1>a. /\ Fetched(fetch2) \in Seq(Frame) /\ Len(Fetched(fetch2)) = fetch2
      /\ \A i \in 1 .. fetch2 : Fetched(fetch2)[i] = Cipher(Base + i)
  BY <1>0, FetchedFrames
<1>b. /\ buf' \in Seq(Frame) /\ Len(buf') = fetch1 + fetch2
      /\ \A i \in 1 .. fetch1 + fetch2 :
             buf'[i] = IF i <= fetch1 THEN buf[i] ELSE Fetched(fetch2)[i - fetch1]
  BY <1>0, <1>a, ConcatProperties DEF InTypeOK
<1>1. InTypeOK'
  BY <1>b DEF InTypeOK
<1>2. RoomInv'
  BY DEF InTypeOK, RoomInv, FetchInv, CountInv, Filled, Lesser
<1>3. FetchInv'
  BY <1>b DEF InTypeOK, RoomInv, FetchInv, CountInv, Filled, Lesser
<1>4. CountInv'
  BY DEF InTypeOK, RoomInv, FetchInv, CountInv, Filled, Published, Base, Passed, Pending
<1>5. ContentInv'
  BY Frames DEF InTypeOK, RoomInv, FetchInv, CountInv, ContentInv, Filled, Published, Base, Passed, Pending, Ahead
<1>6. BufInv'
  <2>1. Base = upos + fetch1
    BY DEF Base, Passed
  <2>2. ASSUME NEW i \in 1 .. fetch1 + fetch2 PROVE buf'[i] = Cipher(upos + i)
    <3>1. CASE i <= fetch1
      BY <1>0, <1>b, <3>1 DEF InTypeOK, BufInv
    <3>2. CASE ~(i <= fetch1)
      <4>1. i - fetch1 \in 1 .. fetch2 /\ Base + (i - fetch1) = upos + i
        BY <3>2, <2>1, <1>0 DEF InTypeOK
      <4> QED BY <3>2, <4>1, <1>a, <1>b
    <3> QED BY <3>1, <3>2
  <2> QED BY <1>b, <2>2 DEF BufInv
<1> QED BY <1>1, <1>2, <1>3, <1>4, <1>5, <1>6

\* The second store to ifptr frees the rest.
LEMMA ReadAdvance2Step ==
    ASSUME InRingInv, ReadAdvance2
    PROVE  InRingInv'
<1> USE SoundInAssumption DEF InRingInv, ReadAdvance2, driverVars, userVars
<1>1. InTypeOK'
  BY Frames DEF InTypeOK, RoomInv, FetchInv, Filled, Lesser
<1>2. RoomInv'
  BY DEF InTypeOK, RoomInv, FetchInv, CountInv, Filled, Lesser
<1>3. FetchInv'
  BY DEF InTypeOK, RoomInv, FetchInv, CountInv, Filled, Lesser
<1>a. /\ Filled \in Int /\ Base \in Int /\ Published \in Int
      /\ \A s \in Slot : Ahead(s) \in Int
  BY DEF InTypeOK, Filled, Base, Published, Passed, Pending, Ahead
<1>b. /\ Filled' = Filled - fetch2 /\ Base' = Base + fetch2 /\ Published' = Published
      /\ \A s \in Slot : Ahead(s)' < Filled' => Ahead(s) = Ahead(s)' + fetch2 /\ Ahead(s) < Filled
  <2>1. Filled' = Filled - fetch2
    BY DEF InTypeOK, FetchInv, Filled
  <2>2. Base' = Base + fetch2
    BY DEF InTypeOK, Base, Passed, Lesser
  <2>3. \A s \in Slot : Ahead(s)' < Filled' => Ahead(s) = Ahead(s)' + fetch2 /\ Ahead(s) < Filled
    BY DEF InTypeOK, FetchInv, Filled, Ahead
  <2> QED BY <2>1, <2>2, <2>3 DEF Published, Pending
<1>4. CountInv'
  BY <1>a, <1>b DEF InTypeOK, CountInv
<1>5. ContentInv'
  <2> SUFFICES ASSUME in_cctx, NEW s \in Slot
               PROVE  Ahead(s)' < Filled' => ibuffer[s] = Cipher(Base' + Ahead(s)' + 1)
    BY <1>b DEF ContentInv, Pending
  <2>1. Ahead(s)' \in Int
    BY DEF InTypeOK, FetchInv, Ahead
  <2>2. ASSUME Ahead(s)' < Filled' PROVE Base' + Ahead(s)' + 1 = Base + Ahead(s) + 1
    BY <1>a, <1>b, <2>1, <2>2 DEF InTypeOK
  <2> QED BY <1>b, <2>2 DEF ContentInv
<1>6. BufInv'
  BY DEF InTypeOK, BufInv, FetchInv
<1> QED BY <1>1, <1>2, <1>3, <1>4, <1>5, <1>6

\* QEMU's counter catches up with what it has read.
LEMMA DecryptStep ==
    ASSUME InRingInv, Decrypt
    PROVE  InRingInv'
<1> USE SoundInAssumption DEF InRingInv, Decrypt, driverVars, userVars
<1>0. upos' = Base /\ Base \in Nat /\ Base <= MaxFrames /\ Base' = Base
  <2>1. upos' = upos + Len(buf) /\ Len(buf) = fetch1 + fetch2 /\ Base = upos + (fetch1 + fetch2)
    BY DEF FetchInv, Base, Passed
  <2>2. Base' = upos'
    BY <2>1 DEF InTypeOK, Base, Passed
  <2>3. Published = Base + Filled /\ Published <= kpos /\ Filled \in Nat /\ Published \in Int
    BY DEF InTypeOK, CountInv, Published, Pending, Filled
  <2> QED BY <2>1, <2>2, <2>3 DEF InTypeOK
<1>1. InTypeOK'
  <2>1. buf' \in Seq(Frame)
    OBVIOUS
  <2> QED BY <1>0, <2>1 DEF InTypeOK
<1>2. RoomInv'
  BY DEF InTypeOK, RoomInv, FetchInv, CountInv, Filled, Lesser
<1>3. FetchInv'
  BY DEF InTypeOK, RoomInv, FetchInv, CountInv, Filled, Lesser
<1>4. CountInv'
  BY <1>0 DEF InTypeOK, CountInv, Filled, Published, Pending
<1>5. ContentInv'
  BY <1>0 DEF InTypeOK, ContentInv, Filled, Published, Pending, Ahead
<1>6. BufInv'
  BY DEF BufInv
<1> QED BY <1>1, <1>2, <1>3, <1>4, <1>5, <1>6

\* A step that changes nothing keeps the invariant.
LEMMA InStutter == InRingInv /\ UNCHANGED inVars => InRingInv'
BY DEF InRingInv, InTypeOK, RoomInv, FetchInv, CountInv, ContentInv, BufInv, Filled, Ahead,
    Passed, Pending, Base, Published, inVars, driverVars, userVars

\* Every step keeps the invariant.
LEMMA InRingNext == InRingInv /\ [InNext]_inVars => InRingInv'
BY InStutter, RegisterInStep, EnableInputStep, DieInStep, RemoveInStep, CaptureStep,
   CaptureCopyStep, CapturePublishStep, CaptureCopy2Step, CapturePublish2Step, ReadStep,
   ReadCopyStep, ReadAdvanceStep, ReadCopy2Step, ReadAdvance2Step, DecryptStep DEF InNext

\* The invariant of the input ring holds in every reachable state.
THEOREM InInvariant == InSpec => []InRingInv
<1>1. InInit => InRingInv
  BY InRingInit
<1>2. InRingInv /\ [InNext]_inVars => InRingInv'
  BY InRingNext
<1> QED BY <1>1, <1>2, PTL DEF InSpec

\* The pointers stay in the ring and the reads in its memory, for every size
\* (privsound_encrypt_input, bin_read).
THEOREM InTypeCorrect == InSpec => []InTypeOK
<1>1. InRingInv => InTypeOK
  BY DEF InRingInv
<1> QED BY <1>1, InInvariant, PTL

\* What QEMU reads is what the kernel encrypted, each frame where QEMU decrypts it
\* (bin_read, privsound_encrypt_input).
THEOREM InputReadsInStep == InSpec => []ReadsInStep
<1>1. InRingInv => ReadsInStep
  <2>1. buf \in Seq(Frame) => DOMAIN buf = 1 .. Len(buf)
    OBVIOUS
  <2> QED BY <2>1 DEF InRingInv, InTypeOK, BufInv, ReadsInStep, Cipher
<1> QED BY <1>1, InInvariant, PTL

\* The counters of the kernel and of QEMU differ by what is in the ring
\* (privsound_encrypt_input, alsa_decrypt).
THEOREM InputNothingLost == InSpec => []NothingLost
<1>1. InRingInv => NothingLost
  <2> SUFFICES ASSUME InRingInv, rpc = "idle", wpc = "idle" PROVE kpos - upos = Filled
    BY DEF NothingLost, Filled
  <2>1. Published = kpos /\ Base = upos /\ Published = Base + Filled
    BY DEF InRingInv, InTypeOK, CountInv, Published, Base, Passed, Pending
  <2> QED BY <2>1, SoundInAssumption DEF InRingInv, InTypeOK, Filled
<1> QED BY <1>1, InInvariant, PTL
=============================================================================
