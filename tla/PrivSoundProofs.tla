--------------------------- MODULE PrivSoundProofs ---------------------------
(***************************************************************************)
(* The output ring of private sound, for every ring, chunk and update      *)
(* size: OutInv is an invariant (one lemma for each side), and from it     *)
(* follow the type invariant, NeverShort, ErasedAfterUse and the           *)
(* refinement of SoundFifo.                                                *)
(***************************************************************************)
EXTENDS PrivSoundOut, Integers, TLAPS

USE DEF Slot

\* A pointer that reached the end of the ring goes back to its start, any other
\* stays (the %= of privsound_write_to_buf).
LEMMA WrapModulo ==
    ASSUME NEW a \in 0 .. N
    PROVE  a % N = IF a = N THEN 0 ELSE a
BY SoundAssumption

\* The frames of the model are frames, and their kinds tell them apart.
LEMMA Frames ==
    /\ Junk \in Frame /\ Junk.kind = "junk"
    /\ Zero \in Frame /\ Zero.kind = "zero"
    /\ \A n \in Nat : Cipher(n) \in Frame /\ Cipher(n).kind = "cipher" /\ Cipher(n).n = n
    /\ \A n \in Nat : Plain(n) \in Frame /\ Plain(n).kind = "plain" /\ Plain(n).n = n
BY DEF Frame, Junk, Zero, Cipher, Plain

\* The invariant holds before the first channel is registered.
LEMMA OutInvInit == OutInit => OutInv
<1> SUFFICES ASSUME OutInit PROVE OutInv
  OBVIOUS
<1> USE DEF OutInit
<1>1. OutTypeOK
  <2>1. cctx \in BOOLEAN
    OBVIOUS
  <2>2. obuffer \in [Slot -> Frame]
    BY Frames
  <2>3. owptr \in Slot /\ ofptr \in 0 .. N
    BY SoundAssumption
  <2>4. /\ upos \in Nat /\ kpos \in Nat /\ left \in Nat /\ chunk \in Nat /\ avail1 \in Nat
        /\ avail2 \in Nat /\ frms \in Nat /\ heard \in Nat
    OBVIOUS
  <2> QED
    BY <2>1, <2>2, <2>3, <2>4 DEF OutTypeOK
<1>2. PointerInv
  BY SoundAssumption DEF PointerInv, Filled, Sent
<1>3. RoomInv
  BY SoundAssumption DEF RoomInv, Writing
<1>4. ContentInv
  BY DEF ContentInv
<1>5. CounterInv
  BY DEF CounterInv
<1>6. ErasedAfterUse
  BY Frames DEF ErasedAfterUse
<1> QED
  BY <1>1, <1>2, <1>3, <1>4, <1>5, <1>6 DEF OutInv

\* The driver fetches no more frames than there are (privsound_buf_to_hw).
LEMMA HwFetchStep ==
    ASSUME OutInv, NEW k \in 1 .. MaxLen, HwFetch(k)
    PROVE  OutInv'
<1> USE SoundAssumption DEF OutInv, HwFetch, writerVars, readerVars
<1>1. OutTypeOK'
  BY Frames DEF OutTypeOK, PointerInv, RoomInv, Filled, Writing, Least, OutAvail
<1>2. PointerInv'
  BY DEF OutTypeOK, PointerInv, RoomInv, Filled, Sent, Writing, Least, OutAvail
<1>3. RoomInv'
  BY DEF OutTypeOK, PointerInv, RoomInv, Filled, Sent, Writing, Least, OutAvail
<1>4. ContentInv'
  BY Frames DEF OutTypeOK, PointerInv, RoomInv, ContentInv, Filled, Sent, Base, Ahead, Taken, Writing
<1>5. CounterInv'
  BY Frames DEF OutTypeOK, PointerInv, RoomInv, ContentInv, CounterInv, Filled, Sent, Base, Ahead, Taken, Writing
<1>6. ErasedAfterUse'
  BY Frames DEF OutTypeOK, ErasedAfterUse
<1> QED
  BY <1>1, <1>2, <1>3, <1>4, <1>5, <1>6

\* The frame the driver decrypts is the next of the key stream.
LEMMA HwDecryptStep ==
    ASSUME OutInv, HwDecrypt
    PROVE  OutInv'
<1> USE SoundAssumption DEF OutInv, HwDecrypt, writerVars, readerVars
<1>1. OutTypeOK'
  BY Frames DEF OutTypeOK, PointerInv, RoomInv, Filled, Writing, Least, OutAvail
<1>2. PointerInv'
  BY DEF OutTypeOK, PointerInv, RoomInv, Filled, Sent, Writing, Least, OutAvail
<1>3. RoomInv'
  BY DEF OutTypeOK, PointerInv, RoomInv, Filled, Sent, Writing, Least, OutAvail
<1>4. ContentInv'
  BY Frames DEF OutTypeOK, PointerInv, RoomInv, ContentInv, Filled, Sent, Base, Ahead, Taken, Writing
<1>5. CounterInv'
  BY Frames DEF OutTypeOK, PointerInv, RoomInv, ContentInv, CounterInv, Filled, Sent, Base, Ahead, Taken, Writing
<1>6. ErasedAfterUse'
  BY Frames DEF OutTypeOK, ErasedAfterUse
<1> QED
  BY <1>1, <1>2, <1>3, <1>4, <1>5, <1>6

\* The frame that is mixed is the next to be heard, and is erased.
LEMMA HwMixStep ==
    ASSUME OutInv, HwMix
    PROVE  OutInv'
<1> USE SoundAssumption DEF OutInv, HwMix, writerVars, readerVars
<1>1. OutTypeOK'
  <2>1. ofptr \in Slot
    BY DEF OutTypeOK, PointerInv
  <2>2. obuffer[ofptr].n \in Nat
    BY <2>1 DEF OutTypeOK, Frame
  <2> QED
    BY <2>1, <2>2, Frames DEF OutTypeOK
<1>2. PointerInv'
  BY DEF OutTypeOK, PointerInv, RoomInv, Filled, Sent, Writing, Least, OutAvail
<1>3. RoomInv'
  BY DEF OutTypeOK, PointerInv, RoomInv, Filled, Sent, Writing, Least, OutAvail
<1>4. ContentInv'
  BY Frames DEF OutTypeOK, PointerInv, RoomInv, ContentInv, Filled, Sent, Base, Ahead, Taken, Writing
<1>5. CounterInv'
  BY Frames DEF OutTypeOK, PointerInv, RoomInv, ContentInv, CounterInv, Filled, Sent, Base, Ahead, Taken, Writing
<1>6. ErasedAfterUse'
  BY Frames DEF OutTypeOK, ErasedAfterUse
<1> QED
  BY <1>1, <1>2, <1>3, <1>4, <1>5, <1>6

\* Moving ofptr gives one slot back to QEMU.
LEMMA HwAdvanceStep ==
    ASSUME OutInv, HwAdvance
    PROVE  OutInv'
<1> USE SoundAssumption DEF OutInv, HwAdvance, writerVars, readerVars
<1>1. OutTypeOK'
  BY Frames DEF OutTypeOK, PointerInv, RoomInv, Filled, Writing, Least, OutAvail
<1>2. PointerInv'
  BY DEF OutTypeOK, PointerInv, RoomInv, Filled, Sent, Writing, Least, OutAvail
<1>3. RoomInv'
  BY DEF OutTypeOK, PointerInv, RoomInv, Filled, Sent, Writing, Least, OutAvail
<1>4. ContentInv'
  <2>1. Filled' = Filled - 1 /\ Base' = Base + 1 /\ Sent' = Sent
    BY DEF OutTypeOK, PointerInv, Filled, Base, Sent
  <2>2. \A s \in Slot : Ahead(s)' < Filled' =>
            s # ofptr /\ Ahead(s) < Filled /\ Ahead(s)' = Ahead(s) - 1
    BY DEF OutTypeOK, PointerInv, Filled, Ahead
  <2>3. \A s \in Slot : Ahead(s) \in Int /\ Base \in Int /\ Filled \in Int
    BY DEF OutTypeOK, Filled, Base, Sent, Ahead
  <2>4. \A s \in Slot : Ahead(s)' < Filled' => Base' + Ahead(s)' + 1 = Base + Ahead(s) + 1
    BY <2>1, <2>2, <2>3
  <2> QED
    BY <2>1, <2>2, <2>4 DEF OutTypeOK, ContentInv, Taken
<1>5. CounterInv'
  BY Frames DEF OutTypeOK, PointerInv, RoomInv, ContentInv, CounterInv, Filled, Sent, Base, Ahead, Taken, Writing
<1>6. ErasedAfterUse'
  BY Frames DEF OutTypeOK, ErasedAfterUse
<1> QED
  BY <1>1, <1>2, <1>3, <1>4, <1>5, <1>6

\* Wrapping ofptr changes no distance.
LEMMA HwWrapStep ==
    ASSUME OutInv, HwWrap
    PROVE  OutInv'
<1> USE SoundAssumption DEF OutInv, HwWrap, writerVars, readerVars
<1>1. OutTypeOK'
  BY Frames DEF OutTypeOK, PointerInv, RoomInv, Filled, Writing, Least, OutAvail
<1>2. PointerInv'
  BY DEF OutTypeOK, PointerInv, RoomInv, Filled, Sent, Writing, Least, OutAvail
<1>3. RoomInv'
  BY DEF OutTypeOK, PointerInv, RoomInv, Filled, Sent, Writing, Least, OutAvail
<1>4. ContentInv'
  <2>1. Filled' = Filled /\ Base' = Base /\ Sent' = Sent
    BY DEF OutTypeOK, PointerInv, Filled, Base, Sent
  <2>2. \A s \in Slot : Ahead(s)' < Filled => Ahead(s)' = Ahead(s)
    BY DEF OutTypeOK, PointerInv, Filled, Ahead
  <2> QED
    BY <2>1, <2>2 DEF OutTypeOK, ContentInv, Taken
<1>5. CounterInv'
  BY Frames DEF OutTypeOK, PointerInv, RoomInv, ContentInv, CounterInv, Filled, Sent, Base, Ahead, Taken, Writing
<1>6. ErasedAfterUse'
  BY Frames DEF OutTypeOK, ErasedAfterUse
<1> QED
  BY <1>1, <1>2, <1>3, <1>4, <1>5, <1>6

\* A new channel is empty, whatever its memory holds.
LEMMA RegisterStep ==
    ASSUME OutInv, Register
    PROVE  OutInv'
<1> USE SoundAssumption DEF OutInv, Register, writerVars, readerVars
<1>1. OutTypeOK'
  BY Frames DEF OutTypeOK, PointerInv, RoomInv, Filled, Writing, Least, OutAvail
<1>2. PointerInv'
  BY DEF OutTypeOK, PointerInv, RoomInv, Filled, Sent, Writing, Least, OutAvail
<1>3. RoomInv'
  BY DEF OutTypeOK, PointerInv, RoomInv, Filled, Sent, Writing, Least, OutAvail
<1>4. ContentInv'
  BY Frames DEF OutTypeOK, PointerInv, RoomInv, ContentInv, Filled, Sent, Base, Ahead, Taken, Writing
<1>5. CounterInv'
  BY Frames DEF OutTypeOK, PointerInv, RoomInv, ContentInv, CounterInv, Filled, Sent, Base, Ahead, Taken, Writing
<1>6. ErasedAfterUse'
  BY Frames DEF OutTypeOK, ErasedAfterUse
<1> QED
  BY <1>1, <1>2, <1>3, <1>4, <1>5, <1>6

\* QEMU encrypts no more frames than there is room for.
LEMMA EncryptPendingStep ==
    ASSUME OutInv, NEW k \in 1 .. MaxLen, EncryptPending(k)
    PROVE  OutInv'
<1> USE SoundAssumption DEF OutInv, EncryptPending, writerVars, readerVars
<1>1. OutTypeOK'
  BY Frames DEF OutTypeOK, PointerInv, RoomInv, Filled, Writing, Least, OutAvail
<1>2. PointerInv'
  BY DEF OutTypeOK, PointerInv, RoomInv, Filled, Sent, Writing, Least, OutAvail
<1>3. RoomInv'
  BY DEF OutTypeOK, PointerInv, RoomInv, Filled, Sent, Writing, Least, OutAvail
<1>4. ContentInv'
  BY Frames DEF OutTypeOK, PointerInv, RoomInv, ContentInv, Filled, Sent, Base, Ahead, Taken, Writing, Least, OutAvail
<1>5. CounterInv'
  BY Frames DEF OutTypeOK, PointerInv, RoomInv, ContentInv, CounterInv, Filled, Sent, Base, Ahead, Taken, Writing, Least, OutAvail
<1>6. ErasedAfterUse'
  BY Frames DEF OutTypeOK, ErasedAfterUse
<1> QED
  BY <1>1, <1>2, <1>3, <1>4, <1>5, <1>6

\* The room computed from the two pointers is enough for the whole write.
LEMMA WriteCallStep ==
    ASSUME OutInv, WriteCall
    PROVE  OutInv'
<1> USE SoundAssumption DEF OutInv, WriteCall, writerVars, readerVars
<1>1. OutTypeOK'
  BY Frames DEF OutTypeOK, PointerInv, RoomInv, Filled, Writing, Least, OutAvail
<1>2. PointerInv'
  BY DEF OutTypeOK, PointerInv, RoomInv, Filled, Sent, Writing, Least, OutAvail
<1>3. RoomInv'
  BY DEF OutTypeOK, PointerInv, RoomInv, Filled, Sent, Writing, Least, OutAvail
<1>4. ContentInv'
  BY Frames DEF OutTypeOK, PointerInv, RoomInv, ContentInv, Filled, Sent, Base, Ahead, Taken, Writing
<1>5. CounterInv'
  BY Frames DEF OutTypeOK, PointerInv, RoomInv, ContentInv, CounterInv, Filled, Sent, Base, Ahead, Taken, Writing
<1>6. ErasedAfterUse'
  BY Frames DEF OutTypeOK, ErasedAfterUse
<1> QED
  BY <1>1, <1>2, <1>3, <1>4, <1>5, <1>6

\* The first copy touches only slots the driver does not own.
LEMMA WriteCopyStep ==
    ASSUME OutInv, WriteCopy
    PROVE  OutInv'
<1> USE SoundAssumption DEF OutInv, WriteCopy, CopyTo, writerVars, readerVars
<1>1. OutTypeOK'
  BY Frames DEF OutTypeOK, PointerInv, RoomInv, Filled, Writing, Least, OutAvail
<1>2. PointerInv'
  BY DEF OutTypeOK, PointerInv, RoomInv, Filled, Sent, Writing, Least, OutAvail
<1>3. RoomInv'
  BY DEF OutTypeOK, PointerInv, RoomInv, Filled, Sent, Writing, Least, OutAvail
<1>4. ContentInv'
  BY Frames DEF OutTypeOK, PointerInv, RoomInv, ContentInv, Filled, Sent, Base, Ahead, Taken, Writing
<1>5. CounterInv'
  BY Frames DEF OutTypeOK, PointerInv, RoomInv, ContentInv, CounterInv, Filled, Sent, Base, Ahead, Taken, Writing
<1>6. ErasedAfterUse'
  <2>1. \A s \in Slot : obuffer'[s] = obuffer[s] \/ obuffer'[s].kind = "cipher"
    BY Frames DEF OutTypeOK, PointerInv
  <2> QED
    BY <2>1 DEF ErasedAfterUse
<1> QED
  BY <1>1, <1>2, <1>3, <1>4, <1>5, <1>6

\* The first store to owptr publishes what was copied.
LEMMA WritePublishStep ==
    ASSUME OutInv, WritePublish
    PROVE  OutInv'
<1> USE SoundAssumption DEF OutInv, WritePublish, WriteReturn, writerVars, readerVars
<1>0. owptr' = IF owptr + avail1 = N THEN 0 ELSE owptr + avail1
  <2>1. owptr + avail1 \in 0 .. N
    BY DEF OutTypeOK, RoomInv
  <2>2. (owptr + avail1) % N = IF owptr + avail1 = N THEN 0 ELSE owptr + avail1
    BY <2>1, WrapModulo
  <2> QED
    BY <2>2
<1>1. OutTypeOK'
  BY <1>0, Frames DEF OutTypeOK, PointerInv, RoomInv, Filled, Writing, Least, OutAvail
<1>2. PointerInv'
  BY <1>0 DEF OutTypeOK, PointerInv, RoomInv, Filled, Sent, Writing, Least, OutAvail
<1>3. RoomInv'
  BY <1>0 DEF OutTypeOK, PointerInv, RoomInv, Filled, Sent, Writing, Least, OutAvail
<1>4. /\ Filled' = Filled + avail1
      /\ Sent' = Sent + avail1
      /\ Base' = Base
      /\ \A s \in Slot : Ahead(s)' = Ahead(s)
  <2>1. left' = left - avail1
    BY DEF OutTypeOK, RoomInv, Writing
  <2>2. Filled' = Filled + avail1
    BY <1>0, <2>1 DEF OutTypeOK, PointerInv, RoomInv, Filled, Writing
  <2>3. Sent' = Sent + avail1
    BY <2>1 DEF OutTypeOK, PointerInv, Sent
  <2> QED
    BY <2>2, <2>3 DEF OutTypeOK, Filled, Sent, Base, Ahead
<1>5. ContentInv'
  <2>1. \A s \in Slot : Ahead(s) < Filled + avail1 /\ ~ (Ahead(s) < Filled) =>
           /\ owptr <= s
           /\ s < owptr + avail1
           /\ Ahead(s) = Filled + (s - owptr)
    BY DEF OutTypeOK, PointerInv, RoomInv, Filled, Ahead, Writing
  <2>2. Base + Filled = Sent
    BY DEF OutTypeOK, PointerInv, Filled, Base, Sent
  <2>3. \A s \in Slot : Ahead(s) \in Int /\ Filled \in Int /\ Base \in Int /\ Sent \in Int
    BY DEF OutTypeOK, PointerInv, Filled, Base, Sent, Ahead
  <2>4. \A s \in Slot : Ahead(s) < Filled + avail1 /\ ~ (Ahead(s) < Filled) =>
           obuffer[s] = Cipher(Base + Ahead(s) + 1)
    BY <2>1, <2>2, <2>3, SMTT(30) DEF OutTypeOK, RoomInv, ContentInv
  <2>5. \A s \in Slot : Ahead(s) < Filled /\ ~(Taken /\ s = ofptr) =>
           obuffer[s] = Cipher(Base + Ahead(s) + 1)
    BY DEF ContentInv
  <2>6. \A s \in Slot : Ahead(s)' < Filled' /\ ~(Taken /\ s = ofptr) =>
           obuffer[s] = Cipher(Base' + Ahead(s)' + 1)
    BY <1>4, <2>3, <2>4, <2>5
  <2>7. wpc' \notin {"publish", "publish2"} /\ Taken' = Taken /\ obuffer' = obuffer /\ ofptr' = ofptr
    BY DEF Taken
  <2> QED
    BY <2>6, <2>7 DEF ContentInv
<1>6. CounterInv'
  BY <1>4 DEF OutTypeOK, PointerInv, CounterInv, Taken, Sent
<1>7. ErasedAfterUse'
  BY <1>0, Frames DEF OutTypeOK, ErasedAfterUse
<1> QED
  BY <1>1, <1>2, <1>3, <1>4, <1>5, <1>6, <1>7

\* The second copy touches only slots the driver does not own.
LEMMA WriteCopy2Step ==
    ASSUME OutInv, WriteCopy2
    PROVE  OutInv'
<1> USE SoundAssumption DEF OutInv, WriteCopy2, CopyTo, writerVars, readerVars
<1>1. OutTypeOK'
  BY Frames DEF OutTypeOK, PointerInv, RoomInv, Filled, Writing, Least, OutAvail
<1>2. PointerInv'
  BY DEF OutTypeOK, PointerInv, RoomInv, Filled, Sent, Writing, Least, OutAvail
<1>3. RoomInv'
  BY DEF OutTypeOK, PointerInv, RoomInv, Filled, Sent, Writing, Least, OutAvail
<1>4. ContentInv'
  BY Frames DEF OutTypeOK, PointerInv, RoomInv, ContentInv, Filled, Sent, Base, Ahead, Taken, Writing
<1>5. CounterInv'
  BY Frames DEF OutTypeOK, PointerInv, RoomInv, ContentInv, CounterInv, Filled, Sent, Base, Ahead, Taken, Writing
<1>6. ErasedAfterUse'
  <2>1. \A s \in Slot : obuffer'[s] = obuffer[s] \/ obuffer'[s].kind = "cipher"
    BY Frames DEF OutTypeOK, PointerInv
  <2> QED
    BY <2>1 DEF ErasedAfterUse
<1> QED
  BY <1>1, <1>2, <1>3, <1>4, <1>5, <1>6

\* The second store to owptr publishes the rest.
LEMMA WritePublish2Step ==
    ASSUME OutInv, WritePublish2
    PROVE  OutInv'
<1> USE SoundAssumption DEF OutInv, WritePublish2, WriteReturn, writerVars, readerVars
<1>1. OutTypeOK'
  BY Frames DEF OutTypeOK, PointerInv, RoomInv, Filled, Writing, Least, OutAvail
<1>2. PointerInv'
  BY DEF OutTypeOK, PointerInv, RoomInv, Filled, Sent, Writing, Least, OutAvail
<1>3. RoomInv'
  BY DEF OutTypeOK, PointerInv, RoomInv, Filled, Sent, Writing, Least, OutAvail
<1>4. /\ Filled' = Filled + avail2
      /\ Sent' = Sent + avail2
      /\ Base' = Base
      /\ \A s \in Slot : Ahead(s)' = Ahead(s)
  <2>1. left' = left - avail2
    BY DEF OutTypeOK, RoomInv, Writing
  <2>2. Filled' = Filled + avail2
    BY <2>1 DEF OutTypeOK, PointerInv, RoomInv, Filled, Writing
  <2>3. Sent' = Sent + avail2
    BY <2>1 DEF OutTypeOK, PointerInv, Sent
  <2> QED
    BY <2>2, <2>3 DEF OutTypeOK, Filled, Sent, Base, Ahead
<1>5. ContentInv'
  <2>1. \A s \in Slot : Ahead(s) < Filled + avail2 /\ ~ (Ahead(s) < Filled) =>
           /\ owptr <= s
           /\ s < owptr + avail2
           /\ Ahead(s) = Filled + (s - owptr)
    BY DEF OutTypeOK, PointerInv, RoomInv, Filled, Ahead, Writing
  <2>2. Base + Filled = Sent
    BY DEF OutTypeOK, PointerInv, Filled, Base, Sent
  <2>3. \A s \in Slot : Ahead(s) \in Int /\ Filled \in Int /\ Base \in Int /\ Sent \in Int
    BY DEF OutTypeOK, PointerInv, Filled, Base, Sent, Ahead
  <2>4. \A s \in Slot : Ahead(s) < Filled + avail2 /\ ~ (Ahead(s) < Filled) =>
           obuffer[s] = Cipher(Base + Ahead(s) + 1)
    BY <2>1, <2>2, <2>3 DEF OutTypeOK, RoomInv, ContentInv
  <2>5. \A s \in Slot : Ahead(s) < Filled /\ ~(Taken /\ s = ofptr) =>
           obuffer[s] = Cipher(Base + Ahead(s) + 1)
    BY DEF ContentInv
  <2>6. \A s \in Slot : Ahead(s)' < Filled' /\ ~(Taken /\ s = ofptr) =>
           obuffer[s] = Cipher(Base' + Ahead(s)' + 1)
    BY <1>4, <2>3, <2>4, <2>5
  <2>7. wpc' \notin {"publish", "publish2"} /\ Taken' = Taken /\ obuffer' = obuffer /\ ofptr' = ofptr
    BY DEF Taken
  <2> QED
    BY <2>6, <2>7 DEF ContentInv
<1>6. CounterInv'
  BY <1>4 DEF OutTypeOK, PointerInv, CounterInv, Taken, Sent
<1>7. ErasedAfterUse'
  BY Frames DEF OutTypeOK, ErasedAfterUse
<1> QED
  BY <1>1, <1>2, <1>3, <1>4, <1>5, <1>6, <1>7

\* When QEMU dies the ring stays as it is.
LEMMA DieStep ==
    ASSUME OutInv, Die
    PROVE  OutInv'
<1> USE SoundAssumption DEF OutInv, Die, writerVars, readerVars
<1>1. OutTypeOK'
  BY Frames DEF OutTypeOK, PointerInv, RoomInv, Filled, Writing, Least, OutAvail
<1>2. PointerInv'
  BY DEF OutTypeOK, PointerInv, RoomInv, Filled, Sent, Writing, Least, OutAvail
<1>3. RoomInv'
  BY DEF OutTypeOK, PointerInv, RoomInv, Filled, Sent, Writing, Least, OutAvail
<1>4. ContentInv'
  BY Frames DEF OutTypeOK, PointerInv, RoomInv, ContentInv, Filled, Sent, Base, Ahead, Taken, Writing
<1>5. CounterInv'
  BY Frames DEF OutTypeOK, PointerInv, RoomInv, ContentInv, CounterInv, Filled, Sent, Base, Ahead, Taken, Writing
<1>6. ErasedAfterUse'
  BY Frames DEF OutTypeOK, ErasedAfterUse
<1> QED
  BY <1>1, <1>2, <1>3, <1>4, <1>5, <1>6

\* Removing the channel erases it.
LEMMA RemoveStep ==
    ASSUME OutInv, RemoveBuf
    PROVE  OutInv'
<1> USE SoundAssumption DEF OutInv, RemoveBuf, writerVars, readerVars
<1>1. OutTypeOK'
  BY Frames DEF OutTypeOK, PointerInv, RoomInv, Filled, Writing, Least, OutAvail
<1>2. PointerInv'
  BY DEF OutTypeOK, PointerInv, RoomInv, Filled, Sent, Writing, Least, OutAvail
<1>3. RoomInv'
  BY DEF OutTypeOK, PointerInv, RoomInv, Filled, Sent, Writing, Least, OutAvail
<1>4. ContentInv'
  BY Frames DEF OutTypeOK, PointerInv, RoomInv, ContentInv, Filled, Sent, Base, Ahead, Taken, Writing
<1>5. CounterInv'
  BY Frames DEF OutTypeOK, PointerInv, RoomInv, ContentInv, CounterInv, Filled, Sent, Base, Ahead, Taken, Writing
<1>6. ErasedAfterUse'
  BY Frames DEF OutTypeOK, ErasedAfterUse
<1> QED
  BY <1>1, <1>2, <1>3, <1>4, <1>5, <1>6

\* A step that changes nothing keeps the invariant.
LEMMA OutStutter == OutInv /\ UNCHANGED outVars => OutInv'
BY DEF OutInv, OutTypeOK, PointerInv, RoomInv, ContentInv, CounterInv, ErasedAfterUse,
    Filled, Sent, Base, Ahead, Taken, Writing, outVars, writerVars, readerVars

\* Every step keeps the invariant.
LEMMA OutInvNext == OutInv /\ [OutNext]_outVars => OutInv'
<1> SUFFICES ASSUME OutInv, [OutNext]_outVars PROVE OutInv'
  OBVIOUS
<1>1. CASE QemuNext
  BY <1>1, RegisterStep, DieStep, RemoveStep, EncryptPendingStep, WriteCallStep, WriteCopyStep,
     WritePublishStep, WriteCopy2Step, WritePublish2Step DEF QemuNext
<1>2. CASE HwNext
  BY <1>2, HwFetchStep, HwDecryptStep, HwMixStep, HwAdvanceStep, HwWrapStep DEF HwNext
<1>3. CASE UNCHANGED outVars
  BY <1>3, OutStutter
<1> QED
  BY <1>1, <1>2, <1>3 DEF OutNext

\* The invariant of the output ring holds in every reachable state.
THEOREM OutInvariant == OutSpec => []OutInv
<1>1. OutInit => OutInv
  BY OutInvInit
<1>2. OutInv /\ [OutNext]_outVars => OutInv'
  BY OutInvNext
<1> QED
  BY <1>1, <1>2, PTL DEF OutSpec

\* The pointers and the frames of the ring keep their types: owptr never leaves the
\* ring, ofptr only before it is wrapped (privsound_write_to_buf,
\* privsound_buf_to_hw).
THEOREM OutTypeCorrect == OutSpec => []OutTypeOK
<1>1. OutInv => OutTypeOK
  BY DEF OutInv
<1> QED
  BY <1>1, OutInvariant, PTL

\* A write is never cut short, whatever the sizes (bin_get_out_avail,
\* privsound_write_to_buf).
THEOREM WritesAreWhole == OutSpec => []NeverShort
<1>1. OutInv => NeverShort
  BY DEF OutInv, RoomInv, NeverShort, Writing
<1> QED
  BY <1>1, OutInvariant, PTL

\* No frame stays in the ring in the clear (privsound_buf_to_hw).
THEOREM FramesAreErased == OutSpec => []ErasedAfterUse
<1>1. OutInv => ErasedAfterUse
  BY DEF OutInv
<1> QED
  BY <1>1, OutInvariant, PTL

\* Every step of the ring is a step of the channel, or none.
LEMMA FifoStep == OutInv /\ [OutNext]_outVars => [Fifo!FifoNext]_(Fifo!fifoVars)
<1> SUFFICES ASSUME OutInv, [OutNext]_outVars PROVE [Fifo!FifoNext]_(Fifo!fifoVars)
  OBVIOUS
<1> USE SoundAssumption DEF OutInv, Fifo!fifoVars, writerVars, readerVars
<1>1. CASE Register
  BY <1>1 DEF Register, Sent, Fifo!FifoNext, Fifo!Reset
<1>2. CASE Die \/ RemoveBuf \/ WriteCall \/ WriteCopy \/ WriteCopy2
  BY <1>2 DEF Die, RemoveBuf, WriteCall, WriteCopy, WriteCopy2, Sent
<1>3. ASSUME NEW k \in 1 .. MaxLen, EncryptPending(k) PROVE UNCHANGED Fifo!fifoVars
  BY <1>3 DEF EncryptPending, OutTypeOK, RoomInv, Sent, Least, OutAvail
<1>4. CASE WritePublish
  <2>1. left' = left - avail1
    BY <1>4 DEF WritePublish, WriteReturn, OutTypeOK, RoomInv, Writing
  <2>2. Sent' = Sent + avail1 /\ heard' = heard
    BY <1>4, <2>1 DEF WritePublish, OutTypeOK, PointerInv, Sent
  <2>3. Sent + avail1 \in Nat /\ Sent + avail1 <= heard + (N - 1)
    BY <1>4 DEF WritePublish, OutTypeOK, PointerInv, RoomInv, CounterInv, Sent, Base, Filled, Writing
  <2>4. avail1 = 0 \/ Sent < Sent + avail1
    BY DEF OutTypeOK, PointerInv, Sent
  <2> QED
    BY <2>2, <2>3, <2>4 DEF Fifo!FifoNext, Fifo!Put, OutTypeOK, PointerInv, Sent
<1>5. CASE WritePublish2
  <2>1. left' = left - avail2
    BY <1>5 DEF WritePublish2, WriteReturn, OutTypeOK, RoomInv, Writing
  <2>2. Sent' = Sent + avail2 /\ heard' = heard
    BY <1>5, <2>1 DEF WritePublish2, OutTypeOK, PointerInv, Sent
  <2>3. Sent + avail2 \in Nat /\ Sent + avail2 <= heard + (N - 1)
    BY <1>5 DEF WritePublish2, OutTypeOK, PointerInv, RoomInv, CounterInv, Sent, Base, Filled, Writing
  <2>4. avail2 = 0 \/ Sent < Sent + avail2
    BY DEF OutTypeOK, PointerInv, Sent
  <2> QED
    BY <2>2, <2>3, <2>4 DEF Fifo!FifoNext, Fifo!Put, OutTypeOK, PointerInv, Sent
<1>6. CASE HwMix
  <2>1. heard' = heard \/ (heard' = heard + 1 /\ heard < Sent)
    BY <1>6, Frames DEF HwMix, CounterInv, OutTypeOK
  <2>2. Sent' = Sent
    BY <1>6 DEF HwMix, Sent
  <2> QED
    BY <2>1, <2>2 DEF Fifo!FifoNext, Fifo!Get
<1>7. CASE HwDecrypt \/ HwAdvance \/ HwWrap
  BY <1>7 DEF HwDecrypt, HwAdvance, HwWrap, Sent
<1>8. ASSUME NEW k \in 1 .. MaxLen, HwFetch(k) PROVE UNCHANGED Fifo!fifoVars
  BY <1>8 DEF HwFetch, Sent
<1>9. CASE UNCHANGED outVars
  BY <1>9 DEF outVars, Sent
<1> QED
  BY <1>1, <1>2, <1>3, <1>4, <1>5, <1>6, <1>7, <1>8, <1>9 DEF OutNext, QemuNext, HwNext

\* The ring implements the channel for every size: what is heard is what was
\* sent, in order (privsound_write_to_buf, privsound_buf_to_hw).
THEOREM RingIsFifo == OutSpec => FifoSpec
<1>1. OutInit => Fifo!FifoInit
  BY DEF OutInit, Sent, Fifo!FifoInit
<1>2. OutInv /\ [OutNext]_outVars => [Fifo!FifoNext]_(Fifo!fifoVars)
  BY FifoStep
<1> QED
  BY <1>1, <1>2, OutInvariant, PTL DEF OutSpec, FifoSpec, Fifo!FifoSpec
=============================================================================
