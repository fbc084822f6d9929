---------------------------- MODULE PrivSoundOut ----------------------------
(***************************************************************************)
(* Private sound output: the ring of a psnd_buf (drivers/priv_sysfs/       *)
(* privsound/privsound.c) between QEMU, which encrypts frames and writes   *)
(* them to output_<id> (audio/alsaaudio.c), and the sound card driver,     *)
(* which calls privsound_buf_to_hw from azx_pcm_pointer to decrypt them,   *)
(* mix them into its DMA buffer and erase them.                            *)
(*                                                                         *)
(* There is no lock between the two: the writer owns owptr, the reader     *)
(* ofptr, and each reads the other's.  Every load and store of one that    *)
(* the other can see is a step of its own.  The two assignments to owptr   *)
(* in a row (+= and %=) are one store, the first is dead.  The reader's    *)
(* ofptr is stored before it is wrapped, so it may be seen equal to N.     *)
(*                                                                         *)
(* Positions are counted in frames of 4 bytes, as every size the code uses *)
(* is a multiple of 4.  A frame takes one call of priv_crypt on each side. *)
(***************************************************************************)
EXTENDS Naturals

CONSTANTS
    N,          \* PSND_OBUFLEN, the frames of the ring
    Chunk,      \* frames of one write to a sysfs attribute (4096 bytes)
    MaxLen,     \* bound on the frames of a snd_pcm_writei, and of a pointer update
    MaxFrames   \* bound on the frames of a channel

ASSUME SoundAssumption ==
    /\ N \in Nat \ {0, 1}
    /\ Chunk \in Nat \ {0}
    /\ MaxLen \in Nat \ {0}
    /\ MaxFrames \in Nat

VARIABLES
    cctx,     \* out_ref.cctx is not NULL
    obuffer,  \* 0 .. N - 1 -> frame
    owptr,    \* where the user writes
    ofptr,    \* where the driver fetches
    upos,     \* frames encrypted by QEMU (the counter of cctx_out)
    kpos,     \* frames decrypted by the kernel (the counter of out_ref.cctx)
    wpc,      \* where QEMU is in alsa_write_pending and privsound_write_to_buf
    left,     \* frames encrypted and not yet in the ring (to_write)
    chunk,    \* frames of the write under way
    avail1,   \* frames it puts at owptr,
    avail2,   \* and at the start of the ring
    rpc,      \* where privsound_buf_to_hw is
    frms,     \* frames it still has to fetch
    heard     \* the last frame mixed into the DMA buffer that was decrypted

writerVars == <<owptr, upos, wpc, left, chunk, avail1, avail2>>
readerVars == <<ofptr, kpos, rpc, frms, heard>>
outVars == <<cctx, obuffer, writerVars, readerVars>>

Slot == 0 .. N - 1

\* junk is memory nobody wrote, or a frame decrypted at the wrong position.
Frame == [kind : {"junk", "zero", "cipher", "plain"}, n : Nat]
Junk == [kind |-> "junk", n |-> 0]
Zero == [kind |-> "zero", n |-> 0]
Cipher(n) == [kind |-> "cipher", n |-> n]
Plain(n) == [kind |-> "plain", n |-> n]

Least(a, b) == IF a <= b THEN a ELSE b

\* The frames between the two pointers (num in privsound_buf_to_hw).
Filled == IF owptr >= ofptr THEN owptr - ofptr ELSE N - ofptr + owptr

\* A bug: the slot that stays empty is not counted.
OutAvailFull == IF owptr >= ofptr THEN N - owptr + ofptr ELSE ofptr - owptr

\* bin_get_out_avail: one frame stays empty.
OutAvail == (IF owptr >= ofptr THEN N - owptr + ofptr ELSE ofptr - owptr) - 1

-----------------------------------------------------------------------------
(* QEMU. *)

OutInit ==
    /\ cctx = FALSE
    /\ wpc = "none"
    /\ obuffer = [s \in Slot |-> Zero]
    /\ owptr = 0 /\ ofptr = 0 /\ upos = 0 /\ kpos = 0
    /\ left = 0 /\ chunk = 0 /\ avail1 = 0 /\ avail2 = 0
    /\ rpc = "idle" /\ frms = 0 /\ heard = 0

\* alsa_init_out: new contexts, and "register".  privsound_create_psnd_buf
\* takes the ring from kmalloc, so it holds anything.
Register ==
    /\ wpc = "none"
    /\ cctx' = TRUE
    /\ wpc' = "idle"
    /\ obuffer' = [s \in Slot |-> Junk]
    /\ owptr' = 0 /\ ofptr' = 0 /\ upos' = 0 /\ kpos' = 0
    /\ left' = 0 /\ chunk' = 0 /\ avail1' = 0 /\ avail2' = 0
    /\ rpc' = "idle" /\ frms' = 0 /\ heard' = 0

\* alsa_write_pending: read out_avail, let ALSA take frames of silence, and
\* encrypt as many of its own as both have room for.
EncryptPending(taken) ==
    LET availb == Least(OutAvail, taken)
    IN  /\ wpc = "idle"
        /\ availb > 0
        /\ upos + availb <= MaxFrames
        /\ upos' = upos + availb
        /\ left' = availb
        /\ wpc' = "call"
        /\ UNCHANGED <<cctx, obuffer, owptr, chunk, avail1, avail2, readerVars>>

\* privsound_write_to_buf: the two pointers are read, and the room computed.
WriteCall ==
    LET size == Least(left, Chunk)
        avail == Least(N - owptr + ofptr - 1, size)
    IN  /\ wpc = "call"
        /\ chunk' = size
        /\ \/ /\ owptr < ofptr
              /\ avail1' = Least(ofptr - owptr - 1, size)
              /\ avail2' = 0
           \/ /\ owptr >= ofptr
              /\ avail1' = Least(N - owptr, avail)
              /\ avail2' = avail - avail1'
        /\ wpc' = "copy"
        /\ UNCHANGED <<cctx, obuffer, owptr, upos, left, readerVars>>

\* memcpy of n frames, the first of those that are left, to slot s.
CopyTo(s, n) ==
    obuffer' = [t \in Slot |-> IF t \in s .. s + n - 1
                               THEN Cipher(upos - left + 1 + (t - s)) ELSE obuffer[t]]

WriteCopy ==
    /\ wpc = "copy"
    /\ CopyTo(owptr, avail1)
    /\ wpc' = "publish"
    /\ UNCHANGED <<cctx, owptr, upos, left, chunk, avail1, avail2, readerVars>>

\* The write returns to alsa_write_pending with n frames to go.  It stops at a
\* short write; the frames that are left were encrypted for nothing.
WriteReturn(n) ==
    IF avail1 + avail2 = chunk
    THEN left' = n /\ wpc' = IF n > 0 THEN "call" ELSE "idle"
    ELSE left' = 0 /\ wpc' = "idle"

\* A bug: the pointer is not wrapped.
WritePublishPlain ==
    /\ wpc = "publish"
    /\ owptr' = owptr + avail1
    /\ \/ avail2 > 0 /\ left' = left - avail1 /\ wpc' = "copy2"
       \/ avail2 = 0 /\ WriteReturn(left - avail1)
    /\ UNCHANGED <<cctx, obuffer, upos, chunk, avail1, avail2, readerVars>>

WritePublish ==
    /\ wpc = "publish"
    /\ owptr' = (owptr + avail1) % N
    /\ \/ avail2 > 0 /\ left' = left - avail1 /\ wpc' = "copy2"
       \/ avail2 = 0 /\ WriteReturn(left - avail1)
    /\ UNCHANGED <<cctx, obuffer, upos, chunk, avail1, avail2, readerVars>>

\* A bug: the second part is copied from the start of the user's buffer, as
\* privsound_encrypt_input does.
WriteCopy2FromStart ==
    /\ wpc = "copy2"
    /\ obuffer' = [t \in Slot |-> IF t < avail2 THEN Cipher(upos - left - avail1 + 1 + t)
                                  ELSE obuffer[t]]
    /\ wpc' = "publish2"
    /\ UNCHANGED <<cctx, owptr, upos, left, chunk, avail1, avail2, readerVars>>

\* The rest of the frames, at the start of the ring.
WriteCopy2 ==
    /\ wpc = "copy2"
    /\ CopyTo(0, avail2)
    /\ wpc' = "publish2"
    /\ UNCHANGED <<cctx, owptr, upos, left, chunk, avail1, avail2, readerVars>>

WritePublish2 ==
    /\ wpc = "publish2"
    /\ owptr' = owptr + avail2
    /\ WriteReturn(left - avail2)
    /\ UNCHANGED <<cctx, obuffer, upos, chunk, avail1, avail2, readerVars>>

\* QEMU dies outside a system call: its contexts go, the channel stays.
Die ==
    /\ wpc \in {"idle", "call"}
    /\ cctx' = FALSE
    /\ wpc' = "dead"
    /\ UNCHANGED <<obuffer, owptr, upos, left, chunk, avail1, avail2, readerVars>>

\* privsound_remove_psnd_buf, by alsa_fini_out or by hand: waits for the reader
\* to unlock the list, erases the ring and lets go of the contexts.
RemoveBuf ==
    /\ wpc \in {"idle", "dead"}
    /\ rpc = "idle"
    /\ obuffer' = [s \in Slot |-> Zero]
    /\ cctx' = FALSE
    /\ wpc' = "none"
    /\ UNCHANGED <<owptr, upos, left, chunk, avail1, avail2, readerVars>>

-----------------------------------------------------------------------------
(* The sound card driver: privsound_buf_to_hw. *)

\* The pointers are read: at most the frames of this update are fetched.
HwFetch(frames) ==
    /\ wpc # "none"
    /\ rpc = "idle"
    /\ Filled > 0
    /\ frms' = Least(frames, Filled)
    /\ rpc' = "decrypt"
    /\ UNCHANGED <<cctx, obuffer, ofptr, kpos, heard, writerVars>>

\* privsound_crypt: nothing happens to the frame if the context is gone.
HwDecrypt ==
    /\ rpc = "decrypt"
    /\ \/ /\ cctx
          /\ kpos' = kpos + 1
          /\ obuffer' = [obuffer EXCEPT ![ofptr] =
                            IF @ = Cipher(kpos + 1) THEN Plain(kpos + 1) ELSE Junk]
       \/ /\ ~cctx
          /\ UNCHANGED <<kpos, obuffer>>
    /\ rpc' = "mix"
    /\ UNCHANGED <<cctx, ofptr, frms, heard, writerVars>>

\* A bug: the frame is left in the ring.
HwMixKeep ==
    /\ rpc = "mix"
    /\ heard' = IF obuffer[ofptr].kind = "cipher" THEN heard ELSE obuffer[ofptr].n
    /\ rpc' = "advance"
    /\ UNCHANGED <<cctx, obuffer, ofptr, kpos, frms, writerVars>>

\* The frame is mixed into the DMA buffer and erased.
HwMix ==
    /\ rpc = "mix"
    /\ heard' = IF obuffer[ofptr].kind = "cipher" THEN heard ELSE obuffer[ofptr].n
    /\ obuffer' = [obuffer EXCEPT ![ofptr] = Zero]
    /\ rpc' = "advance"
    /\ UNCHANGED <<cctx, ofptr, kpos, frms, writerVars>>

HwAdvance ==
    /\ rpc = "advance"
    /\ ofptr' = ofptr + 1
    /\ frms' = frms - 1
    /\ rpc' = "wrap"
    /\ UNCHANGED <<cctx, obuffer, kpos, heard, writerVars>>

HwWrap ==
    /\ rpc = "wrap"
    /\ ofptr' = IF ofptr >= N THEN ofptr - N ELSE ofptr
    /\ rpc' = IF frms > 0 THEN "decrypt" ELSE "idle"
    /\ UNCHANGED <<cctx, obuffer, kpos, frms, heard, writerVars>>

-----------------------------------------------------------------------------
QemuNext ==
    \/ Register \/ Die \/ RemoveBuf
    \/ \E k \in 1 .. MaxLen : EncryptPending(k)
    \/ WriteCall \/ WriteCopy \/ WritePublish \/ WriteCopy2 \/ WritePublish2

HwNext ==
    \/ \E k \in 1 .. MaxLen : HwFetch(k)
    \/ HwDecrypt \/ HwMix \/ HwAdvance \/ HwWrap

OutNext == QemuNext \/ HwNext

OutSpec == OutInit /\ [][OutNext]_outVars

-----------------------------------------------------------------------------
\* Type correctness of the ring, its two users and their pointers.
OutTypeOK ==
    /\ cctx \in BOOLEAN
    /\ obuffer \in [Slot -> Frame]
    /\ owptr \in Slot
    /\ ofptr \in 0 .. N
    /\ upos \in Nat
    /\ kpos \in Nat
    /\ wpc \in {"none", "dead", "idle", "call", "copy", "publish", "copy2", "publish2"}
    /\ left \in Nat
    /\ chunk \in Nat
    /\ avail1 \in Nat
    /\ avail2 \in Nat
    /\ rpc \in {"idle", "decrypt", "mix", "advance", "wrap"}
    /\ frms \in Nat
    /\ heard \in Nat

\* The room that out_avail announced is still there when the frames are written,
\* however far the driver has come: alsa_write_pending never prints "unsynced
\* written", and privsound_write_to_buf never "PSND ERROR".
NeverShort ==
    /\ wpc \in {"copy", "publish", "copy2", "publish2"} => avail1 + avail2 = chunk
    /\ wpc \in {"copy2", "publish2"} => owptr = 0

\* A frame is in the clear only while the driver mixes it: none is left in the
\* ring, when the driver is through with an update or when QEMU dies
\* (privsound_buf_to_hw).
ErasedAfterUse ==
    \A s \in Slot : obuffer[s].kind = "plain" => rpc = "mix" /\ s = ofptr

\* The frames published by QEMU.
Sent == upos - left

\* The ring implements the channel (SoundFifo), which holds N - 1 frames: what
\* is heard is what was sent, in order, whatever the interleaving of the copies
\* and of the stores to the two pointers (privsound_write_to_buf,
\* privsound_buf_to_hw).
Fifo == INSTANCE SoundFifo WITH Cap <- N - 1, sent <- Sent, heard <- heard
FifoSpec == Fifo!FifoSpec

-----------------------------------------------------------------------------
(* The inductive invariant behind the properties (PrivSoundProofs). *)

\* How far a slot is from the one the driver fetches next.
Ahead(s) == IF s >= ofptr THEN s - ofptr ELSE N - ofptr + s

\* The position in the key stream before that of slot ofptr.
Base == Sent - Filled

\* The driver has taken the frame at ofptr and not yet moved ofptr.
Taken == rpc \in {"mix", "advance"}

Writing == wpc \in {"copy", "publish", "copy2", "publish2"}

\* The pointers: one slot stays empty, and what is in use was sent.
PointerInv ==
    /\ left <= upos
    /\ Filled <= N - 1
    /\ Filled <= Sent
    /\ ofptr = N => rpc = "wrap"
    /\ rpc \in {"decrypt", "mix", "advance"} => 0 < frms /\ frms <= Filled
    /\ rpc = "wrap" => frms <= Filled
    /\ cctx <=> wpc \notin {"none", "dead"}
    /\ wpc = "none" => rpc = "idle"

\* The room QEMU was told of is there, and its write fits.
RoomInv ==
    /\ wpc = "idle" => left = 0
    /\ wpc = "call" => 0 < left
    /\ wpc = "call" \/ Writing => left <= N - 1 - Filled
    /\ Writing => 0 < chunk /\ avail1 + avail2 = chunk
    /\ wpc \in {"copy", "publish"} =>
          chunk <= left /\ owptr + avail1 <= N /\ (avail2 > 0 => owptr + avail1 = N)
    /\ wpc \in {"copy2", "publish2"} => owptr = 0 /\ 0 < avail2 /\ avail2 <= left

\* What is between the pointers is the key stream, in order; what was copied and
\* not published is its continuation.
ContentInv ==
    /\ wpc # "none" => \A s \in Slot : Ahead(s) < Filled /\ ~(Taken /\ s = ofptr) =>
          obuffer[s] = Cipher(Base + Ahead(s) + 1)
    /\ wpc = "publish" => \A s \in Slot : owptr <= s /\ s < owptr + avail1 =>
          obuffer[s] = Cipher(Sent + 1 + (s - owptr))
    /\ wpc = "publish2" => \A s \in Slot : s < avail2 => obuffer[s] = Cipher(Sent + 1 + s)

\* The counter of the kernel is where the driver is, as long as it has a context.
CounterInv ==
    /\ cctx => kpos = Base + (IF Taken THEN 1 ELSE 0)
    /\ cctx => heard = Base + (IF rpc = "advance" THEN 1 ELSE 0)
    /\ cctx /\ rpc = "mix" => obuffer[ofptr] = Plain(heard + 1)
    /\ rpc = "mix" => \/ obuffer[ofptr].kind = "cipher"
                      \/ obuffer[ofptr] = Plain(heard + 1) /\ heard < Sent

OutInv == OutTypeOK /\ PointerInv /\ RoomInv /\ ContentInv /\ CounterInv /\ ErasedAfterUse
=============================================================================
