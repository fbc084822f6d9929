----------------------------- MODULE PrivSoundIn -----------------------------
(***************************************************************************)
(* Private sound input: the ring of a psnd_buf that the sound card driver  *)
(* fills with encrypted frames from the microphone                         *)
(* (privsound_encrypt_input, from azx_pcm_pointer) and QEMU empties        *)
(* through input_<id> (bin_read), decrypting what it reads (alsa_run_in).  *)
(*                                                                         *)
(* As in PrivSoundOut there is no lock between the two, a pair of          *)
(* assignments to a pointer in a row is one store, and sizes are counted   *)
(* in frames.  A frame is its position in the key stream; which sound it   *)
(* carries is left out (the second part of an update that wraps repeats    *)
(* the sound of the first).                                                *)
(***************************************************************************)
EXTENDS Naturals, Sequences

CONSTANTS
    N,          \* PSND_IBUFLEN, the frames of the ring
    MaxLen,     \* bound on the frames of a pointer update, and of a read
    MaxFrames   \* bound on the frames of a channel

ASSUME SoundInAssumption ==
    N \in Nat \ {0, 1} /\ MaxLen \in Nat \ {0} /\ MaxFrames \in Nat

VARIABLES
    in_cctx,        \* in_ref.cctx is not NULL
    input_enabled,
    ibuffer,        \* 0 .. N - 1 -> frame
    iwptr,          \* where the driver writes
    ifptr,          \* where the user fetches
    kpos,           \* frames encrypted by the kernel
    upos,           \* frames decrypted by QEMU
    wpc,            \* where privsound_encrypt_input is
    avail1,         \* frames it puts at iwptr,
    avail2,         \* and at the start of the ring
    rpc,            \* where QEMU is in bin_read
    rest,           \* frames of the user's buffer still free (count)
    fetch1,         \* frames bin_read takes at ifptr,
    fetch2,         \* and at the start of the ring
    buf             \* what it has read

driverVars == <<ibuffer, iwptr, kpos, wpc, avail1, avail2>>
userVars == <<ifptr, upos, rpc, rest, fetch1, fetch2, buf>>
inVars == <<in_cctx, input_enabled, driverVars, userVars>>

Slot == 0 .. N - 1
Frame == [kind : {"junk", "cipher", "plain"}, n : 0 .. MaxFrames]
Junk == [kind |-> "junk", n |-> 0]

Lesser(a, b) == IF a <= b THEN a ELSE b

InInit ==
    /\ in_cctx = FALSE /\ input_enabled = FALSE
    /\ ibuffer = [s \in Slot |-> Junk]
    /\ iwptr = 0 /\ ifptr = 0 /\ kpos = 0 /\ upos = 0
    /\ wpc = "idle" /\ avail1 = 0 /\ avail2 = 0
    /\ rpc = "none" /\ rest = 0 /\ fetch1 = 0 /\ fetch2 = 0 /\ buf = <<>>

-----------------------------------------------------------------------------
(* The channel. *)

\* privsound_create_psnd_buf, for a new QEMU.
RegisterIn ==
    /\ rpc = "none"
    /\ in_cctx' = TRUE /\ input_enabled' = FALSE
    /\ ibuffer' = [s \in Slot |-> Junk]
    /\ iwptr' = 0 /\ ifptr' = 0 /\ kpos' = 0 /\ upos' = 0
    /\ wpc' = "idle" /\ avail1' = 0 /\ avail2' = 0
    /\ rpc' = "idle" /\ rest' = 0 /\ fetch1' = 0 /\ fetch2' = 0 /\ buf' = <<>>

\* Writes to enable_input and disable_input, from outside of QEMU.
EnableInput(on) ==
    /\ rpc # "none"
    /\ input_enabled # on
    /\ input_enabled' = on
    /\ UNCHANGED <<in_cctx, driverVars, userVars>>

\* QEMU dies: its contexts go, the channel stays.
DieIn ==
    /\ rpc = "idle"
    /\ rpc' = "dead"
    /\ in_cctx' = FALSE
    /\ UNCHANGED <<input_enabled, driverVars, ifptr, upos, rest, fetch1, fetch2, buf>>

\* privsound_remove_psnd_buf: under the write lock, so no update is under way.
RemoveIn ==
    /\ rpc \in {"idle", "dead"}
    /\ wpc = "idle"
    /\ rpc' = "none"
    /\ in_cctx' = FALSE
    /\ ibuffer' = [s \in Slot |-> Junk]
    /\ UNCHANGED <<input_enabled, iwptr, kpos, wpc, avail1, avail2,
                   ifptr, upos, rest, fetch1, fetch2, buf>>

-----------------------------------------------------------------------------
(* The driver. *)

\* An update of len frames from the microphone: the pointers are read and the
\* room computed.  What does not fit is dropped before it is encrypted.
Capture(len) ==
    LET avail == Lesser(N - iwptr + ifptr - 1, len)
    IN  /\ rpc # "none"
        /\ wpc = "idle"
        /\ input_enabled
        /\ kpos + len <= MaxFrames
        /\ \/ /\ iwptr < ifptr
              /\ avail1' = Lesser(ifptr - iwptr - 1, len)
              /\ avail2' = 0
           \/ /\ iwptr >= ifptr
              /\ avail1' = Lesser(N - iwptr, avail)
              /\ avail2' = avail - avail1'
        /\ avail1' > 0
        /\ wpc' = "copy"
        /\ UNCHANGED <<in_cctx, input_enabled, ibuffer, iwptr, kpos, userVars>>

\* memcpy of n frames to iwptr, then privsound_crypt on each.
EncryptAt(n) ==
    /\ kpos' = IF in_cctx THEN kpos + n ELSE kpos
    /\ ibuffer' = [s \in Slot |->
           IF s \in iwptr .. iwptr + n - 1
           THEN [kind |-> IF in_cctx THEN "cipher" ELSE "plain",
                 n |-> IF in_cctx THEN kpos + 1 + (s - iwptr) ELSE 0]
           ELSE ibuffer[s]]

CaptureCopy ==
    /\ wpc = "copy"
    /\ EncryptAt(avail1)
    /\ wpc' = "publish"
    /\ UNCHANGED <<in_cctx, input_enabled, iwptr, avail1, avail2, userVars>>

\* A bug: the pointer is not wrapped.
CapturePublishPlain ==
    /\ wpc = "publish"
    /\ iwptr' = iwptr + avail1
    /\ wpc' = IF avail2 > 0 THEN "copy2" ELSE "idle"
    /\ UNCHANGED <<in_cctx, input_enabled, ibuffer, kpos, avail1, avail2, userVars>>

\* A bug: the second part is forgotten, though it was counted.
CapturePublishAll ==
    /\ wpc = "publish"
    /\ iwptr' = (iwptr + avail1 + avail2) % N
    /\ wpc' = "idle"
    /\ UNCHANGED <<in_cctx, input_enabled, ibuffer, kpos, avail1, avail2, userVars>>

CapturePublish ==
    /\ wpc = "publish"
    /\ iwptr' = (iwptr + avail1) % N
    /\ wpc' = IF avail2 > 0 THEN "copy2" ELSE "idle"
    /\ UNCHANGED <<in_cctx, input_enabled, ibuffer, kpos, avail1, avail2, userVars>>

CaptureCopy2 ==
    /\ wpc = "copy2"
    /\ EncryptAt(avail2)
    /\ wpc' = "publish2"
    /\ UNCHANGED <<in_cctx, input_enabled, iwptr, avail1, avail2, userVars>>

CapturePublish2 ==
    /\ wpc = "publish2"
    /\ iwptr' = (iwptr + avail2) % N
    /\ wpc' = "idle"
    /\ UNCHANGED <<in_cctx, input_enabled, ibuffer, kpos, avail1, avail2, userVars>>

-----------------------------------------------------------------------------
(* QEMU: alsa_run_in. *)

\* A bug: one frame too many is taken at the start of the ring.
ReadOneMore(count) ==
    /\ rpc = "idle"
    /\ \/ /\ iwptr >= ifptr
          /\ fetch1' = Lesser(iwptr - ifptr, count)
          /\ fetch2' = 0
       \/ /\ iwptr < ifptr
          /\ fetch1' = Lesser(N - ifptr, count)
          /\ fetch2' = iwptr + 1
    /\ rest' = count
    /\ rpc' = "copy"
    /\ UNCHANGED <<in_cctx, input_enabled, driverVars, ifptr, upos, buf>>

\* bin_read: the pointers are read.
Read(count) ==
    /\ rpc = "idle"
    /\ \/ /\ iwptr >= ifptr
          /\ fetch1' = Lesser(iwptr - ifptr, count)
          /\ fetch2' = 0
       \/ /\ iwptr < ifptr
          /\ fetch1' = Lesser(N - ifptr, count)
          /\ fetch2' = iwptr
    /\ rest' = count
    /\ rpc' = "copy"
    /\ UNCHANGED <<in_cctx, input_enabled, driverVars, ifptr, upos, buf>>

Fetched(n) == [i \in 1 .. n |-> ibuffer[ifptr + i - 1]]

ReadCopy ==
    /\ rpc = "copy"
    /\ buf' = Fetched(fetch1)
    /\ rest' = rest - fetch1
    /\ rpc' = "advance"
    /\ UNCHANGED <<in_cctx, input_enabled, driverVars, ifptr, upos, fetch1, fetch2>>

\* ifptr moves; the second part is cut to what is left of count.
ReadAdvance ==
    /\ rpc = "advance"
    /\ ifptr' = (ifptr + fetch1) % N
    /\ fetch2' = Lesser(fetch2, rest)
    /\ rpc' = IF fetch2' > 0 THEN "copy2" ELSE "decrypt"
    /\ UNCHANGED <<in_cctx, input_enabled, driverVars, upos, rest, fetch1, buf>>

ReadCopy2 ==
    /\ rpc = "copy2"
    /\ buf' = buf \o Fetched(fetch2)
    /\ rpc' = "advance2"
    /\ UNCHANGED <<in_cctx, input_enabled, driverVars, ifptr, upos, rest, fetch1, fetch2>>

ReadAdvance2 ==
    /\ rpc = "advance2"
    /\ ifptr' = ifptr + fetch2
    /\ rpc' = "decrypt"
    /\ UNCHANGED <<in_cctx, input_enabled, driverVars, upos, rest, fetch1, fetch2, buf>>

\* alsa_decrypt of what was read.
Decrypt ==
    /\ rpc = "decrypt"
    /\ upos' = upos + Len(buf)
    /\ buf' = <<>>
    /\ fetch1' = 0 /\ fetch2' = 0 /\ rest' = 0
    /\ rpc' = "idle"
    /\ UNCHANGED <<in_cctx, input_enabled, driverVars, ifptr>>

-----------------------------------------------------------------------------
InNext ==
    \/ RegisterIn \/ DieIn \/ RemoveIn
    \/ \E on \in BOOLEAN : EnableInput(on)
    \/ \E len \in 1 .. MaxLen : Capture(len)
    \/ CaptureCopy \/ CapturePublish \/ CaptureCopy2 \/ CapturePublish2
    \/ \E count \in 1 .. MaxLen : Read(count)
    \/ ReadCopy \/ ReadAdvance \/ ReadCopy2 \/ ReadAdvance2 \/ Decrypt

InSpec == InInit /\ [][InNext]_inVars

-----------------------------------------------------------------------------
\* Type correctness of the input ring and its two users.
InTypeOK ==
    /\ in_cctx \in BOOLEAN
    /\ input_enabled \in BOOLEAN
    /\ ibuffer \in [Slot -> Frame]
    /\ iwptr \in Slot /\ ifptr \in Slot
    /\ kpos \in 0 .. MaxFrames /\ upos \in 0 .. MaxFrames
    /\ wpc \in {"idle", "copy", "publish", "copy2", "publish2"}
    /\ avail1 \in 0 .. MaxLen /\ avail2 \in 0 .. MaxLen
    /\ rpc \in {"none", "dead", "idle", "copy", "advance", "copy2", "advance2", "decrypt"}
    /\ rest \in 0 .. MaxLen /\ fetch1 \in 0 .. MaxLen /\ fetch2 \in 0 .. N
    /\ buf \in Seq(Frame)

\* What QEMU reads is ciphertext, each frame at the position in the key stream at
\* which QEMU is about to decrypt it, over wraps, drops and disable_input, and
\* never memory the driver has not written or is writing (bin_read,
\* privsound_encrypt_input).
ReadsInStep ==
    \A i \in DOMAIN buf : buf[i].kind = "cipher" /\ buf[i].n = upos + i

\* The two counters never drift: what the kernel encrypted and QEMU has not
\* decrypted is in the ring, in the update under way or in the read under way.
NothingLost ==
    rpc = "idle" /\ wpc = "idle" =>
        kpos - upos = IF iwptr >= ifptr THEN iwptr - ifptr ELSE N - ifptr + iwptr
=============================================================================
