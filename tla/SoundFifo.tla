------------------------------ MODULE SoundFifo ------------------------------
(***************************************************************************)
(* What a private sound channel promises: the frames that QEMU encrypts    *)
(* and hands over are played in the order of the key stream, none skipped, *)
(* none twice, none made up, and at most Cap of them are under way.        *)
(* Frames are numbered by their position in the key stream.                *)
(***************************************************************************)
EXTENDS Naturals

CONSTANT Cap   \* frames the channel holds

VARIABLES
    sent,     \* frames handed over
    heard     \* frames played

fifoVars == <<sent, heard>>

FifoInit == sent = 0 /\ heard = 0

\* A writer hands over frames, no more than fit.
Put ==
    /\ sent' \in Nat
    /\ sent < sent'
    /\ sent' <= heard + Cap
    /\ UNCHANGED heard

\* The hardware plays the next frame.
Get ==
    /\ heard < sent
    /\ heard' = heard + 1
    /\ UNCHANGED sent

\* A channel with new keys.
Reset == sent' = 0 /\ heard' = 0

FifoNext == Put \/ Get \/ Reset

FifoSpec == FifoInit /\ [][FifoNext]_fifoVars
=============================================================================
