------------------------------- MODULE PrivUsb -------------------------------
(***************************************************************************)
(* Private USB input: the interrupt endpoint of a keyboard or mouse whose  *)
(* data the kernel encrypts (drivers/priv/usb.c, called by ehci-q.c and    *)
(* uhci-q.c), usbfs (drivers/usb/core/devio.c), and the QEMU process that  *)
(* opens the device, decrypts its packets and hands them to the guest      *)
(* (priv-usb.c, usb-linux.c).                                              *)
(*                                                                         *)
(* The contexts are those of CtxService, which the driver implements       *)
(* (PrivCryptClient).  Both ends run AES in counter mode and never talk    *)
(* about the counter again after priv_new_backend, so they agree only as   *)
(* long as QEMU decrypts every packet the kernel encrypts, in order.  A    *)
(* packet takes as many counter blocks on one side as on the other; the    *)
(* model counts packets.                                                   *)
(*                                                                         *)
(* The guest has one packet outstanding per endpoint (usbhid submits its   *)
(* interrupt URB again when it completes), so one URB is in flight per     *)
(* device: the kernel has one urb_encrypt_work for each.  A device stays   *)
(* plugged; QEMU's main loop is one thread.                                *)
(***************************************************************************)
EXTENDS CtxService, Naturals, Sequences, FiniteSets

CONSTANTS
    MaxPos,   \* bound on the packets a context encrypts
    MaxDone   \* bound on the completed URBs QEMU has not reaped

ASSUME BoundsAssumption == MaxPos \in Nat /\ MaxDone \in Nat \ {0}
ASSUME UsbNullAssumption == NULL \notin Ctx

VARIABLES
    qemu,     \* "run", or "dying": do_exit has been called
    cctx,     \* Dev -> QEMU's context for the device (pud->cctx)
    session,  \* Dev -> "closed", "open", or where usb_close_host_dev is:
              \* "reaping" (async_complete), then "closing"
    stage,    \* Dev -> where its URB is: "none", "hc" (host controller), "work"
    killed,   \* Dev -> usb_kill_urb waits for the URB to be given back
    done,     \* Dev -> URBs on async_completed, oldest first
    kpos,     \* Ctx -> packets encrypted by the kernel
    upos,     \* Ctx -> packets decrypted by QEMU
    lost,     \* contexts of which a packet was encrypted and never decrypted
    handed    \* Dev -> packets that the last release gave the guest in the clear

urbVars == <<stage, killed, done, kpos, upos, lost, handed>>
vars == <<svcVars, qemu, cctx, session, urbVars>>

\* What is in the buffer of a completed URB: "plain" is what the device sent,
\* "zero" is erased, "none" an URB without data.  The status of the last two
\* is negative.  live: QEMU has not cancelled its packet.
Packet == [data : {"plain", "cipher", "zero", "none"}, pos : 0 .. MaxPos, live : BOOLEAN]

UsbInit ==
    /\ SvcInit
    /\ qemu = "run"
    /\ cctx = [d \in Dev |-> NULL]
    /\ session = [d \in Dev |-> "closed"]
    /\ stage = [d \in Dev |-> "none"]
    /\ killed = [d \in Dev |-> FALSE]
    /\ done = [d \in Dev |-> <<>>]
    /\ kpos = [c \in Ctx |-> 0]
    /\ upos = [c \in Ctx |-> 0]
    /\ lost = {}
    /\ handed = [d \in Dev |-> 0]

\* QEMU's thread is not inside DISCARDURB or close of a device.
Running ==
    qemu = "run" /\ \A d \in Dev : ~killed[d] /\ session[d] \notin {"reaping", "closing"}

Ciphers(s) == {i \in DOMAIN s : s[i].data = "cipher"}

-----------------------------------------------------------------------------
(* The kernel. *)

\* usb_hcd_giveback_urb, and async_completed in usbfs.
Giveback(d, data, pos) ==
    /\ stage' = [stage EXCEPT ![d] = "none"]
    /\ killed' = [killed EXCEPT ![d] = FALSE]
    /\ done' = [done EXCEPT ![d] =
                    Append(@, [data |-> data, pos |-> pos, live |-> ~killed[d]])]

\* The host controller has data for the URB: priv_schedule_giveback_urb with
\* status 0.  The work is scheduled if the place holds an activated context.
HcData(d) ==
    /\ stage[d] = "hc"
    /\ IF bind[d] # NULL /\ active[bind[d]]
       THEN /\ kpos[bind[d]] < MaxPos
            /\ stage' = [stage EXCEPT ![d] = "work"]
            /\ UNCHANGED <<killed, done>>
       ELSE Giveback(d, "plain", 0)
    /\ UNCHANGED <<svcVars, qemu, cctx, session, kpos, upos, lost, handed>>

\* The transfer fails, status < 0: the URB is just given back.
HcError(d) ==
    /\ stage[d] = "hc"
    /\ Giveback(d, "none", 0)
    /\ UNCHANGED <<svcVars, qemu, cctx, session, kpos, upos, lost, handed>>

\* The file of the device is being released: in usb_close_host_dev, or after the
\* contexts of a dead process are gone (do_exit closes the files later).
Closing(d) ==
    \/ session[d] = "closing"
    \/ session[d] = "open" /\ qemu = "dying" /\ \A e \in Dev : cctx[e] = NULL

\* usbfs kills the URB, and urb_dequeue of the host controller ends it.
HcUnlink(d) == (killed[d] \/ Closing(d)) /\ HcError(d)

\* A bug: the activation is looked at after the data is encrypted.
WorkerLateCheck(d) ==
    LET c == bind[d]
    IN  /\ stage[d] = "work"
        /\ IF c = NULL
           THEN Giveback(d, "plain", 0) /\ UNCHANGED kpos
           ELSE /\ kpos' = [kpos EXCEPT ![c] = @ + 1]
                /\ Giveback(d, IF active[c] THEN "cipher" ELSE "zero", kpos[c])
        /\ UNCHANGED <<svcVars, qemu, cctx, session, upos, lost, handed>>

\* A bug: an erased URB is not given back.
WorkerKeepsErased(d) ==
    LET c == bind[d]
    IN  /\ stage[d] = "work"
        /\ c # NULL /\ active[c]
        /\ kpos' = [kpos EXCEPT ![c] = @ + 1]
        /\ Giveback(d, "cipher", kpos[c])
        /\ UNCHANGED <<svcVars, qemu, cctx, session, upos, lost, handed>>

\* A bug: the work queues itself again.
WorkerAgain(d) ==
    LET c == bind[d]
    IN  /\ stage[d] = "work"
        /\ c # NULL
        /\ kpos' = [kpos EXCEPT ![c] = @ + 1]
        /\ UNCHANGED <<svcVars, qemu, cctx, session, stage, killed, done, upos, lost, handed>>

\* encrypt_and_giveback_urb, in the work queue.  priv_usb_urb_enc looks at the
\* place again: no context, nothing to do; not activated, or the cipher fails:
\* the data is erased.
Worker(d) ==
    LET c == bind[d]
    IN  /\ stage[d] = "work"
        /\ \/ /\ c = NULL
              /\ Giveback(d, "plain", 0)
              /\ UNCHANGED kpos
           \/ /\ c # NULL
              /\ Giveback(d, "zero", 0)
              /\ UNCHANGED kpos
           \/ /\ c # NULL
              /\ active[c]
              /\ Giveback(d, "cipher", kpos[c])
              /\ kpos' = [kpos EXCEPT ![c] = @ + 1]
        /\ UNCHANGED <<svcVars, qemu, cctx, session, upos, lost, handed>>

-----------------------------------------------------------------------------
(* QEMU. *)

\* usb_crypt_setup: priv_create_cctx and priv_new_backend, which gives both
\* sides the same key and counter.
NewContext(d, c) ==
    /\ Running
    /\ cctx[d] = NULL
    /\ Create(c)
    /\ cctx' = [cctx EXCEPT ![d] = c]
    /\ UNCHANGED <<qemu, session, urbVars>>

\* ... and then the id is written to crypt_ctx_id of the endpoint.
UseContext(d) ==
    /\ Running
    /\ cctx[d] # NULL
    /\ Bind(d, cctx[d])
    /\ UNCHANGED <<qemu, cctx, session, urbVars>>

\* usb_dev_connect: open, then priv_activate.  The thread submits no URB in
\* between.
Connect(d) ==
    /\ Running
    /\ session[d] = "closed"
    /\ bind[d] # NULL
    /\ Toggle(cctx[d], TRUE)
    /\ session' = [session EXCEPT ![d] = "open"]
    /\ handed' = [handed EXCEPT ![d] = 0]
    /\ UNCHANGED <<qemu, cctx, stage, killed, done, kpos, upos, lost>>

\* USBDEVFS_SUBMITURB for the packet of the guest.
Submit(d) ==
    /\ Running
    /\ session[d] = "open"
    /\ stage[d] = "none"
    /\ \A i \in DOMAIN done[d] : ~done[d][i].live
    /\ Len(done[d]) < MaxDone
    /\ stage' = [stage EXCEPT ![d] = "hc"]
    /\ UNCHANGED <<svcVars, qemu, cctx, session, killed, done, kpos, upos, lost, handed>>

\* usb_host_async_cancel: the packet is marked dead, and DISCARDURB kills the
\* URB unless it has completed.
Cancel(d) ==
    /\ Running
    /\ session[d] = "open"
    /\ \/ /\ stage[d] # "none"
          /\ killed' = [killed EXCEPT ![d] = TRUE]
          /\ UNCHANGED done
       \/ /\ \E i \in DOMAIN done[d] : done[d][i].live
          /\ done' = [done EXCEPT ![d] = [i \in DOMAIN @ |-> [@[i] EXCEPT !.live = FALSE]]]
          /\ UNCHANGED killed
    /\ UNCHANGED <<svcVars, qemu, cctx, session, stage, kpos, upos, lost, handed>>

\* async_complete takes one URB.  A dead packet is dropped.  A live one goes
\* through priv_handle_packet, which decrypts it.  The length of one with a
\* negative status is negative too, and priv_crypt takes it for a size_t: QEMU
\* runs out of its memory and dies.
Reap(d) ==
    LET p == Head(done[d])
    IN  /\ Running
        /\ session[d] = "open"
        /\ done[d] # <<>>
        /\ done' = [done EXCEPT ![d] = Tail(@)]
        /\ \/ /\ ~p.live
              /\ lost' = IF p.data = "cipher" THEN lost \cup {cctx[d]} ELSE lost
              /\ UNCHANGED <<upos, qemu>>
           \/ /\ p.live
              /\ p.data \in {"plain", "cipher"}
              /\ upos' = [upos EXCEPT ![cctx[d]] = @ + 1]
              /\ UNCHANGED <<lost, qemu>>
           \/ /\ p.live
              /\ p.data \in {"zero", "none"}
              /\ qemu' = "dying"
              /\ UNCHANGED <<lost, upos>>
        /\ UNCHANGED <<svcVars, cctx, session, stage, killed, kpos, handed>>

\* usb_dev_disconnect: priv_deactivate, priv_handle_packet is cleared, and
\* usb_host_close begins.  The kernel and the device go on meanwhile.
Disconnect(d) ==
    /\ Running
    /\ session[d] = "open"
    /\ Toggle(cctx[d], FALSE)
    /\ session' = [session EXCEPT ![d] = "reaping"]
    /\ UNCHANGED <<qemu, cctx, urbVars>>

\* async_complete in usb_host_close takes what has completed until there is no
\* more (EAGAIN).  Nobody decrypts: a live packet goes to the guest as it is,
\* what came before the deactivation as ciphertext, what came after it in the
\* clear.  The guest, whose one packet this is, has no other to submit.
ReapOnClose(d) ==
    LET p == Head(done[d])
    IN  /\ session[d] = "reaping"
        /\ \/ /\ done[d] = <<>>
              /\ session' = [session EXCEPT ![d] = "closing"]
              /\ UNCHANGED <<done, lost, handed>>
           \/ /\ done[d] # <<>>
              /\ done' = [done EXCEPT ![d] = Tail(@)]
              /\ lost' = IF p.data = "cipher" THEN lost \cup {cctx[d]} ELSE lost
              /\ handed' = IF p.live /\ p.data = "plain"
                           THEN [handed EXCEPT ![d] = @ + 1] ELSE handed
              /\ UNCHANGED session
        /\ UNCHANGED <<svcVars, qemu, cctx, stage, killed, kpos, upos>>

\* A bug: the URB in flight is left alone.
CloseWithUrb(d) ==
    /\ Closing(d)
    /\ session' = [session EXCEPT ![d] = "closed"]
    /\ done' = [done EXCEPT ![d] = <<>>]
    /\ lost' = IF Ciphers(done[d]) # {} THEN lost \cup {cctx[d]} ELSE lost
    /\ UNCHANGED <<svcVars, qemu, cctx, stage, killed, kpos, upos, handed>>

\* usbdev_release: the URB in flight is killed, and what has completed since
\* async_complete saw EAGAIN (or all of it, if QEMU is dead) is dropped.
Close(d) ==
    /\ Closing(d)
    /\ stage[d] = "none"
    /\ session' = [session EXCEPT ![d] = "closed"]
    /\ done' = [done EXCEPT ![d] = <<>>]
    /\ lost' = IF cctx[d] # NULL /\ Ciphers(done[d]) # {}
               THEN lost \cup {cctx[d]} ELSE lost
    /\ UNCHANGED <<svcVars, qemu, cctx, stage, killed, kpos, upos, handed>>

\* QEMU exits or is killed, in private mode or not.
Die ==
    /\ Running
    /\ qemu' = "dying"
    /\ UNCHANGED <<svcVars, cctx, session, urbVars>>

\* Its contexts go, by usb_dev_free or priv_pid_death_action: each place is
\* emptied, then the context removed.
DieUnbind(d) ==
    /\ qemu = "dying"
    /\ cctx[d] # NULL
    /\ Unbind(d)
    /\ UNCHANGED <<qemu, cctx, session, urbVars>>

DieRemove(d) ==
    /\ qemu = "dying"
    /\ RemoveCtx(cctx[d])
    /\ cctx' = [cctx EXCEPT ![d] = NULL]
    /\ UNCHANGED <<qemu, session, urbVars>>

\* The next QEMU.
Start ==
    /\ qemu = "dying"
    /\ \A d \in Dev : cctx[d] = NULL /\ session[d] = "closed"
    /\ qemu' = "run"
    /\ UNCHANGED <<svcVars, cctx, session, urbVars>>

-----------------------------------------------------------------------------
UsbNext ==
    \/ \E d \in Dev : HcData(d) \/ HcError(d) \/ Worker(d)
    \/ \E d \in Dev, c \in Ctx : NewContext(d, c)
    \/ \E d \in Dev : UseContext(d) \/ Connect(d) \/ Submit(d) \/ Cancel(d) \/ Reap(d)
    \/ \E d \in Dev : Disconnect(d) \/ ReapOnClose(d) \/ Close(d)
    \/ \E d \in Dev : DieUnbind(d) \/ DieRemove(d)
    \/ Die
    \/ Start

UsbSpec == UsbInit /\ [][UsbNext]_vars

\* The work queue thread runs, the host controller ends an URB it is told to,
\* QEMU goes on closing, and a process that exits goes on exiting.
Fairness ==
    /\ \A d \in Dev : WF_vars(Worker(d)) /\ WF_vars(HcUnlink(d))
    /\ \A d \in Dev : WF_vars(ReapOnClose(d)) /\ WF_vars(Close(d))
    /\ \A d \in Dev : WF_vars(DieUnbind(d)) /\ WF_vars(DieRemove(d))
    /\ WF_vars(Start)

FairUsbSpec == UsbSpec /\ Fairness

-----------------------------------------------------------------------------
\* Type correctness of the URB pipeline and of QEMU.
UsbTypeOK ==
    /\ created \subseteq Ctx
    /\ live \subseteq created
    /\ active \in [Ctx -> BOOLEAN]
    /\ bind \in [Dev -> Ctx \cup {NULL}]
    /\ qemu \in {"run", "dying"}
    /\ cctx \in [Dev -> Ctx \cup {NULL}]
    /\ session \in [Dev -> {"closed", "open", "reaping", "closing"}]
    /\ stage \in [Dev -> {"none", "hc", "work"}]
    /\ killed \in [Dev -> BOOLEAN]
    /\ done \in [Dev -> Seq(Packet)]
    /\ kpos \in [Ctx -> 0 .. MaxPos]
    /\ upos \in [Ctx -> 0 .. MaxPos]
    /\ lost \subseteq Ctx
    /\ handed \in [Dev -> Nat]

\* What the device sends reaches a QEMU that has the device open only as
\* ciphertext: no plaintext URB waits for it, over any sequence of connects,
\* disconnects and cancels (priv_usb_urb_enc, usb_dev_connect).  A release is
\* the exception, as usb_dev_disconnect deactivates before it closes and the
\* close reaps: it gives the guest the one packet that was outstanding, if the
\* device answers between the two, and no other.
CipherOnly ==
    \A d \in Dev :
        /\ qemu = "run" /\ session[d] = "open" =>
              \A i \in DOMAIN done[d] : done[d][i].data # "plain"
        /\ handed[d] <= 1

\* The two counters agree: as long as no encrypted packet was dropped, the
\* packets that wait for QEMU were encrypted at the positions at which QEMU is
\* going to decrypt them (priv_crypt on both sides).
InStep ==
    \A d \in Dev : qemu = "run" /\ cctx[d] # NULL /\ cctx[d] \notin lost =>
        /\ kpos[cctx[d]] = upos[cctx[d]] + Cardinality(Ciphers(done[d]))
        /\ \A i \in Ciphers(done[d]) :
              done[d][i].pos = upos[cctx[d]] + Cardinality({j \in Ciphers(done[d]) : j < i})

\* QEMU is never held up for ever by a cancel, a disconnect or its own exit:
\* each waits for an URB to be given back (usb_kill_urb).
Unblocks == ~Running ~> Running

\* priv_usb_urb_enc (usb.c:66) prints "context no longer activated - erasing
\* data": an URB that was put off to be encrypted is not given back as it came.
ErasedOrEncrypted ==
    [][\A d \in Dev : stage[d] = "work" /\ stage'[d] = "none" =>
          done'[d][Len(done'[d])].data # "plain"]_vars
=============================================================================
