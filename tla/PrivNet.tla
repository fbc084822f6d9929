------------------------------- MODULE PrivNet -------------------------------
(***************************************************************************)
(* Private networking: frames of a VM are encrypted between QEMU and the   *)
(* network driver.  privnet.c files, under the MAC address of the VM, a    *)
(* context for each direction; e1000e_priv encrypts what it receives for   *)
(* that address and decrypts what it sends from it; QEMU does the opposite *)
(* at its tap device (net/tap.c), and sets it all up in priv_nic_init.     *)
(*                                                                         *)
(* Every QEMU has one encrypted NIC; its MAC address is named like it.     *)
(* AES-CTR is exclusive-or with a piece of the key stream: a frame is the  *)
(* set of pieces it carries, none of them when it is in the clear, and     *)
(* encrypting and decrypting are the same operation.  Both ends change the *)
(* Ethernet type as well, which is counted in shift.  What the context     *)
(* service promises (CtxService) is taken for granted: a context that goes *)
(* away leaves its places empty.                                           *)
(***************************************************************************)
EXTENDS Integers, Sequences

CONSTANTS
    Qemu,         \* QEMU processes, and the MAC addresses of their VMs
    NULL,
    TunCap,       \* frames the tap device holds on their way to the host
    MaxFrames     \* bound on the frames that enter the system

ASSUME NetAssumption ==
    /\ NULL \notin Qemu /\ NULL \notin [in : Qemu \cup {NULL}, out : Qemu \cup {NULL}]
    /\ TunCap \in Nat \ {0} /\ MaxFrames \in Nat

VARIABLES
    pc,           \* where a QEMU is: off, made, parsed, filed, half, on
    mac_buff,     \* the static buffer of privnet_store
    node,         \* mac_tree: MAC -> NULL or the two places
    kpos,         \* <<QEMU, direction>> -> pieces the kernel's context has used
    upos,         \* the same for QEMU's
    tapin,        \* QEMU -> frames that wait to be read from the tap device
    queued,       \* QEMU -> frames of the VM waiting for the tap device
    write_poll,   \* QEMU -> it waits until the tap device is writable, or
                  \* flushes its queue
    tapout,       \* QEMU -> frames of the VM on their way to the driver
    ring,         \* QEMU -> the frame of the VM in the transmit ring, if any
    frames,       \* frames so far
    amiss,        \* history: <<QEMU, direction>> whose two ends may disagree
    garbled,      \* history: the same, a frame came out wrong
    leftover      \* history: VMs of which a decrypted frame was freed as it was

setupVars == <<pc, mac_buff, node>>
dataVars == <<kpos, upos, tapin, queued, write_poll, tapout, ring, frames>>
histVars == <<amiss, garbled, leftover>>
netVars == <<setupVars, dataVars, histVars>>

Dir == {"in", "out"}
End == Qemu \X Dir
Piece == End \X Nat
Frame == [body : SUBSET Piece, shift : Int]
Clear == [body |-> {}, shift |-> 0]
Empty == [in |-> NULL, out |-> NULL]

\* Exclusive-or of a frame with a piece of the key stream, and the change of type.
Crypt(f, piece, delta) ==
    [body |-> (f.body \cup {piece}) \ (f.body \cap {piece}), shift |-> f.shift + delta]

NetInit ==
    /\ pc = [q \in Qemu |-> "off"]
    /\ mac_buff = NULL
    /\ node = [m \in Qemu |-> NULL]
    /\ kpos = [e \in End |-> 0] /\ upos = [e \in End |-> 0]
    /\ tapin = [q \in Qemu |-> <<>>]
    /\ queued = [q \in Qemu |-> <<>>]
    /\ write_poll = [q \in Qemu |-> "no"]
    /\ tapout = [q \in Qemu |-> <<>>]
    /\ ring = [q \in Qemu |-> "none"]
    /\ frames = 0
    /\ amiss = {} /\ garbled = {} /\ leftover = {}

-----------------------------------------------------------------------------
(* Setting up and going away. *)

\* The kernel's contexts of q are on.
Active(q, dir) == pc[q] = "on" \/ (pc[q] = "half" /\ dir = "in")

\* Bugs: only the input's place is emptied; the node is taken away.
WithoutCtxsIn(q) ==
    [m \in Qemu |-> IF node[m] # NULL /\ node[m].in = q THEN [node[m] EXCEPT !.in = NULL]
                                                       ELSE node[m]]

WithoutCtxsGone(q) ==
    [m \in Qemu |-> IF node[m] # NULL /\ node[m].in = q THEN NULL ELSE node[m]]

\* The tree after the contexts of q are gone: their places are empty, their node
\* stays.
WithoutCtxs(q) ==
    [m \in Qemu |-> IF node[m] # NULL /\ node[m].in = q THEN Empty ELSE node[m]]

\* What an exit of q, in order or not, leaves: its contexts are gone, and with them
\* their counters.
Leave(q) ==
    /\ pc' = [pc EXCEPT ![q] = "off"]
    /\ node' = WithoutCtxs(q)
    /\ tapin' = [tapin EXCEPT ![q] = <<>>]
    /\ queued' = [queued EXCEPT ![q] = <<>>]
    /\ write_poll' = [write_poll EXCEPT ![q] = "no"]
    /\ kpos' = [e \in End |-> IF e[1] = q THEN 0 ELSE kpos[e]]
    /\ upos' = [e \in End |-> IF e[1] = q THEN 0 ELSE upos[e]]
    /\ amiss' = (amiss \ {<<q, "in">>}) \cup {<<q, "out">>}
    /\ garbled' = garbled \ ({q} \X Dir)
    /\ UNCHANGED <<mac_buff, tapout, ring, frames, leftover>>

\* priv_nic_init: both contexts are made.  Frames of a former QEMU have left the
\* host by then.
Create(q) ==
    /\ pc[q] = "off" /\ tapout[q] = <<>> /\ ring[q] = "none"
    /\ pc' = [pc EXCEPT ![q] = "made"]
    /\ amiss' = amiss \ ({q} \X Dir)
    /\ garbled' = garbled \ ({q} \X Dir)
    /\ UNCHANGED <<mac_buff, node, dataVars, leftover>>

\* A write to add_mac or remove_mac fills the buffer all writers share, also that
\* of a QEMU whose write is under way.
Disturbed(q) == {p \in Qemu \ {q} : pc[p] = "parsed"} \X Dir

\* priv_nic_register writes to add_mac: privnet_store parses the address,
AddMac(q) ==
    /\ pc[q] = "made"
    /\ pc' = [pc EXCEPT ![q] = "parsed"]
    /\ mac_buff' = q
    /\ amiss' = amiss \cup Disturbed(q)
                    \cup (IF Disturbed(q) = {} THEN {} ELSE {q} \X Dir)
    /\ UNCHANGED <<node, dataVars, garbled, leftover>>

\* and privnet_add_mac files the contexts under what is in the buffer by then,
AddMacEnd(q) ==
    /\ pc[q] = "parsed"
    /\ node[mac_buff] = NULL
    /\ pc' = [pc EXCEPT ![q] = "filed"]
    /\ node' = [node EXCEPT ![mac_buff] = [in |-> q, out |-> q]]
    /\ UNCHANGED <<mac_buff, dataVars, histVars>>

\* unless the address is in use, or there is no memory: QEMU gives up.
AddMacFails(q) ==
    /\ pc[q] = "parsed"
    /\ Leave(q)

\* priv_activate of the input, then of the output.
Activate(q) ==
    /\ pc[q] \in {"filed", "half"}
    /\ pc' = [pc EXCEPT ![q] = IF pc[q] = "filed" THEN "half" ELSE "on"]
    /\ UNCHANGED <<mac_buff, node, dataVars, histVars>>

\* An activation fails and priv_nic_init destroys the contexts, or QEMU dies.
Die(q) ==
    /\ pc[q] \notin {"off", "parsed"}
    /\ Leave(q)

\* A write to remove_mac, by hand: nothing in the system writes there.
RemoveMac(m) ==
    /\ node[m] # NULL
    /\ mac_buff' = m
    /\ node' = [node EXCEPT ![m] = NULL]
    /\ ring' = [ring EXCEPT ![m] = IF @ = "clear" THEN "stray" ELSE @]
    /\ amiss' = amiss \cup Disturbed(NULL) \cup ({m} \X Dir)
    /\ UNCHANGED <<pc, kpos, upos, tapin, queued, write_poll, tapout, frames, garbled, leftover>>

-----------------------------------------------------------------------------
(* From the network to the VM. *)

\* The context that the driver finds for a direction of m, if any.
Place(m, dir) == IF node[m] = NULL THEN NULL ELSE node[m][dir]

\* The driver's use of it: nothing happens to the data when there is no context, or
\* it is not active (priv_crypt fails and its result is ignored).
KernelCrypt(m, dir, f) ==
    LET q == Place(m, dir)
        delta == IF node[m] = NULL THEN 0 ELSE IF dir = "in" THEN 1 ELSE -1
    IN  IF q # NULL /\ Active(q, dir)
        THEN Crypt(f, <<<<q, dir>>, kpos[<<q, dir>>]>>, delta)
        ELSE [f EXCEPT !.shift = @ + delta]

\* A bug: the counter of the output is not kept between frames.
KernelCountIn(m, dir) ==
    LET q == Place(m, dir)
    IN  IF q # NULL /\ Active(q, dir) /\ dir = "in"
        THEN [kpos EXCEPT ![<<q, dir>>] = @ + 1] ELSE kpos

KernelCount(m, dir) ==
    LET q == Place(m, dir)
    IN  IF q # NULL /\ Active(q, dir) THEN [kpos EXCEPT ![<<q, dir>>] = @ + 1] ELSE kpos

\* e1000_receive_skb of a frame for m; the bridge passes it to the tap device of
\* m, or drops it when that is full.
Receive(m, dropped) ==
    /\ frames < MaxFrames
    /\ frames' = frames + 1
    /\ pc[m] # "off"
    /\ kpos' = KernelCount(m, "in")
    /\ tapin' = IF dropped THEN tapin
                ELSE [tapin EXCEPT ![m] = Append(@, KernelCrypt(m, "in", Clear))]
    /\ amiss' = IF dropped \/ ~Active(m, "in") THEN amiss \cup {<<m, "in">>} ELSE amiss
    /\ UNCHANGED <<setupVars, upos, queued, write_poll, tapout, ring, garbled, leftover>>

\* A frame for m from the host itself does not pass the driver.
ReceiveLocal(m) ==
    /\ frames < MaxFrames
    /\ frames' = frames + 1
    /\ pc[m] # "off"
    /\ tapin' = [tapin EXCEPT ![m] = Append(@, Clear)]
    /\ amiss' = amiss \cup {<<m, "in">>}
    /\ UNCHANGED <<setupVars, kpos, upos, queued, write_poll, tapout, ring, garbled, leftover>>

\* A frame that leaves the encrypted path is in the clear again, or it is garbled.
Came(e, f) == garbled' = IF f = Clear THEN garbled ELSE garbled \cup {e}

\* tap_send: priv_crypt_packet, then the frame is the VM's.
TapSend(q) ==
    LET e == <<q, "in">>
    IN  /\ pc[q] = "on" /\ write_poll[q] # "flush"
        /\ tapin[q] # <<>>
        /\ Came(e, Crypt(Head(tapin[q]), <<e, upos[e]>>, -1))
        /\ upos' = [upos EXCEPT ![e] = @ + 1]
        /\ tapin' = [tapin EXCEPT ![q] = Tail(@)]
        /\ UNCHANGED <<setupVars, kpos, queued, write_poll, tapout, ring, frames, amiss, leftover>>

-----------------------------------------------------------------------------
(* From the VM to the network. *)

\* A frame fits into the tap device and is on its way; the loop over the queue goes
\* on with the rest, if there is any.
Sent(q, g, rest) ==
    /\ Len(tapout[q]) < TunCap
    /\ tapout' = [tapout EXCEPT ![q] = Append(@, g)]
    /\ queued' = [queued EXCEPT ![q] = rest]
    /\ write_poll' = [write_poll EXCEPT ![q] = IF rest = <<>> THEN "no" ELSE @]
    /\ UNCHANGED amiss

\* EAGAIN: it is the first of the queue, and QEMU waits (or not).
Requeued(q, g, rest, wait) ==
    /\ Len(tapout[q]) = TunCap
    /\ queued' = [queued EXCEPT ![q] = <<g>> \o rest]
    /\ write_poll' = [write_poll EXCEPT ![q] = wait]
    /\ amiss' = amiss \cup {<<q, "out">>}
    /\ UNCHANGED tapout

\* A bug: QEMU does not wait for the tap device.
TapWriteNoPoll(q, f, rest) ==
    LET e == <<q, "out">>
        g == Crypt(f, <<e, upos[e]>>, 1)
    IN  /\ upos' = [upos EXCEPT ![e] = @ + 1]
        /\ Sent(q, g, rest) \/ Requeued(q, g, rest, "no")

\* A bug: the frame is written as it is.
TapWriteClear(q, f, rest) ==
    /\ Sent(q, f, rest) \/ Requeued(q, f, rest, "wait")
    /\ UNCHANGED upos

\* tap_write_packet of the frame f, with rest queued behind it: f is encrypted in
\* place before writev, and if the tap device is full it is queued as it is then.
TapWrite(q, f, rest) ==
    LET e == <<q, "out">>
        g == Crypt(f, <<e, upos[e]>>, 1)
    IN  /\ upos' = [upos EXCEPT ![e] = @ + 1]
        /\ Sent(q, g, rest) \/ Requeued(q, g, rest, "wait")

\* The VM sends a frame; while others are queued (receive_disabled) it queues up.
VmSend(q) ==
    /\ pc[q] = "on" /\ write_poll[q] # "flush"
    /\ frames < MaxFrames
    /\ frames' = frames + 1
    /\ \/ /\ queued[q] = <<>>
          /\ TapWrite(q, Clear, <<>>)
       \/ /\ queued[q] # <<>>
          /\ queued' = [queued EXCEPT ![q] = Append(@, Clear)]
          /\ UNCHANGED <<upos, tapout, write_poll, amiss>>
    /\ UNCHANGED <<setupVars, kpos, tapin, ring, garbled, leftover>>

\* tap_writable: the queue is flushed,
TapWritable(q) ==
    /\ write_poll[q] = "wait" /\ Len(tapout[q]) < TunCap
    /\ write_poll' = [write_poll EXCEPT ![q] = "flush"]
    /\ UNCHANGED <<setupVars, kpos, upos, tapin, queued, tapout, ring, frames, histVars>>

\* frame by frame (qemu_net_queue_flush), which encrypts each of them, also one that
\* was encrypted before.
Flush(q) ==
    /\ write_poll[q] = "flush"
    /\ TapWrite(q, Head(queued[q]), Tail(queued[q]))
    /\ UNCHANGED <<setupVars, kpos, tapin, ring, frames, garbled, leftover>>

\* QEMU's priv_crypt fails: a frame that came in is dropped, one that goes out is
\* cleared and so lost on the network.
CryptFails(q, dir) ==
    /\ pc[q] = "on" /\ write_poll[q] # "flush"
    /\ \/ /\ dir = "in" /\ tapin[q] # <<>>
          /\ tapin' = [tapin EXCEPT ![q] = Tail(@)]
          /\ UNCHANGED frames
       \/ /\ dir = "out" /\ queued[q] = <<>> /\ frames < MaxFrames
          /\ frames' = frames + 1
          /\ UNCHANGED tapin
    /\ amiss' = amiss \cup {<<q, dir>>}
    /\ UNCHANGED <<setupVars, kpos, upos, queued, write_poll, tapout, ring, garbled, leftover>>

\* The bridge drops a frame of the VM, or delivers it on the host, where nothing
\* decrypts it.
DropOut(q) ==
    /\ tapout[q] # <<>>
    /\ tapout' = [tapout EXCEPT ![q] = Tail(@)]
    /\ amiss' = amiss \cup {<<q, "out">>}
    /\ UNCHANGED <<setupVars, kpos, upos, tapin, queued, write_poll, ring, frames, garbled, leftover>>

\* e1000_tx_queue: the frame is decrypted where it is and given to the card.
Transmit(q) ==
    /\ tapout[q] # <<>> /\ ring[q] = "none"
    /\ tapout' = [tapout EXCEPT ![q] = Tail(@)]
    /\ LET f == KernelCrypt(q, "out", Head(tapout[q]))
       IN  /\ Came(<<q, "out">>, f)
           /\ ring' = [ring EXCEPT ![q] = IF f.body = {} THEN "clear" ELSE "coded"]
    /\ kpos' = KernelCount(q, "out")
    /\ UNCHANGED <<setupVars, upos, tapin, queued, write_poll, frames, amiss, leftover>>

\* e1000_put_txbuf: a frame from an address of the tree is erased, then freed.
PutTxbuf(q) ==
    /\ ring[q] # "none"
    /\ ring' = [ring EXCEPT ![q] = "none"]
    /\ leftover' = IF node[q] = NULL /\ ring[q] = "clear" THEN leftover \cup {q} ELSE leftover
    /\ UNCHANGED <<setupVars, kpos, upos, tapin, queued, write_poll, tapout, frames, amiss, garbled>>

-----------------------------------------------------------------------------
Setup(q) ==
    \/ Create(q) \/ AddMac(q) \/ AddMacEnd(q) \/ AddMacFails(q) \/ Activate(q)
    \/ Die(q) \/ RemoveMac(q)

NetNext ==
    \E q \in Qemu :
        \/ Setup(q)
        \/ \E dropped \in BOOLEAN : Receive(q, dropped)
        \/ ReceiveLocal(q) \/ TapSend(q)
        \/ VmSend(q) \/ TapWritable(q) \/ Flush(q)
        \/ \E dir \in Dir : CryptFails(q, dir)
        \/ DropOut(q) \/ Transmit(q) \/ PutTxbuf(q)

\* The main loop of QEMU runs the handlers that are ready; the host's network stack
\* and the card go on by themselves.
NetFairness ==
    \A q \in Qemu :
        /\ WF_netVars(TapWritable(q)) /\ WF_netVars(Flush(q))
        /\ WF_netVars(Transmit(q)) /\ WF_netVars(PutTxbuf(q))

NetSpec == NetInit /\ [][NetNext]_netVars /\ NetFairness

-----------------------------------------------------------------------------
\* The state keeps its types; a node of mac_tree has both of its contexts or
\* neither, and QEMU waits for the tap device only as long as frames are queued.
NetTypeOK ==
    /\ pc \in [Qemu -> {"off", "made", "parsed", "filed", "half", "on"}]
    /\ mac_buff \in Qemu \cup {NULL}
    /\ node \in [Qemu -> {NULL, Empty} \cup {[in |-> q, out |-> q] : q \in Qemu}]
    /\ kpos \in [End -> Nat] /\ upos \in [End -> Nat]
    /\ tapin \in [Qemu -> Seq(Frame)]
    /\ queued \in [Qemu -> Seq(Frame)]
    /\ tapout \in [Qemu -> Seq(Frame)]
    /\ \A q \in Qemu : Len(tapout[q]) <= TunCap
    /\ ring \in [Qemu -> {"none", "clear", "coded", "stray"}]
    /\ write_poll \in [Qemu -> {"no", "wait", "flush"}]
    /\ \A q \in Qemu : write_poll[q] # "no" => queued[q] # <<>>
    /\ frames \in 0 .. MaxFrames
    /\ amiss \subseteq End /\ garbled \subseteq End /\ leftover \subseteq Qemu

\* The two ends of a direction use the same piece of the key stream for the same
\* frame, so that it comes out as it went in, unless a frame was lost or took a way
\* around the driver, the tap device was full, priv_crypt failed, its QEMU ended
\* with frames under way, or the address was removed by hand or registered by
\* two writers at once.  Nothing else may bring privnet.c, the driver and net/tap.c
\* out of step.
Intelligible == garbled \subseteq amiss

\* What the VM sends is encrypted from tap_write_packet to e1000_tx_queue, also
\* when the tap device was full and the frame was encrypted twice; what it receives
\* is encrypted from e1000_receive_skb on, unless it took a way around the driver or
\* came before the activation.
Sealed ==
    \A q \in Qemu :
        /\ \A i \in 1 .. Len(tapout[q]) : tapout[q][i].body # {}
        /\ <<q, "in">> \notin amiss =>
               \A i \in 1 .. Len(tapin[q]) : tapin[q][i].body # {}

\* A frame that was decrypted for the card is erased before its memory is freed,
\* also when its VM has died in between (erase_vm_frame still finds the address),
\* unless the address was taken out by hand in between.
FramesErased == leftover = {}

\* Frames that found the tap device full are sent in the end.
Drains == \A q \in Qemu : (queued[q] # <<>>) ~> (queued[q] = <<>>)
=============================================================================
