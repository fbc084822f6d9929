---------------------------- MODULE PrivNetProofs ----------------------------
(***************************************************************************)
(* Proofs about PrivNet, for any number of QEMUs, of frames and any        *)
(* capacity of the tap device.  NetInv is inductive: an end that is not    *)
(* amiss is filed under its own address, and the frames on their way are   *)
(* the run of the key stream between its two counters.                     *)
(***************************************************************************)
EXTENDS PrivNet, SequenceTheorems, TLAPS

\* A frame with one piece of the key stream, and a sequence of such frames that
\* starts with piece b of the end e.
Coded(e, n) == [body |-> {<<e, n>>}, shift |-> 1]
Run(s, e, b) == \A i \in 1 .. Len(s) : s[i] = Coded(e, b + i - 1)

\* Frames that carry only pieces of the end e before u; frames that carry some.
Covered(s, e, u) == \A i \in 1 .. Len(s) : \A x \in s[i].body : x[1] = e /\ x[2] < u
Opaque(s) == \A i \in 1 .. Len(s) : s[i].body # {}

\* The node of mac_tree with the contexts of q.
Filed(q) == [in |-> q, out |-> q]

\* The contexts of a QEMU are filed under one address at most, once it has filed
\* them; under its own, if nobody disturbed it.
HomeInv ==
    /\ \A q, m \in Qemu : node[m] = Filed(q) =>
           pc[q] \in {"filed", "half", "on"} /\ \A l \in Qemu : node[l] = Filed(q) => l = m
    /\ \A q \in Qemu : pc[q] = "parsed" => mac_buff \in Qemu
    /\ \A q \in Qemu, dir \in Dir : <<q, dir>> \notin amiss =>
           /\ pc[q] = "parsed" => mac_buff = q
           /\ pc[q] \in {"filed", "half", "on"} => node[q] = Filed(q)

\* A QEMU that does not run has left nothing behind, except on its way out.
OffInv ==
    \A q \in Qemu : pc[q] = "off" =>
        /\ tapin[q] = <<>> /\ queued[q] = <<>>
        /\ \A dir \in Dir : kpos[<<q, dir>>] = 0 /\ upos[<<q, dir>>] = 0

\* What waits in the tap device is the key stream between the two counters.
StepInInv ==
    \A q \in Qemu : <<q, "in">> \notin amiss =>
        /\ kpos[<<q, "in">>] = upos[<<q, "in">>] + Len(tapin[q])
        /\ Run(tapin[q], <<q, "in">>, upos[<<q, "in">>])

\* The same for what is on its way out.
StepOutInv ==
    \A q \in Qemu : <<q, "out">> \notin amiss =>
        /\ queued[q] = <<>>
        /\ tapout[q] # <<>> => pc[q] = "on"
        /\ upos[<<q, "out">>] = kpos[<<q, "out">>] + Len(tapout[q])
        /\ Run(tapout[q], <<q, "out">>, kpos[<<q, "out">>])

\* No piece is used twice for a frame of the queue, so none is in the clear after it
\* was encrypted again.
QueueInv ==
    \A q \in Qemu :
        /\ Covered(queued[q], <<q, "out">>, upos[<<q, "out">>])
        /\ Opaque(tapout[q])

\* A decrypted frame in the transmit ring is from an address of the tree.
RingInv == FramesErased /\ \A q \in Qemu : ring[q] = "clear" => node[q] # NULL

NetInv ==
    NetTypeOK /\ HomeInv /\ OffInv /\ StepInInv /\ StepOutInv /\ QueueInv /\ RingInv
        /\ Intelligible

-----------------------------------------------------------------------------
(* Frames, sequences of frames and nodes. *)

LEMMA Nodes ==
    /\ \A q \in Qemu : /\ Filed(q) # NULL /\ Filed(q) # Empty
                       /\ Filed(q).in = q /\ Filed(q)["in"] = q /\ Filed(q)["out"] = q
                       /\ [in |-> q, out |-> q] = Filed(q)
                       /\ \A p \in Qemu : Filed(p) = Filed(q) => p = q
    /\ Empty # NULL /\ Empty["in"] = NULL /\ Empty["out"] = NULL /\ Empty.in = NULL
<1>1. \A q \in Qemu : Filed(q) \in [in : Qemu \cup {NULL}, out : Qemu \cup {NULL}]
  BY DEF Filed
<1>2. Empty \in [in : Qemu \cup {NULL}, out : Qemu \cup {NULL}]
  BY DEF Empty
<1>3. \A q \in Qemu : /\ Filed(q).in = q /\ Filed(q)["in"] = q /\ Filed(q)["out"] = q
                     /\ [in |-> q, out |-> q] = Filed(q)
  BY DEF Filed
<1>4. Empty["in"] = NULL /\ Empty["out"] = NULL /\ Empty.in = NULL
  BY DEF Empty
<1> QED BY <1>1, <1>2, <1>3, <1>4, NetAssumption

LEMMA NodeTypes ==
    ASSUME NetTypeOK, NEW m \in Qemu
    PROVE  node[m] = NULL \/ node[m] = Empty \/ \E q \in Qemu : node[m] = Filed(q)
BY DEF NetTypeOK, Filed

LEMMA FrameTypes ==
    /\ Clear \in Frame /\ Clear.body = {}
    /\ \A e \in End, n \in Nat : Coded(e, n) \in Frame /\ Coded(e, n).body # {}
    /\ \A q \in Qemu, dir \in Dir : <<q, dir>> \in End
    /\ \A e \in End, n \in Nat : <<e, n>> \in Piece
BY DEF Clear, Frame, Coded, End, Piece, Dir

\* Crypt adds or removes a piece; what was encrypted once and decrypted with the
\* same piece is in the clear.
LEMMA Crypts ==
    ASSUME NEW f \in Frame, NEW e \in End, NEW n \in Nat, NEW d \in {-1, 0, 1}
    PROVE  /\ Crypt(f, <<e, n>>, d) \in Frame
           /\ <<e, n>> \notin f.body => Crypt(f, <<e, n>>, d).body = f.body \cup {<<e, n>>}
           /\ Crypt(Clear, <<e, n>>, 1) = Coded(e, n)
           /\ Crypt(Coded(e, n), <<e, n>>, -1) = Clear
<1>1. <<e, n>> \in Piece
  BY DEF Piece
<1>2. Crypt(f, <<e, n>>, d) \in Frame
  BY <1>1 DEF Crypt, Frame
<1>3. <<e, n>> \notin f.body => Crypt(f, <<e, n>>, d).body = f.body \cup {<<e, n>>}
  BY DEF Crypt
<1>4. Crypt(Clear, <<e, n>>, 1) = Coded(e, n)
  BY DEF Crypt, Clear, Coded
<1>5. Crypt(Coded(e, n), <<e, n>>, -1) = Clear
  BY DEF Crypt, Clear, Coded
<1> QED BY <1>2, <1>3, <1>4, <1>5

\* The operations on sequences of frames keep what is known of them.
LEMMA EmptyRun ==
    ASSUME NEW e, NEW b
    PROVE  Run(<<>>, e, b) /\ Covered(<<>>, e, b) /\ Opaque(<<>>)
BY DEF Run, Covered, Opaque

LEMMA AppendRun ==
    ASSUME NEW s \in Seq(Frame), NEW f \in Frame, NEW e \in End, NEW b \in Nat
    PROVE  /\ Append(s, f) \in Seq(Frame) /\ Len(Append(s, f)) = Len(s) + 1 /\ Len(s) \in Nat
           /\ Append(s, f) # <<>>
           /\ Run(s, e, b) /\ f = Coded(e, b + Len(s)) => Run(Append(s, f), e, b)
           /\ Covered(s, e, b) /\ f = Clear => Covered(Append(s, f), e, b)
           /\ Opaque(s) /\ f.body # {} => Opaque(Append(s, f))
<1> DEFINE t == Append(s, f)
<1>1. /\ t \in Seq(Frame) /\ Len(t) = Len(s) + 1 /\ Len(s) \in Nat
      /\ \A i \in 1 .. Len(s) : t[i] = s[i]
      /\ t[Len(s) + 1] = f
  OBVIOUS
<1>2. t # <<>>
  BY <1>1
<1> HIDE DEF t
<1>3. \A i \in 1 .. Len(t) : i \in 1 .. Len(s) \/ i = Len(s) + 1
  BY <1>1
<1>4. Run(s, e, b) /\ f = Coded(e, b + Len(s)) => Run(t, e, b)
  <2>1. b + (Len(s) + 1) - 1 = b + Len(s)
    BY <1>1
  <2> QED BY <1>1, <1>3, <2>1 DEF Run
<1>5. Covered(s, e, b) /\ f = Clear => Covered(t, e, b)
  BY <1>1, <1>3, FrameTypes DEF Covered
<1>6. Opaque(s) /\ f.body # {} => Opaque(t)
  BY <1>1, <1>3 DEF Opaque
<1> QED BY <1>1, <1>2, <1>4, <1>5, <1>6 DEF t

LEMMA TailRun ==
    ASSUME NEW s \in Seq(Frame), s # <<>>, NEW e \in End, NEW b \in Nat
    PROVE  /\ Head(s) \in Frame /\ Tail(s) \in Seq(Frame)
           /\ Len(Tail(s)) = Len(s) - 1 /\ Len(s) \in Nat /\ Len(s) > 0
           /\ Run(s, e, b) => Head(s) = Coded(e, b) /\ Run(Tail(s), e, b + 1)
           /\ Covered(s, e, b) => Covered(Tail(s), e, b)
           /\ Covered(s, e, b) => \A x \in Head(s).body : x[1] = e /\ x[2] < b
           /\ Opaque(s) => Head(s).body # {} /\ Opaque(Tail(s))
<1> DEFINE t == Tail(s)
<1>1. /\ t \in Seq(Frame) /\ Len(t) = Len(s) - 1 /\ Len(s) \in Nat /\ Len(s) > 0
      /\ \A i \in 1 .. Len(t) : t[i] = s[i + 1]
      /\ Head(s) = s[1] /\ Head(s) \in Frame
  OBVIOUS
<1> HIDE DEF t
<1>2. 1 \in 1 .. Len(s) /\ \A i \in 1 .. Len(t) : i + 1 \in 1 .. Len(s)
  BY <1>1
<1>3. Run(s, e, b) => Head(s) = Coded(e, b) /\ Run(t, e, b + 1)
  <2>1. b + 1 - 1 = b /\ \A i \in 1 .. Len(t) : b + (i + 1) - 1 = (b + 1) + i - 1
    BY <1>1
  <2> QED BY <1>1, <1>2, <2>1 DEF Run
<1>4. Covered(s, e, b) => Covered(t, e, b) /\ \A x \in Head(s).body : x[1] = e /\ x[2] < b
  BY <1>1, <1>2 DEF Covered
<1>5. Opaque(s) => Head(s).body # {} /\ Opaque(t)
  BY <1>1, <1>2 DEF Opaque
<1> QED BY <1>1, <1>3, <1>4, <1>5 DEF t

LEMMA RequeueRun ==
    ASSUME NEW s \in Seq(Frame), NEW g \in Frame, NEW e \in End, NEW b \in Nat
    PROVE  /\ <<g>> \o s \in Seq(Frame) /\ <<g>> \o s # <<>>
           /\ Covered(s, e, b) /\ (\A x \in g.body : x[1] = e /\ x[2] < b + 1) =>
                  Covered(<<g>> \o s, e, b + 1)
           /\ Covered(s, e, b) /\ s \in Seq(Frame) => Covered(s, e, b + 1)
<1> DEFINE t == <<g>> \o s
<1>1. /\ t \in Seq(Frame) /\ Len(t) = Len(s) + 1 /\ Len(s) \in Nat /\ t[1] = g
      /\ \A i \in 2 .. Len(t) : t[i] = s[i - 1]
  OBVIOUS
<1>2. t # <<>>
  BY <1>1
<1> HIDE DEF t
<1>3. \A i \in 1 .. Len(t) : i = 1 \/ (i \in 2 .. Len(t) /\ i - 1 \in 1 .. Len(s))
  BY <1>1
<1>4. Covered(s, e, b) => Covered(s, e, b + 1)
  <2>1. ASSUME Covered(s, e, b), NEW i \in 1 .. Len(s), NEW x \in s[i].body
        PROVE  x[1] = e /\ x[2] < b + 1
    <3>0. s[i] \in Frame
      OBVIOUS
    <3>1. s[i].body \subseteq Piece
      BY <3>0 DEF Frame
    <3>2. x[2] \in Nat /\ x[2] < b /\ x[1] = e
      BY <2>1, <3>1 DEF Piece, Covered
    <3> QED BY <3>2
  <2> QED BY <2>1 DEF Covered
<1>5. Covered(s, e, b) /\ (\A x \in g.body : x[1] = e /\ x[2] < b + 1) => Covered(t, e, b + 1)
  BY <1>1, <1>3, <1>4 DEF Covered
<1> QED BY <1>1, <1>2, <1>4, <1>5 DEF t

-----------------------------------------------------------------------------
(* The kernel's use of the tree. *)

LEMMA Places ==
    ASSUME NetTypeOK, NEW m \in Qemu, NEW dir \in Dir
    PROVE  /\ Place(m, dir) = NULL \/ (Place(m, dir) \in Qemu /\ node[m] = Filed(Place(m, dir)))
           /\ \A q \in Qemu : node[m] = Filed(q) => Place(m, dir) = q
<1>1. dir = "in" \/ dir = "out"
  BY DEF Dir
<1>2. CASE node[m] = NULL
  BY <1>2, Nodes DEF Place
<1>3. CASE node[m] = Empty
  BY <1>1, <1>3, Nodes DEF Place
<1>4. ASSUME NEW q \in Qemu, node[m] = Filed(q)
      PROVE  Place(m, dir) = q /\ \A p \in Qemu : node[m] = Filed(p) => p = q
  BY <1>1, <1>4, Nodes DEF Place
<1> QED BY <1>2, <1>3, <1>4, NodeTypes

\* The counter of the context that is found moves on, if it is active.
LEMMA KernelCounts ==
    ASSUME NetTypeOK, NEW m \in Qemu, NEW dir \in Dir
    PROVE  /\ KernelCount(m, dir) \in [End -> Nat]
           /\ \A p \in Qemu, d \in Dir : KernelCount(m, dir)[<<p, d>>] # kpos[<<p, d>>] =>
                  d = dir /\ node[m] = Filed(p) /\ Active(p, dir)
           /\ \A q \in Qemu : node[m] = Filed(q) /\ Active(q, dir) =>
                  KernelCount(m, dir)[<<q, dir>>] = kpos[<<q, dir>>] + 1
<1> DEFINE q == Place(m, dir)
<1>1. CASE q # NULL /\ Active(q, dir)
  <2>1. q \in Qemu /\ node[m] = Filed(q) /\ <<q, dir>> \in End
    BY <1>1, Places, FrameTypes
  <2>2. KernelCount(m, dir) = [kpos EXCEPT ![<<q, dir>>] = @ + 1]
    BY <1>1 DEF KernelCount
  <2>3. \A p \in Qemu : node[m] = Filed(p) => p = q
    BY <2>1, Nodes
  <2> HIDE DEF q
  <2>4. KernelCount(m, dir) \in [End -> Nat]
    BY <2>1, <2>2 DEF NetTypeOK
  <2>5. ASSUME NEW p \in Qemu, NEW d \in Dir, KernelCount(m, dir)[<<p, d>>] # kpos[<<p, d>>]
        PROVE  d = dir /\ p = q
    <3>1. <<p, d>> \in End
      BY FrameTypes
    <3>2. <<p, d>> = <<q, dir>>
      BY <2>1, <2>2, <2>5, <3>1 DEF NetTypeOK
    <3> QED BY <3>2
  <2>6. KernelCount(m, dir)[<<q, dir>>] = kpos[<<q, dir>>] + 1
    BY <2>1, <2>2 DEF NetTypeOK
  <2> QED BY <1>1, <2>1, <2>3, <2>4, <2>5, <2>6
<1>2. CASE ~(q # NULL /\ Active(q, dir))
  <2>1. KernelCount(m, dir) = kpos
    BY <1>2 DEF KernelCount
  <2>2. \A p \in Qemu : ~(node[m] = Filed(p) /\ Active(p, dir))
    BY <1>2, Places, NetAssumption
  <2>3. kpos \in [End -> Nat]
    BY DEF NetTypeOK
  <2> QED BY <2>1, <2>2, <2>3
<1> QED BY <1>1, <1>2

\* Only the setup and the end of a QEMU can disturb where contexts are filed.
LEMMA HomeKept ==
    ASSUME HomeInv, UNCHANGED <<pc, node, mac_buff>>, amiss \subseteq amiss'
    PROVE  HomeInv'
BY DEF HomeInv

\* What the driver makes of a frame.
LEMMA KernelCrypts ==
    ASSUME NetTypeOK, NEW m \in Qemu, NEW dir \in Dir, NEW f \in Frame
    PROVE  /\ KernelCrypt(m, dir, f) \in Frame
           /\ node[m] = NULL => KernelCrypt(m, dir, f).body = f.body
           /\ \A q \in Qemu : node[m] = Filed(q) /\ Active(q, dir) =>
                  KernelCrypt(m, dir, f) =
                      Crypt(f, <<<<q, dir>>, kpos[<<q, dir>>]>>, IF dir = "in" THEN 1 ELSE -1)
<1> DEFINE q == Place(m, dir)
           delta == IF node[m] = NULL THEN 0 ELSE IF dir = "in" THEN 1 ELSE -1
<1>0. delta \in {-1, 0, 1} /\ f.body \in SUBSET Piece /\ f.shift \in Int
  BY DEF Frame
<1>1. [f EXCEPT !.shift = @ + delta] \in Frame /\ [f EXCEPT !.shift = @ + delta].body = f.body
  <2>1. f.shift + delta \in Int
    BY <1>0
  <2> HIDE DEF delta
  <2> QED BY <2>1 DEF Frame
<1>2. CASE q # NULL /\ Active(q, dir)
  <2>1. q \in Qemu /\ node[m] = Filed(q) /\ <<q, dir>> \in End /\ node[m] # NULL
    BY <1>2, Places, FrameTypes, Nodes
  <2>2. KernelCrypt(m, dir, f) = Crypt(f, <<<<q, dir>>, kpos[<<q, dir>>]>>, delta)
    BY <1>2 DEF KernelCrypt
  <2>3. \A p \in Qemu : node[m] = Filed(p) => p = q
    BY <2>1, Nodes, ZenonT(30)
  <2>4. kpos[<<q, dir>>] \in Nat
    BY <2>1 DEF NetTypeOK
  <2>5. delta = IF dir = "in" THEN 1 ELSE -1
    BY <2>1
  <2> HIDE DEF q, delta
  <2>6. KernelCrypt(m, dir, f) \in Frame
    BY <1>0, <2>1, <2>2, <2>4, Crypts
  <2> QED BY <2>1, <2>2, <2>3, <2>5, <2>6
<1>3. CASE ~(q # NULL /\ Active(q, dir))
  <2>1. KernelCrypt(m, dir, f) = [f EXCEPT !.shift = @ + delta]
    BY <1>3 DEF KernelCrypt
  <2>2. \A p \in Qemu : ~(node[m] = Filed(p) /\ Active(p, dir))
    BY <1>3, Places, NetAssumption
  <2> QED BY <1>1, <2>1, <2>2
<1> QED BY <1>2, <1>3

\* The tree after an exit.
LEMMA Without ==
    ASSUME NetTypeOK, NEW q \in Qemu
    PROVE  /\ WithoutCtxs(q) \in [Qemu -> {NULL, Empty} \cup {[in |-> p, out |-> p] : p \in Qemu}]
           /\ \A m \in Qemu : WithoutCtxs(q)[m] = IF node[m] = Filed(q) THEN Empty ELSE node[m]
<1>1. ASSUME NEW m \in Qemu
      PROVE  node[m] # NULL /\ node[m].in = q <=> node[m] = Filed(q)
  <2>1. node[m] = NULL \/ node[m] = Empty \/ \E p \in Qemu : node[m] = Filed(p)
    BY NodeTypes
  <2>2. CASE node[m] = NULL
    BY <2>2, Nodes
  <2>3. CASE node[m] = Empty
    BY <2>3, Nodes, NetAssumption
  <2>4. CASE \E p \in Qemu : node[m] = Filed(p)
    BY <2>4, Nodes
  <2> QED BY <2>1, <2>2, <2>3, <2>4
<1> QED BY <1>1 DEF WithoutCtxs, NetTypeOK

-----------------------------------------------------------------------------
(* The steps. *)

LEMMA NetInvInit == NetInit => NetInv
<1> SUFFICES ASSUME NetInit PROVE NetInv
  OBVIOUS
<1> USE NetAssumption DEF NetInit
<1>1. NetTypeOK
  <2>1. <<>> \in Seq(Frame) /\ Len(<<>>) = 0
    OBVIOUS
  <2> QED BY <2>1 DEF NetTypeOK
<1>2. HomeInv /\ OffInv
  BY Nodes, FrameTypes DEF HomeInv, OffInv
<1>3. StepInInv /\ StepOutInv /\ QueueInv
  <2>1. Len(<<>>) = 0
    OBVIOUS
  <2>2. ASSUME NEW q \in Qemu, NEW dir \in Dir
        PROVE  /\ kpos[<<q, dir>>] = 0 /\ upos[<<q, dir>>] = 0
               /\ tapin[q] = <<>> /\ tapout[q] = <<>> /\ queued[q] = <<>>
    BY FrameTypes
  <2>3. "in" \in Dir /\ "out" \in Dir
    BY DEF Dir
  <2> QED BY <2>1, <2>2, <2>3, EmptyRun DEF StepInInv, StepOutInv, QueueInv
<1>4. RingInv /\ Intelligible
  BY DEF RingInv, Intelligible, FramesErased
<1> QED BY <1>1, <1>2, <1>3, <1>4 DEF NetInv

LEMMA CreateStep ==
    ASSUME NetInv, NEW q \in Qemu, Create(q)
    PROVE  NetInv'
<1> USE NetAssumption, FrameTypes DEF NetInv, Create, setupVars, dataVars, histVars
<1>1. NetTypeOK'
  BY DEF NetTypeOK
<1>2. HomeInv'
  BY Nodes DEF NetTypeOK, HomeInv
<1>3. OffInv'
  BY DEF NetTypeOK, OffInv
<1>4. StepInInv'
  BY EmptyRun DEF NetTypeOK, StepInInv, OffInv
<1>5. StepOutInv'
  BY EmptyRun DEF NetTypeOK, StepOutInv, OffInv
<1>6. QueueInv'
  BY EmptyRun DEF NetTypeOK, QueueInv, OffInv
<1>7. RingInv'
  BY Nodes DEF NetTypeOK, RingInv, FramesErased
<1>8. Intelligible'
  BY DEF NetTypeOK, Intelligible
<1> QED BY <1>1, <1>2, <1>3, <1>4, <1>5, <1>6, <1>7, <1>8

LEMMA AddMacStep ==
    ASSUME NetInv, NEW q \in Qemu, AddMac(q)
    PROVE  NetInv'
<1> USE NetAssumption, FrameTypes DEF NetInv, AddMac, Disturbed, setupVars, dataVars, histVars
<1>1. NetTypeOK'
  BY DEF NetTypeOK
<1>2. HomeInv'
  BY Nodes, SMTT(30) DEF NetTypeOK, HomeInv
<1>3. OffInv'
  BY DEF NetTypeOK, OffInv
<1>4. StepInInv'
  BY EmptyRun DEF NetTypeOK, StepInInv, OffInv
<1>5. StepOutInv'
  BY EmptyRun DEF NetTypeOK, StepOutInv, OffInv
<1>6. QueueInv'
  BY EmptyRun DEF NetTypeOK, QueueInv, OffInv
<1>7. RingInv'
  BY Nodes DEF NetTypeOK, RingInv, FramesErased
<1>8. Intelligible'
  BY DEF NetTypeOK, Intelligible
<1> QED BY <1>1, <1>2, <1>3, <1>4, <1>5, <1>6, <1>7, <1>8

LEMMA AddMacEndStep ==
    ASSUME NetInv, NEW q \in Qemu, AddMacEnd(q)
    PROVE  NetInv'
<1> USE NetAssumption, FrameTypes DEF NetInv, AddMacEnd, setupVars, dataVars, histVars
<1>1. NetTypeOK'
  BY DEF NetTypeOK
<1>2. HomeInv'
  BY Nodes, SMTT(30) DEF NetTypeOK, HomeInv
<1>3. OffInv'
  BY DEF NetTypeOK, OffInv
<1>4. StepInInv'
  BY EmptyRun DEF NetTypeOK, StepInInv, OffInv
<1>5. StepOutInv'
  BY EmptyRun DEF NetTypeOK, StepOutInv, OffInv
<1>6. QueueInv'
  BY EmptyRun DEF NetTypeOK, QueueInv, OffInv
<1>7. RingInv'
  BY Nodes DEF NetTypeOK, RingInv, FramesErased
<1>8. Intelligible'
  BY DEF NetTypeOK, Intelligible
<1> QED BY <1>1, <1>2, <1>3, <1>4, <1>5, <1>6, <1>7, <1>8

LEMMA LeaveStep ==
    ASSUME NetInv, NEW q \in Qemu, Leave(q)
    PROVE  NetInv'
<1> USE NetAssumption, FrameTypes DEF NetInv, Leave, setupVars, dataVars, histVars
<1> USE DEF Dir
<1>a. /\ node' \in [Qemu -> {NULL, Empty} \cup {[in |-> p, out |-> p] : p \in Qemu}]
      /\ \A m \in Qemu : node'[m] = IF node[m] = Filed(q) THEN Empty ELSE node[m]
  BY Without
<1>b. \A p \in Qemu, dir \in Dir :
          /\ kpos'[<<p, dir>>] = IF p = q THEN 0 ELSE kpos[<<p, dir>>]
          /\ upos'[<<p, dir>>] = IF p = q THEN 0 ELSE upos[<<p, dir>>]
  OBVIOUS
<1>c. \A p \in Qemu, dir \in Dir : p # q =>
          /\ <<p, dir>> \in amiss' <=> <<p, dir>> \in amiss
          /\ <<p, dir>> \in garbled' <=> <<p, dir>> \in garbled
  OBVIOUS
<1>d. <<q, "out">> \in amiss' /\ \A dir \in Dir : <<q, dir>> \notin garbled'
  OBVIOUS
<1>e. /\ tapin'[q] = <<>> /\ queued'[q] = <<>> /\ pc'[q] = "off" /\ write_poll'[q] = "no"
      /\ \A p \in Qemu : p # q => /\ tapin'[p] = tapin[p] /\ queued'[p] = queued[p]
                                  /\ pc'[p] = pc[p] /\ write_poll'[p] = write_poll[p]
  BY DEF NetTypeOK
<1>1. NetTypeOK'
  <2>1. kpos' \in [End -> Nat] /\ upos' \in [End -> Nat]
    BY DEF NetTypeOK
  <2>2. /\ tapin' \in [Qemu -> Seq(Frame)] /\ queued' \in [Qemu -> Seq(Frame)]
        /\ pc' \in [Qemu -> {"off", "made", "parsed", "filed", "half", "on"}]
        /\ write_poll' \in [Qemu -> {"no", "wait", "flush"}]
    BY DEF NetTypeOK
  <2>3. amiss' \subseteq End /\ garbled' \subseteq End
    BY DEF NetTypeOK
  <2> QED BY <1>a, <1>e, <2>1, <2>2, <2>3, SMTT(30) DEF NetTypeOK
<1> USE DEF Leave
<1>2. HomeInv'
  <2> SUFFICES /\ \A p, m \in Qemu : node'[m] = Filed(p) =>
                      /\ pc'[p] \in {"filed", "half", "on"}
                      /\ \A l \in Qemu : node'[l] = Filed(p) => l = m
               /\ \A p \in Qemu : pc'[p] = "parsed" => mac_buff' \in Qemu
               /\ \A p \in Qemu, dir \in Dir : <<p, dir>> \notin amiss' =>
                      /\ pc'[p] = "parsed" => mac_buff' = p
                      /\ pc'[p] \in {"filed", "half", "on"} => node'[p] = Filed(p)
    BY DEF HomeInv
  <2> HIDE DEF Leave
  <2>0. mac_buff' = mac_buff
    BY DEF Leave
  <2>1. \A p, m \in Qemu : node'[m] = Filed(p) => node[m] = Filed(p) /\ p # q
    BY <1>a, Nodes
  <2>2. \A p \in Qemu : node[p] = Filed(p) /\ p # q => node'[p] = Filed(p)
    BY <1>a, Nodes
  <2> QED BY <2>0, <2>1, <2>2, <1>c, <1>e DEF HomeInv
<1> HIDE DEF Leave
<1>3. OffInv'
  BY <1>b, <1>e DEF OffInv
<1>4. StepInInv'
  <2> SUFFICES ASSUME NEW p \in Qemu, <<p, "in">> \notin amiss'
               PROVE  /\ kpos'[<<p, "in">>] = upos'[<<p, "in">>] + Len(tapin'[p])
                      /\ Run(tapin'[p], <<p, "in">>, upos'[<<p, "in">>])
    BY DEF StepInInv
  <2>1. CASE p = q
    <3>1. kpos'[<<q, "in">>] = 0 /\ upos'[<<q, "in">>] = 0 /\ tapin'[q] = <<>>
      BY <1>b, <1>e
    <3>2. Len(<<>>) = 0 /\ 0 = 0 + 0
      OBVIOUS
    <3> QED BY <2>1, <3>1, <3>2, EmptyRun
  <2>2. CASE p # q
    BY <2>2, <1>b, <1>c, <1>e DEF StepInInv
  <2> QED BY <2>1, <2>2
<1>5. StepOutInv'
  <2>1. tapout' = tapout
    BY DEF Leave
  <2> QED BY <2>1, <1>b, <1>c, <1>d, <1>e DEF StepOutInv
<1>6. QueueInv'
  <2>1. tapout' = tapout
    BY DEF Leave
  <2> SUFFICES ASSUME NEW p \in Qemu
               PROVE  Covered(queued'[p], <<p, "out">>, upos'[<<p, "out">>]) /\ Opaque(tapout'[p])
    BY DEF QueueInv
  <2>2. Opaque(tapout'[p])
    BY <2>1 DEF QueueInv
  <2>3. CASE p = q
    BY <2>2, <2>3, <1>e, EmptyRun
  <2>4. CASE p # q
    <3>1. queued'[p] = queued[p] /\ upos'[<<p, "out">>] = upos[<<p, "out">>]
      BY <1>b, <1>e, <2>4 DEF Dir
    <3> QED BY <2>2, <3>1 DEF QueueInv
  <2> QED BY <2>3, <2>4
<1>7. RingInv'
  <2>1. ring' = ring /\ leftover' = leftover
    BY DEF Leave
  <2> QED BY <2>1, <1>a, Nodes DEF RingInv, FramesErased
<1>8. Intelligible'
  <2>1. \A x \in garbled' : x \in garbled /\ x \notin {q} \X Dir
    BY DEF Leave
  <2>2. \A x \in amiss : x \notin {q} \X Dir => x \in amiss'
    BY DEF Leave
  <2> QED BY <2>1, <2>2 DEF Intelligible
<1> QED BY <1>1, <1>2, <1>3, <1>4, <1>5, <1>6, <1>7, <1>8

LEMMA ActivateStep ==
    ASSUME NetInv, NEW q \in Qemu, Activate(q)
    PROVE  NetInv'
<1> USE NetAssumption, FrameTypes DEF NetInv, Activate, setupVars, dataVars, histVars
<1>1. NetTypeOK'
  BY DEF NetTypeOK
<1>2. HomeInv'
  BY Nodes DEF NetTypeOK, HomeInv
<1>3. OffInv'
  BY DEF NetTypeOK, OffInv
<1>4. StepInInv'
  BY EmptyRun DEF NetTypeOK, StepInInv, OffInv
<1>5. StepOutInv'
  BY EmptyRun DEF NetTypeOK, StepOutInv, OffInv
<1>6. QueueInv'
  BY EmptyRun DEF NetTypeOK, QueueInv, OffInv
<1>7. RingInv'
  BY Nodes DEF NetTypeOK, RingInv, FramesErased
<1>8. Intelligible'
  BY DEF NetTypeOK, Intelligible
<1> QED BY <1>1, <1>2, <1>3, <1>4, <1>5, <1>6, <1>7, <1>8

LEMMA RemoveMacStep ==
    ASSUME NetInv, NEW q \in Qemu, RemoveMac(q)
    PROVE  NetInv'
<1> USE NetAssumption, FrameTypes DEF NetInv, RemoveMac, Disturbed, setupVars, dataVars, histVars
<1>1. NetTypeOK'
  BY DEF NetTypeOK
<1>2. HomeInv'
  BY Nodes DEF NetTypeOK, HomeInv
<1>3. OffInv'
  BY DEF NetTypeOK, OffInv
<1>4. StepInInv'
  BY EmptyRun DEF NetTypeOK, StepInInv, OffInv
<1>5. StepOutInv'
  BY EmptyRun DEF NetTypeOK, StepOutInv, OffInv
<1>6. QueueInv'
  BY EmptyRun DEF NetTypeOK, QueueInv, OffInv
<1>7. RingInv'
  BY Nodes DEF NetTypeOK, RingInv, FramesErased
<1>8. Intelligible'
  BY DEF NetTypeOK, Intelligible
<1> QED BY <1>1, <1>2, <1>3, <1>4, <1>5, <1>6, <1>7, <1>8

LEMMA ReceiveStep ==
    ASSUME NetInv, NEW q \in Qemu, NEW dropped \in BOOLEAN, Receive(q, dropped)
    PROVE  NetInv'
<1> USE NetAssumption, FrameTypes DEF NetInv, Receive, setupVars, dataVars, histVars
<1> USE DEF Dir
<1>a. /\ kpos' \in [End -> Nat]
      /\ \A p \in Qemu : kpos'[<<p, "out">>] = kpos[<<p, "out">>]
      /\ \A p \in Qemu : kpos'[<<p, "in">>] # kpos[<<p, "in">>] =>
             node[q] = Filed(p) /\ Active(p, "in")
      /\ node[q] = Filed(q) /\ Active(q, "in") => kpos'[<<q, "in">>] = kpos[<<q, "in">>] + 1
  BY KernelCounts, ZenonT(30)
<1>b. KernelCrypt(q, "in", Clear) \in Frame
  BY KernelCrypts
<1>c. tapin[q] \in Seq(Frame) /\ tapin'[q] \in Seq(Frame)
  BY <1>b DEF NetTypeOK
<1>d. \A p \in Qemu : p # q => tapin'[p] = tapin[p]
  BY DEF NetTypeOK
<1>1. NetTypeOK'
  <2>1. tapin' \in [Qemu -> Seq(Frame)]
    BY <1>b DEF NetTypeOK
  <2>2. frames' \in 0 .. MaxFrames
    BY DEF NetTypeOK
  <2>3. amiss' \subseteq amiss \cup {<<q, "in">>} /\ <<q, "in">> \in End
    OBVIOUS
  <2>4. amiss' \subseteq End
    BY <2>3 DEF NetTypeOK
  <2> QED BY <1>a, <2>1, <2>2, <2>4 DEF NetTypeOK
<1>2. HomeInv'
  <2>1. UNCHANGED <<pc, node, mac_buff>> /\ amiss \subseteq amiss'
    OBVIOUS
  <2> QED BY <2>1, HomeKept
<1>3. OffInv'
  <2>1. \A p \in Qemu : pc[p] = "off" => kpos'[<<p, "in">>] = kpos[<<p, "in">>]
    BY <1>a DEF Active
  <2> QED BY <1>a, <1>d, <2>1 DEF OffInv
<1>4. StepInInv'
  <2> SUFFICES ASSUME NEW p \in Qemu, <<p, "in">> \notin amiss'
               PROVE  /\ kpos'[<<p, "in">>] = upos[<<p, "in">>] + Len(tapin'[p])
                      /\ Run(tapin'[p], <<p, "in">>, upos[<<p, "in">>])
    BY DEF StepInInv
  <2>0. <<p, "in">> \notin amiss
    OBVIOUS
  <2>1. Active(p, "in") => node[p] = Filed(p)
    BY <2>0 DEF Active, HomeInv
  <2>2. CASE p # q
    <3>1. kpos'[<<p, "in">>] = kpos[<<p, "in">>]
      BY <1>a, <2>1, <2>2 DEF HomeInv
    <3> QED BY <1>d, <2>0, <2>2, <3>1 DEF StepInInv
  <2>3. CASE p = q
    <3>1. ~dropped /\ Active(q, "in") /\ node[q] = Filed(q)
      BY <2>1, <2>3
    <3>2. kpos[<<q, "in">>] \in Nat /\ upos[<<q, "in">>] \in Nat /\ Len(tapin[q]) \in Nat
      <4>1. Len(tapin[q]) \in Nat
        BY <1>c, LenProperties
      <4> QED BY <4>1 DEF NetTypeOK
    <3>3. KernelCrypt(q, "in", Clear) = Coded(<<q, "in">>, kpos[<<q, "in">>])
      <4>1. KernelCrypt(q, "in", Clear) = Crypt(Clear, <<<<q, "in">>, kpos[<<q, "in">>]>>, 1)
        BY <3>1, KernelCrypts
      <4> QED BY <4>1, <3>2, Crypts
    <3>4. tapin'[q] = Append(tapin[q], Coded(<<q, "in">>, kpos[<<q, "in">>]))
      BY <3>1, <3>3 DEF NetTypeOK
    <3>5. /\ kpos[<<q, "in">>] = upos[<<q, "in">>] + Len(tapin[q])
          /\ Run(tapin[q], <<q, "in">>, upos[<<q, "in">>])
      BY <2>0, <2>3 DEF StepInInv
    <3>6. /\ Len(tapin'[q]) = Len(tapin[q]) + 1
          /\ Run(tapin'[q], <<q, "in">>, upos[<<q, "in">>])
      <4>1. Coded(<<q, "in">>, kpos[<<q, "in">>]) \in Frame /\ <<q, "in">> \in End
        BY <3>2
      <4> QED BY <1>c, <3>2, <3>4, <3>5, <4>1, AppendRun
    <3>7. kpos'[<<q, "in">>] = kpos[<<q, "in">>] + 1
      BY <3>1, <1>a
    <3> QED BY <2>3, <3>2, <3>5, <3>6, <3>7
  <2> QED BY <2>2, <2>3
<1>5. StepOutInv'
  <2>1. \A p \in Qemu : <<p, "out">> \in amiss' <=> <<p, "out">> \in amiss
    OBVIOUS
  <2> QED BY <1>a, <2>1 DEF StepOutInv
<1>6. QueueInv'
  BY EmptyRun DEF NetTypeOK, QueueInv, OffInv
<1>7. RingInv'
  BY Nodes DEF NetTypeOK, RingInv, FramesErased
<1>8. Intelligible'
  BY DEF NetTypeOK, Intelligible
<1> QED BY <1>1, <1>2, <1>3, <1>4, <1>5, <1>6, <1>7, <1>8

LEMMA ReceiveLocalStep ==
    ASSUME NetInv, NEW q \in Qemu, ReceiveLocal(q)
    PROVE  NetInv'
<1> USE NetAssumption, FrameTypes DEF NetInv, ReceiveLocal, setupVars, dataVars, histVars
<1>1. NetTypeOK'
  <2>1. tapin' \in [Qemu -> Seq(Frame)]
    BY DEF NetTypeOK
  <2>2. amiss' \subseteq End
    BY DEF NetTypeOK, Dir
  <2> QED BY <2>1, <2>2, SMTT(30) DEF NetTypeOK
<1>2. HomeInv'
  BY Nodes DEF NetTypeOK, HomeInv
<1>3. OffInv'
  BY DEF NetTypeOK, OffInv
<1>4. StepInInv'
  BY EmptyRun DEF NetTypeOK, StepInInv, OffInv
<1>5. StepOutInv'
  BY EmptyRun DEF NetTypeOK, StepOutInv, OffInv
<1>6. QueueInv'
  BY EmptyRun DEF NetTypeOK, QueueInv, OffInv
<1>7. RingInv'
  BY Nodes DEF NetTypeOK, RingInv, FramesErased
<1>8. Intelligible'
  BY DEF NetTypeOK, Intelligible
<1> QED BY <1>1, <1>2, <1>3, <1>4, <1>5, <1>6, <1>7, <1>8

LEMMA TapSendStep ==
    ASSUME NetInv, NEW q \in Qemu, TapSend(q)
    PROVE  NetInv'
<1> USE NetAssumption, FrameTypes DEF NetInv, TapSend, Came, setupVars, dataVars, histVars
<1> DEFINE e == <<q, "in">>
           n == upos[e]
<1>a. e \in End /\ n \in Nat /\ tapin[q] \in Seq(Frame)
  BY DEF NetTypeOK, Dir
<1>b. /\ Head(tapin[q]) \in Frame /\ Tail(tapin[q]) \in Seq(Frame)
      /\ Len(Tail(tapin[q])) = Len(tapin[q]) - 1 /\ Len(tapin[q]) \in Nat
      /\ Run(tapin[q], e, n) => Head(tapin[q]) = Coded(e, n) /\ Run(Tail(tapin[q]), e, n + 1)
  BY <1>a, TailRun
<1>c. /\ tapin'[q] = Tail(tapin[q]) /\ \A p \in Qemu : p # q => tapin'[p] = tapin[p]
      /\ upos'[e] = n + 1 /\ \A x \in End : x # e => upos'[x] = upos[x]
  BY <1>a DEF NetTypeOK
<1>d. garbled' = garbled \/ garbled' = garbled \cup {e}
  OBVIOUS
<1>f. e \notin amiss => garbled' = garbled
  <2>1. ASSUME e \notin amiss PROVE Crypt(Head(tapin[q]), <<e, n>>, -1) = Clear
    <3>1. Run(tapin[q], e, n)
      BY <2>1 DEF StepInInv
    <3> QED BY <1>a, <1>b, <3>1, Crypts
  <2> QED BY <2>1
<1>1. NetTypeOK'
  <2>1. tapin' \in [Qemu -> Seq(Frame)] /\ upos' \in [End -> Nat]
    BY <1>a, <1>b DEF NetTypeOK
  <2> QED BY <1>a, <1>d, <2>1 DEF NetTypeOK
<1>2. HomeInv'
  <2>1. UNCHANGED <<pc, node, mac_buff>> /\ amiss \subseteq amiss'
    OBVIOUS
  <2> QED BY <2>1, HomeKept
<1>3. OffInv'
  BY SMTT(30) DEF NetTypeOK, OffInv
<1>4. StepInInv'
  <2> SUFFICES ASSUME NEW p \in Qemu, <<p, "in">> \notin amiss
               PROVE  /\ kpos[<<p, "in">>] = upos'[<<p, "in">>] + Len(tapin'[p])
                      /\ Run(tapin'[p], <<p, "in">>, upos'[<<p, "in">>])
    BY DEF StepInInv
  <2>1. /\ kpos[<<p, "in">>] = upos[<<p, "in">>] + Len(tapin[p])
        /\ Run(tapin[p], <<p, "in">>, upos[<<p, "in">>])
    BY DEF StepInInv
  <2>2. CASE p = q
    <3>1. kpos[e] = n + Len(tapin[q]) /\ Run(tapin[q], e, n)
      BY <2>1, <2>2
    <3>2. /\ kpos[e] = (n + 1) + Len(Tail(tapin[q])) /\ Run(Tail(tapin[q]), e, n + 1)
      BY <1>a, <1>b, <3>1
    <3> QED BY <1>c, <2>2, <3>2
  <2>3. CASE p # q
    <3>1. <<p, "in">> \in End /\ <<p, "in">> # e
      BY <2>3 DEF Dir
    <3> QED BY <1>c, <2>1, <2>3, <3>1
  <2> QED BY <2>2, <2>3
<1>5. StepOutInv'
  BY EmptyRun DEF NetTypeOK, StepOutInv, OffInv
<1>6. QueueInv'
  <2>1. \A p \in Qemu : upos'[<<p, "out">>] = upos[<<p, "out">>]
    BY <1>c DEF Dir
  <2> QED BY <2>1 DEF QueueInv
<1>7. RingInv'
  BY Nodes DEF NetTypeOK, RingInv, FramesErased
<1>8. Intelligible'
  BY <1>d, <1>f DEF Intelligible
<1> QED BY <1>1, <1>2, <1>3, <1>4, <1>5, <1>6, <1>7, <1>8

\* A frame that is written or queued again keeps the invariant.
LEMMA TapWriteStep ==
    ASSUME NetInv, NEW q \in Qemu, NEW f \in Frame, NEW rest \in Seq(Frame), TapWrite(q, f, rest),
           \A x \in f.body : x[1] = <<q, "out">> /\ x[2] < upos[<<q, "out">>],
           Covered(rest, <<q, "out">>, upos[<<q, "out">>]),
           pc[q] # "off",
           <<q, "out">> \notin amiss => f = Clear /\ rest = <<>> /\ pc[q] = "on",
           frames' \in 0 .. MaxFrames,
           UNCHANGED <<setupVars, kpos, tapin, ring, garbled, leftover>>
    PROVE  NetInv'
<1> USE NetAssumption DEF NetInv, setupVars
<1> DEFINE e == <<q, "out">>
           n == upos[e]
           g == Crypt(f, <<e, n>>, 1)
<1>a. e \in End /\ n \in Nat /\ tapout[q] \in Seq(Frame) /\ Len(tapout[q]) \in Nat
  <2>1. e \in End
    BY FrameTypes DEF Dir
  <2>2. n \in Nat /\ tapout[q] \in Seq(Frame)
    BY <2>1 DEF NetTypeOK
  <2> QED BY <2>1, <2>2, LenProperties
<1>b. /\ g \in Frame /\ g.body # {} /\ (f = Clear => g = Coded(e, n))
      /\ \A x \in g.body : x[1] = e /\ x[2] < n + 1
  <2>0. f.body \subseteq Piece /\ \A x \in f.body : x[1] = e /\ x[2] < n
    BY DEF Frame
  <2> HIDE DEF e, n
  <2>1. <<e, n>> \notin f.body
    <3>1. <<e, n>>[2] = n
      OBVIOUS
    <3> QED BY <1>a, <2>0, <3>1
  <2>2. g \in Frame /\ g.body = f.body \cup {<<e, n>>}
    BY <1>a, <2>1, Crypts, ZenonT(30)
  <2>3. f = Clear => g = Coded(e, n)
    <3>1. Crypt(Clear, <<e, n>>, 1) = Coded(e, n)
      BY <1>a, Crypts, ZenonT(30)
    <3> QED BY <3>1
  <2>4. ASSUME NEW x \in g.body PROVE x[1] = e /\ x[2] < n + 1
    <3>1. CASE x = <<e, n>>
      BY <3>1, <1>a
    <3>2. CASE x \in f.body
      <4>1. x[2] \in Nat /\ x[1] = e /\ x[2] < n
        BY <2>0, <3>2 DEF Piece
      <4> QED BY <4>1, <1>a
    <3> QED BY <2>2, <3>1, <3>2
  <2> QED BY <2>2, <2>3, <2>4
<1>c. /\ upos' \in [End -> Nat] /\ upos'[e] = n + 1
      /\ \A x \in End : x # e => upos'[x] = upos[x]
  BY <1>a, SMTT(30) DEF TapWrite, NetTypeOK
<1>d. Sent(q, g, rest) \/ Requeued(q, g, rest, "wait")
  BY DEF TapWrite
<1>f. /\ Append(tapout[q], g) \in Seq(Frame) /\ Append(tapout[q], g) # <<>>
      /\ Len(Append(tapout[q], g)) = Len(tapout[q]) + 1 /\ Opaque(Append(tapout[q], g))
      /\ \A b \in Nat : Run(tapout[q], e, b) /\ g = Coded(e, b + Len(tapout[q])) =>
                            Run(Append(tapout[q], g), e, b)
  BY <1>a, <1>b, AppendRun DEF QueueInv
<1>h. /\ <<g>> \o rest \in Seq(Frame) /\ <<g>> \o rest # <<>>
      /\ Covered(<<g>> \o rest, e, n + 1) /\ Covered(rest, e, n + 1)
  BY <1>a, <1>b, RequeueRun
<1> HIDE DEF g
<1>1. NetTypeOK'
  <2>1. CASE Sent(q, g, rest)
    <3>1. tapout' \in [Qemu -> Seq(Frame)] /\ queued' \in [Qemu -> Seq(Frame)]
      BY <2>1, <1>f DEF Sent, NetTypeOK
    <3>2. \A p \in Qemu : Len(tapout'[p]) <= TunCap
      BY <2>1, <1>a, <1>f DEF Sent, NetTypeOK
    <3>3. /\ write_poll' \in [Qemu -> {"no", "wait", "flush"}]
          /\ \A p \in Qemu : write_poll'[p] # "no" => queued'[p] # <<>>
      BY <2>1 DEF Sent, NetTypeOK
    <3>4. amiss' = amiss
      BY <2>1 DEF Sent
    <3> QED BY <1>c, <3>1, <3>2, <3>3, <3>4 DEF NetTypeOK
  <2>2. CASE Requeued(q, g, rest, "wait")
    BY <2>2, <1>a, <1>c, <1>h DEF Requeued, NetTypeOK
  <2> QED BY <1>d, <2>1, <2>2
<1>2. \A x \in End : x \notin amiss' => x \notin amiss
  BY <1>d DEF Sent, Requeued
<1>3. \A p \in Qemu : p # q => queued'[p] = queued[p] /\ tapout'[p] = tapout[p]
  BY <1>d DEF Sent, Requeued, NetTypeOK
<1>4. HomeInv'
  BY <1>2, FrameTypes DEF HomeInv
<1>5. OffInv'
  <2>1. \A p \in Qemu, dir \in Dir : p # q => <<p, dir>> \in End /\ <<p, dir>> # e
    BY FrameTypes
  <2> QED BY <1>c, <1>3, <2>1 DEF OffInv
<1>6. StepInInv'
  <2>1. \A p \in Qemu : <<p, "in">> \in End /\ <<p, "in">> # e
    BY FrameTypes DEF Dir
  <2> QED BY <1>c, <1>2, <2>1 DEF StepInInv
<1>7. StepOutInv'
  <2> SUFFICES ASSUME NEW p \in Qemu, <<p, "out">> \notin amiss'
               PROVE  /\ queued'[p] = <<>> /\ (tapout'[p] # <<>> => pc[p] = "on")
                      /\ upos'[<<p, "out">>] = kpos[<<p, "out">>] + Len(tapout'[p])
                      /\ Run(tapout'[p], <<p, "out">>, kpos[<<p, "out">>])
    BY DEF StepOutInv
  <2>0. <<p, "out">> \in End /\ <<p, "out">> \notin amiss
    BY <1>2, FrameTypes DEF Dir
  <2>1. /\ queued[p] = <<>> /\ (tapout[p] # <<>> => pc[p] = "on")
        /\ upos[<<p, "out">>] = kpos[<<p, "out">>] + Len(tapout[p])
        /\ Run(tapout[p], <<p, "out">>, kpos[<<p, "out">>])
    BY <2>0 DEF StepOutInv
  <2>2. CASE p # q
    BY <1>c, <1>3, <2>0, <2>1, <2>2
  <2>3. CASE p = q
    <3>1. Sent(q, g, rest) /\ f = Clear /\ rest = <<>> /\ pc[q] = "on"
      BY <1>d, <2>0, <2>3 DEF Requeued
    <3>2. queued'[q] = <<>> /\ tapout'[q] = Append(tapout[q], g)
      BY <3>1 DEF Sent, NetTypeOK
    <3>3. kpos[e] \in Nat /\ n = kpos[e] + Len(tapout[q])
      BY <1>a, <2>1, <2>3 DEF NetTypeOK
    <3>4. Run(tapout'[q], e, kpos[e]) /\ Len(tapout'[q]) = Len(tapout[q]) + 1
      <4>1. g = Coded(e, kpos[e] + Len(tapout[q])) /\ Run(tapout[q], e, kpos[e])
        BY <1>b, <2>1, <2>3, <3>1, <3>3
      <4> QED BY <1>f, <3>2, <3>3, <4>1
    <3> QED BY <1>a, <1>c, <2>3, <3>1, <3>2, <3>3, <3>4
  <2> QED BY <2>2, <2>3
<1>8. QueueInv'
  <2> SUFFICES ASSUME NEW p \in Qemu
               PROVE  /\ Covered(queued'[p], <<p, "out">>, upos'[<<p, "out">>])
                      /\ Opaque(tapout'[p])
    BY DEF QueueInv
  <2>1. CASE p # q
    <3>1. <<p, "out">> \in End /\ <<p, "out">> # e
      BY <2>1, FrameTypes DEF Dir
    <3> QED BY <1>c, <1>3, <2>1, <3>1 DEF QueueInv
  <2>2. CASE p = q /\ Sent(q, g, rest)
    BY <2>2, <1>c, <1>f, <1>h DEF Sent, NetTypeOK
  <2>3. CASE p = q /\ Requeued(q, g, rest, "wait")
    BY <2>3, <1>c, <1>h DEF Requeued, NetTypeOK, QueueInv
  <2> QED BY <1>d, <2>1, <2>2, <2>3
<1>9. RingInv' /\ Intelligible'
  BY <1>2 DEF RingInv, FramesErased, Intelligible, NetTypeOK
<1> QED BY <1>1, <1>4, <1>5, <1>6, <1>7, <1>8, <1>9

LEMMA VmSendStep ==
    ASSUME NetInv, NEW q \in Qemu, VmSend(q)
    PROVE  NetInv'
<1>0. frames' \in 0 .. MaxFrames
  BY NetAssumption DEF NetInv, NetTypeOK, VmSend
<1>1. CASE queued[q] = <<>>
  <2>1. TapWrite(q, Clear, <<>>) /\ pc[q] = "on"
    BY <1>1 DEF VmSend
  <2>2. Clear \in Frame /\ Clear.body = {} /\ <<>> \in Seq(Frame)
    BY FrameTypes
  <2>3. UNCHANGED <<setupVars, kpos, tapin, ring, garbled, leftover>>
    BY DEF VmSend
  <2> QED BY <1>0, <2>1, <2>2, <2>3, EmptyRun, TapWriteStep
<1>2. CASE queued[q] # <<>>
  <2> USE NetAssumption, FrameTypes DEF NetInv, setupVars, Dir
  <2>1. /\ frames' = frames + 1 /\ pc[q] = "on"
        /\ queued' = [queued EXCEPT ![q] = Append(@, Clear)]
        /\ UNCHANGED <<setupVars, kpos, tapin, ring, garbled, leftover, upos, tapout, write_poll, amiss>>
    BY <1>2 DEF VmSend
  <2>2. queued[q] \in Seq(Frame) /\ <<q, "out">> \in End /\ upos[<<q, "out">>] \in Nat
    BY DEF NetTypeOK
  <2>3. /\ Append(queued[q], Clear) \in Seq(Frame) /\ Append(queued[q], Clear) # <<>>
        /\ Covered(Append(queued[q], Clear), <<q, "out">>, upos[<<q, "out">>])
    BY <2>2, AppendRun DEF QueueInv
  <2>4. queued'[q] = Append(queued[q], Clear) /\ \A p \in Qemu : p # q => queued'[p] = queued[p]
    BY <2>1 DEF NetTypeOK
  <2>5. queued' \in [Qemu -> Seq(Frame)]
    BY <2>1, <2>3 DEF NetTypeOK
  <2>6. NetTypeOK'
    BY <1>0, <1>2, <2>1, <2>3, <2>4, <2>5 DEF NetTypeOK
  <2>7. HomeInv' /\ StepInInv' /\ RingInv' /\ Intelligible'
    BY <2>1 DEF HomeInv, StepInInv, RingInv, FramesErased, Intelligible
  <2>8. OffInv' /\ QueueInv'
    BY <2>1, <2>3, <2>4 DEF OffInv, QueueInv
  <2>9. StepOutInv'
    BY <1>2, <2>1, <2>4 DEF StepOutInv
  <2> QED BY <2>6, <2>7, <2>8, <2>9
<1> QED BY <1>1, <1>2

LEMMA TapWritableStep ==
    ASSUME NetInv, NEW q \in Qemu, TapWritable(q)
    PROVE  NetInv'
<1> USE NetAssumption, FrameTypes DEF NetInv, TapWritable, setupVars, dataVars, histVars
<1>1. NetTypeOK'
  BY DEF NetTypeOK
<1>2. HomeInv'
  BY Nodes DEF NetTypeOK, HomeInv
<1>3. OffInv'
  BY DEF NetTypeOK, OffInv
<1>4. StepInInv'
  BY EmptyRun DEF NetTypeOK, StepInInv, OffInv
<1>5. StepOutInv'
  BY EmptyRun DEF NetTypeOK, StepOutInv, OffInv
<1>6. QueueInv'
  BY EmptyRun DEF NetTypeOK, QueueInv, OffInv
<1>7. RingInv'
  BY Nodes DEF NetTypeOK, RingInv, FramesErased
<1>8. Intelligible'
  BY DEF NetTypeOK, Intelligible
<1> QED BY <1>1, <1>2, <1>3, <1>4, <1>5, <1>6, <1>7, <1>8

LEMMA FlushStep ==
    ASSUME NetInv, NEW q \in Qemu, Flush(q)
    PROVE  NetInv'
<1> USE DEF Flush
<1>1. queued[q] \in Seq(Frame) /\ queued[q] # <<>> /\ pc[q] # "off" /\ <<q, "out">> \in amiss
  BY DEF NetInv, NetTypeOK, OffInv, StepOutInv
<1>2. <<q, "out">> \in End /\ upos[<<q, "out">>] \in Nat
  BY FrameTypes DEF NetInv, NetTypeOK, Dir
<1>3. Covered(queued[q], <<q, "out">>, upos[<<q, "out">>])
  BY DEF NetInv, QueueInv
<1>4. /\ Head(queued[q]) \in Frame /\ Tail(queued[q]) \in Seq(Frame)
      /\ \A x \in Head(queued[q]).body : x[1] = <<q, "out">> /\ x[2] < upos[<<q, "out">>]
      /\ Covered(Tail(queued[q]), <<q, "out">>, upos[<<q, "out">>])
  BY <1>1, <1>2, <1>3, TailRun
<1>5. frames' \in 0 .. MaxFrames /\ UNCHANGED <<setupVars, kpos, tapin, ring, garbled, leftover>>
  BY DEF NetInv, NetTypeOK
<1>6. TapWrite(q, Head(queued[q]), Tail(queued[q]))
  OBVIOUS
<1> QED BY <1>1, <1>4, <1>5, <1>6, TapWriteStep

LEMMA CryptFailsStep ==
    ASSUME NetInv, NEW q \in Qemu, NEW dir \in Dir, CryptFails(q, dir)
    PROVE  NetInv'
<1> USE NetAssumption, FrameTypes DEF NetInv, CryptFails, setupVars, dataVars, histVars
<1>1. NetTypeOK'
  <2>1. tapin' \in [Qemu -> Seq(Frame)]
    <3>1. tapin[q] \in Seq(Frame)
      BY DEF NetTypeOK
    <3>2. tapin[q] # <<>> => Tail(tapin[q]) \in Seq(Frame)
      BY <3>1
    <3>3. tapin' = tapin \/ (tapin[q] # <<>> /\ tapin' = [tapin EXCEPT ![q] = Tail(@)])
      OBVIOUS
    <3>4. tapin \in [Qemu -> Seq(Frame)]
      BY DEF NetTypeOK
    <3>5. CASE tapin' = tapin
      BY <3>4, <3>5
    <3>6. CASE tapin[q] # <<>> /\ tapin' = [tapin EXCEPT ![q] = Tail(@)]
      BY <3>2, <3>4, <3>6
    <3> QED BY <3>3, <3>5, <3>6
  <2>2. frames' \in 0 .. MaxFrames /\ amiss' \subseteq End
    BY DEF NetTypeOK
  <2> QED BY <2>1, <2>2 DEF NetTypeOK
<1>2. HomeInv'
  BY Nodes DEF NetTypeOK, HomeInv
<1>3. OffInv'
  BY DEF NetTypeOK, OffInv
<1>4. StepInInv'
  BY EmptyRun, SMTT(30) DEF NetTypeOK, StepInInv, OffInv
<1>5. StepOutInv'
  BY EmptyRun DEF NetTypeOK, StepOutInv, OffInv
<1>6. QueueInv'
  BY EmptyRun DEF NetTypeOK, QueueInv, OffInv
<1>7. RingInv'
  BY Nodes DEF NetTypeOK, RingInv, FramesErased
<1>8. Intelligible'
  BY DEF NetTypeOK, Intelligible
<1> QED BY <1>1, <1>2, <1>3, <1>4, <1>5, <1>6, <1>7, <1>8

LEMMA DropOutStep ==
    ASSUME NetInv, NEW q \in Qemu, DropOut(q)
    PROVE  NetInv'
<1> USE NetAssumption, FrameTypes DEF NetInv, DropOut, setupVars, dataVars, histVars
<1>a. /\ Tail(tapout[q]) \in Seq(Frame) /\ Len(Tail(tapout[q])) = Len(tapout[q]) - 1
      /\ Opaque(Tail(tapout[q])) /\ Len(tapout[q]) \in Nat
  BY TailRun DEF NetTypeOK, QueueInv, Dir
<1>1. NetTypeOK'
  <2>1. tapout' \in [Qemu -> Seq(Frame)]
    BY <1>a DEF NetTypeOK
  <2>2. \A p \in Qemu : Len(tapout'[p]) <= TunCap
    BY <1>a DEF NetTypeOK
  <2>3. amiss' \subseteq End
    BY DEF NetTypeOK, Dir
  <2> QED BY <2>1, <2>2, <2>3 DEF NetTypeOK
<1>2. HomeInv'
  BY Nodes DEF NetTypeOK, HomeInv
<1>3. OffInv'
  BY DEF NetTypeOK, OffInv
<1>4. StepInInv'
  BY EmptyRun DEF NetTypeOK, StepInInv, OffInv
<1>5. StepOutInv'
  BY EmptyRun DEF NetTypeOK, StepOutInv, OffInv
<1>6. QueueInv'
  <2>1. tapout'[q] = Tail(tapout[q]) /\ \A p \in Qemu : p # q => tapout'[p] = tapout[p]
    BY DEF NetTypeOK
  <2> QED BY <1>a, <2>1 DEF QueueInv
<1>7. RingInv'
  BY Nodes DEF NetTypeOK, RingInv, FramesErased
<1>8. Intelligible'
  BY DEF NetTypeOK, Intelligible
<1> QED BY <1>1, <1>2, <1>3, <1>4, <1>5, <1>6, <1>7, <1>8

LEMMA TransmitStep ==
    ASSUME NetInv, NEW q \in Qemu, Transmit(q)
    PROVE  NetInv'
<1> USE NetAssumption, FrameTypes DEF NetInv, Transmit, Came, setupVars, dataVars, histVars
<1> DEFINE e == <<q, "out">>
           h == Head(tapout[q])
           f == KernelCrypt(q, "out", h)
<1> USE DEF Dir
<1>a. e \in End /\ kpos[e] \in Nat /\ tapout[q] \in Seq(Frame) /\ tapout[q] # <<>>
  BY DEF NetTypeOK
<1>b. /\ h \in Frame /\ h.body # {} /\ Tail(tapout[q]) \in Seq(Frame)
      /\ Len(Tail(tapout[q])) = Len(tapout[q]) - 1 /\ Opaque(Tail(tapout[q])) /\ Len(tapout[q]) \in Nat
      /\ Run(tapout[q], e, kpos[e]) => h = Coded(e, kpos[e]) /\ Run(Tail(tapout[q]), e, kpos[e] + 1)
  BY <1>a, TailRun DEF QueueInv
<1>c. /\ kpos' \in [End -> Nat]
      /\ \A p \in Qemu : kpos'[<<p, "in">>] = kpos[<<p, "in">>]
      /\ \A p \in Qemu : kpos'[<<p, "out">>] # kpos[<<p, "out">>] =>
             node[q] = Filed(p) /\ Active(p, "out")
      /\ node[q] = Filed(q) /\ Active(q, "out") => kpos'[e] = kpos[e] + 1
  BY KernelCounts
<1>d. /\ f \in Frame /\ (node[q] = NULL => f.body # {})
      /\ node[q] = Filed(q) /\ Active(q, "out") => f = Crypt(h, <<e, kpos[e]>>, -1)
  BY <1>b, KernelCrypts
<1>f. tapout'[q] = Tail(tapout[q]) /\ \A p \in Qemu : p # q => tapout'[p] = tapout[p]
  BY DEF NetTypeOK
<1>h. /\ ring' = [ring EXCEPT ![q] = IF f.body = {} THEN "clear" ELSE "coded"]
      /\ garbled' = IF f = Clear THEN garbled ELSE garbled \cup {e}
  OBVIOUS
<1>i. e \notin amiss => pc[q] = "on" /\ node[q] = Filed(q) /\ Active(q, "out") /\ f = Clear
  <2>1. ASSUME e \notin amiss PROVE pc[q] = "on" /\ node[q] = Filed(q) /\ Run(tapout[q], e, kpos[e])
    BY <1>a, <2>1 DEF StepOutInv, HomeInv
  <2> QED BY <1>a, <1>b, <1>d, <2>1, Crypts DEF Active
<1> HIDE DEF h, f
<1>1. NetTypeOK'
  <2>1. tapout' \in [Qemu -> Seq(Frame)]
    BY <1>b DEF NetTypeOK
  <2>2. \A p \in Qemu : Len(tapout'[p]) <= TunCap
    BY <1>b DEF NetTypeOK
  <2>3. garbled' \subseteq End /\ ring' \in [Qemu -> {"none", "clear", "coded", "stray"}]
    BY <1>a, <1>h, ZenonT(30) DEF NetTypeOK
  <2> QED BY <1>c, <2>1, <2>2, <2>3 DEF NetTypeOK
<1>2. HomeInv'
  <2>1. UNCHANGED <<pc, node, mac_buff>> /\ amiss \subseteq amiss'
    OBVIOUS
  <2> QED BY <2>1, HomeKept
<1>3. OffInv'
  <2>1. \A p \in Qemu : pc[p] = "off" => kpos'[<<p, "out">>] = kpos[<<p, "out">>]
    BY <1>c DEF Active
  <2> QED BY <1>c, <2>1 DEF OffInv
<1>4. StepInInv'
  BY <1>c DEF StepInInv
<1>5. StepOutInv'
  <2> SUFFICES ASSUME NEW p \in Qemu, <<p, "out">> \notin amiss
               PROVE  /\ queued[p] = <<>> /\ (tapout'[p] # <<>> => pc[p] = "on")
                      /\ upos[<<p, "out">>] = kpos'[<<p, "out">>] + Len(tapout'[p])
                      /\ Run(tapout'[p], <<p, "out">>, kpos'[<<p, "out">>])
    BY DEF StepOutInv
  <2>1. /\ queued[p] = <<>> /\ (tapout[p] # <<>> => pc[p] = "on")
        /\ upos[<<p, "out">>] = kpos[<<p, "out">>] + Len(tapout[p])
        /\ Run(tapout[p], <<p, "out">>, kpos[<<p, "out">>])
    BY DEF StepOutInv
  <2>2. CASE p # q
    <3>1. Active(p, "out") => node[p] = Filed(p)
      BY DEF Active, HomeInv
    <3>2. kpos'[<<p, "out">>] = kpos[<<p, "out">>]
      BY <1>c, <2>2, <3>1 DEF HomeInv
    <3> QED BY <1>f, <2>1, <2>2, <3>2
  <2>3. CASE p = q
    <3>1. kpos'[e] = kpos[e] + 1 /\ pc[q] = "on"
      BY <1>c, <1>i, <2>3
    <3>2. upos[e] = kpos[e] + Len(tapout[q]) /\ Run(tapout[q], e, kpos[e]) /\ queued[q] = <<>>
      BY <2>1, <2>3
    <3>3. upos[e] = (kpos[e] + 1) + Len(Tail(tapout[q])) /\ Run(Tail(tapout[q]), e, kpos[e] + 1)
      <4> HIDE DEF e
      <4>1. Run(Tail(tapout[q]), e, kpos[e] + 1)
        BY <1>b, <3>2
      <4>2. /\ kpos[e] \in Nat /\ Len(tapout[q]) \in Nat
            /\ Len(Tail(tapout[q])) = Len(tapout[q]) - 1
        BY <1>a, <1>b
      <4>3. \A k, l \in Nat : k + l = (k + 1) + (l - 1)
        OBVIOUS
      <4>4. upos[e] = (kpos[e] + 1) + (Len(tapout[q]) - 1)
        BY <3>2, <4>2, <4>3, Zenon
      <4> QED BY <4>1, <4>2, <4>4, Zenon
    <3>4. upos[e] = kpos'[e] + Len(tapout'[q]) /\ Run(tapout'[q], e, kpos'[e])
      BY <1>f, <3>1, <3>3
    <3> QED BY <2>3, <3>1, <3>2, <3>4
  <2> QED BY <2>2, <2>3
<1>6. QueueInv'
  BY <1>b, <1>f DEF QueueInv
<1>7. RingInv'
  BY <1>d, <1>h DEF NetTypeOK, RingInv, FramesErased
<1>8. Intelligible'
  BY <1>h, <1>i DEF Intelligible
<1> QED BY <1>1, <1>2, <1>3, <1>4, <1>5, <1>6, <1>7, <1>8

LEMMA PutTxbufStep ==
    ASSUME NetInv, NEW q \in Qemu, PutTxbuf(q)
    PROVE  NetInv'
<1> USE NetAssumption, FrameTypes DEF NetInv, PutTxbuf, setupVars, dataVars, histVars
<1>1. NetTypeOK'
  BY DEF NetTypeOK
<1>2. HomeInv'
  BY Nodes DEF NetTypeOK, HomeInv
<1>3. OffInv'
  BY DEF NetTypeOK, OffInv
<1>4. StepInInv'
  BY EmptyRun DEF NetTypeOK, StepInInv, OffInv
<1>5. StepOutInv'
  BY EmptyRun DEF NetTypeOK, StepOutInv, OffInv
<1>6. QueueInv'
  BY EmptyRun DEF NetTypeOK, QueueInv, OffInv
<1>7. RingInv'
  BY Nodes DEF NetTypeOK, RingInv, FramesErased
<1>8. Intelligible'
  BY DEF NetTypeOK, Intelligible
<1> QED BY <1>1, <1>2, <1>3, <1>4, <1>5, <1>6, <1>7, <1>8

\* A step that changes nothing keeps the invariant.
LEMMA NetStutter == NetInv /\ UNCHANGED netVars => NetInv'
BY DEF NetInv, NetTypeOK, HomeInv, OffInv, StepInInv, StepOutInv, QueueInv, RingInv, FramesErased,
    Intelligible, netVars, setupVars, dataVars, histVars

\* Every step keeps the invariant.
LEMMA NetInvNext == NetInv /\ [NetNext]_netVars => NetInv'
<1> SUFFICES ASSUME NetInv, [NetNext]_netVars PROVE NetInv'
  OBVIOUS
<1>1. ASSUME NEW q \in Qemu, Setup(q) PROVE NetInv'
  BY <1>1, CreateStep, AddMacStep, AddMacEndStep, LeaveStep, ActivateStep, RemoveMacStep
     DEF Setup, AddMacFails, Die
<1>2. ASSUME NEW q \in Qemu, NEW dropped \in BOOLEAN, Receive(q, dropped) PROVE NetInv'
  BY <1>2, ReceiveStep
<1>3. ASSUME NEW q \in Qemu, NEW dir \in Dir, CryptFails(q, dir) PROVE NetInv'
  BY <1>3, CryptFailsStep
<1>4. ASSUME NEW q \in Qemu,
             ReceiveLocal(q) \/ TapSend(q) \/ VmSend(q) \/ TapWritable(q) \/ Flush(q)
               \/ DropOut(q) \/ Transmit(q) \/ PutTxbuf(q)
      PROVE  NetInv'
  BY <1>4, ReceiveLocalStep, TapSendStep, VmSendStep, TapWritableStep, FlushStep, DropOutStep,
     TransmitStep, PutTxbufStep
<1>5. CASE UNCHANGED netVars
  BY <1>5, NetStutter
<1> QED BY <1>1, <1>2, <1>3, <1>4, <1>5 DEF NetNext

\* The invariant of the private network holds in every reachable state.
THEOREM NetInvariant == NetSpec => []NetInv
<1>1. NetInit => NetInv
  BY NetInvInit
<1>2. NetInv /\ [NetNext]_netVars => NetInv'
  BY NetInvNext
<1> QED BY <1>1, <1>2, PTL DEF NetSpec

\* The state keeps its types: both places of a node are in use or none, and a QEMU
\* waits for its tap device as long as frames are queued (privnet_add_mac,
\* tap_write_packet).
THEOREM NetTypeCorrect == NetSpec => []NetTypeOK
<1>1. NetInv => NetTypeOK
  BY DEF NetInv
<1> QED BY <1>1, NetInvariant, PTL

\* An end that nothing has brought out of step gets every frame as it was sent
\* (e1000_receive_skb, e1000_tx_queue, tap_send, tap_write_packet).
THEOREM NetIntelligible == NetSpec => []Intelligible
<1>1. NetInv => Intelligible
  BY DEF NetInv
<1> QED BY <1>1, NetInvariant, PTL

\* What passes the tap device is encrypted, also when it was encrypted twice
\* (tap_write_packet, e1000_receive_skb).
THEOREM NetSealed == NetSpec => []Sealed
<1>1. NetInv => Sealed
  <2> SUFFICES ASSUME NetInv, NEW q \in Qemu
               PROVE  /\ \A i \in 1 .. Len(tapout[q]) : tapout[q][i].body # {}
                      /\ <<q, "in">> \notin amiss =>
                             \A i \in 1 .. Len(tapin[q]) : tapin[q][i].body # {}
    BY DEF Sealed
  <2>1. \A i \in 1 .. Len(tapout[q]) : tapout[q][i].body # {}
    BY DEF NetInv, QueueInv, Opaque
  <2>2. ASSUME <<q, "in">> \notin amiss, NEW i \in 1 .. Len(tapin[q])
        PROVE  tapin[q][i].body # {}
    <3>1. tapin[q][i] = Coded(<<q, "in">>, upos[<<q, "in">>] + i - 1)
      BY <2>2 DEF NetInv, StepInInv, Run
    <3>2. Coded(<<q, "in">>, upos[<<q, "in">>] + i - 1).body
              = {<<<<q, "in">>, upos[<<q, "in">>] + i - 1>>}
      BY DEF Coded
    <3> QED BY <3>1, <3>2, Zenon
  <2> QED BY <2>1, <2>2
<1> QED BY <1>1, NetInvariant, PTL

\* A decrypted frame is erased before it is freed, also after its VM has died
\* (e1000_put_txbuf, erase_vm_frame).
THEOREM NetFramesErased == NetSpec => []FramesErased
<1>1. NetInv => FramesErased
  BY DEF NetInv, RingInv
<1> QED BY <1>1, NetInvariant, PTL
=============================================================================
