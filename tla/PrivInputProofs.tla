--------------------------- MODULE PrivInputProofs ---------------------------
(***************************************************************************)
(* Proofs about private input, for any devices, contexts and bounds.       *)
(*                                                                         *)
(* PrivUsb: while QEMU runs, an open device holds its own activated        *)
(* context, so its URBs are encrypted under it (SessionInv); the URBs that *)
(* wait account for the distance of the two counters (StepInv).            *)
(*                                                                         *)
(* PrivInput: unless the devices were connected twice in a row, the VM has *)
(* all of them or none between two loops over the devices (RestInv), those *)
(* that the loop has been at while it takes them (TakeInv), and those that *)
(* it has yet to come to while it gives them back (GiveInv).               *)
(***************************************************************************)
EXTENDS PrivUsb, PrivInput, Integers, FiniteSetTheorems, SequenceTheorems, TLAPS

\* A device's place holds the context QEMU made for it, or none; QEMU has each
\* context once.
OwnInv ==
    /\ \A d \in Dev : bind[d] # NULL => bind[d] = cctx[d]
    /\ \A d \in Dev : cctx[d] # NULL => cctx[d] \in live
    /\ \A d, e \in Dev : cctx[d] # NULL /\ cctx[d] = cctx[e] => d = e

\* A closed device has no URB; while QEMU runs, one that is not closed holds its
\* context, which is activated until the device is to be closed; no exit is handled
\* within a close.
SessionInv ==
    \A d \in Dev :
        /\ session[d] = "closed" => stage[d] = "none" /\ done[d] = <<>>
        /\ qemu = "run" /\ session[d] # "closed" => bind[d] # NULL
        /\ qemu = "run" /\ session[d] = "open" => active[bind[d]]
        /\ session[d] = "reaping" => qemu = "run"

\* Data that waits to be encrypted has room for a position.
RoomInv == \A d \in Dev : stage[d] = "work" /\ bind[d] # NULL => kpos[bind[d]] < MaxPos

\* What the URBs that wait for QEMU say about the counters.
Count(s) == Cardinality(Ciphers(s))
Before(s, i) == Cardinality({j \in Ciphers(s) : j < i})
Aligned(s, u) == \A i \in Ciphers(s) : s[i].pos = u + Before(s, i)

\* A context starts with both counters at 0; QEMU's never overtakes the kernel's.
StepInv ==
    /\ \A c \in Ctx \ created : kpos[c] = 0 /\ upos[c] = 0
    /\ \A d \in Dev : qemu = "run" /\ cctx[d] # NULL =>
          /\ kpos[cctx[d]] >= upos[cctx[d]] + Count(done[d])
          /\ cctx[d] \notin lost =>
                /\ kpos[cctx[d]] = upos[cctx[d]] + Count(done[d])
                /\ Aligned(done[d], upos[cctx[d]])

\* The guest has one packet outstanding: it is in flight, or it waits to be
\* reaped, or a release has given it to the guest.
LiveAt(s) == {i \in DOMAIN s : s[i].live}
LiveInv ==
    \A d \in Dev :
        /\ \A i, j \in LiveAt(done[d]) : i = j
        /\ stage[d] # "none" => LiveAt(done[d]) = {}
        /\ handed[d] # 0 => /\ handed[d] = 1 /\ session[d] # "open" /\ stage[d] = "none"
                            /\ LiveAt(done[d]) = {}

UsbInv == UsbTypeOK /\ OwnInv /\ SessionInv /\ RoomInv /\ CipherOnly /\ StepInv /\ LiveInv

-----------------------------------------------------------------------------
(* Counting the encrypted packets of a queue. *)

\* Moving a set of positions down by one, as taking the first element of a queue
\* does.
LEMMA ShiftCount ==
    ASSUME NEW n \in Nat, NEW S \in SUBSET (1 .. n)
    PROVE  LET T == {i \in 1 .. n : i + 1 \in S}
           IN  /\ IsFiniteSet(S) /\ Cardinality(S) \in Nat
               /\ IsFiniteSet(T) /\ Cardinality(T) \in Nat
               /\ Cardinality(T) = Cardinality(S) - (IF 1 \in S THEN 1 ELSE 0)
<1> DEFINE T == {i \in 1 .. n : i + 1 \in S}
           R == S \ {1}
           f == [i \in T |-> i + 1]
<1>1. IsFiniteSet(1 .. n)
  BY FS_Interval
<1>2. IsFiniteSet(S) /\ IsFiniteSet(T) /\ Cardinality(S) \in Nat /\ Cardinality(T) \in Nat
  BY <1>1, FS_Subset, FS_CardinalityType
<1>3. f \in Bijection(T, R)
  <2>1. f \in [T -> R]
    OBVIOUS
  <2>2. \A i, j \in T : f[i] = f[j] => i = j
    OBVIOUS
  <2>3. \A r \in R : \E i \in T : f[i] = r
    <3> TAKE r \in R
    <3>1. r - 1 \in T /\ f[r - 1] = r
      OBVIOUS
    <3> QED BY <3>1
  <2> QED BY <2>1, <2>2, <2>3 DEF Bijection, Injection, Surjection, IsInjective
<1>4. Cardinality(R) = Cardinality(T)
  <2>1. ExistsBijection(T, R)
    BY <1>3 DEF ExistsBijection
  <2> QED BY <1>2, <2>1, FS_Bijection
<1>5. Cardinality(R) = IF 1 \in S THEN Cardinality(S) - 1 ELSE Cardinality(S)
  BY <1>2, FS_RemoveElement
<1> QED BY <1>2, <1>4, <1>5

\* Ciphers is a finite set of positions.
LEMMA CountTypes ==
    ASSUME NEW s \in Seq(Packet)
    PROVE  /\ IsFiniteSet(Ciphers(s)) /\ Ciphers(s) \in SUBSET (1 .. Len(s)) /\ Len(s) \in Nat
           /\ Count(s) \in Nat /\ \A i : Before(s, i) \in Nat
           /\ Count(s) = 0 <=> Ciphers(s) = {}
<1>1. DOMAIN s = 1 .. Len(s) /\ Len(s) \in Nat
  BY LenProperties
<1>2. IsFiniteSet(1 .. Len(s))
  BY <1>1, FS_Interval
<1>3. Ciphers(s) \in SUBSET (1 .. Len(s))
  BY <1>1 DEF Ciphers
<1>4. IsFiniteSet(Ciphers(s)) /\ \A i : IsFiniteSet({j \in Ciphers(s) : j < i})
  BY <1>2, <1>3, FS_Subset
<1> QED BY <1>1, <1>3, <1>4, FS_CardinalityType, FS_EmptySet DEF Count, Before

\* A packet joins the queue.
LEMMA AppendCount ==
    ASSUME NEW s \in Seq(Packet), NEW p \in Packet, NEW u \in Nat
    PROVE  LET t == Append(s, p)
           IN  /\ t \in Seq(Packet)
               /\ Count(t) = Count(s) + (IF p.data = "cipher" THEN 1 ELSE 0)
               /\ Aligned(s, u) /\ (p.data = "cipher" => p.pos = u + Count(s)) => Aligned(t, u)
               /\ \A i \in DOMAIN t : t[i] = IF i = Len(s) + 1 THEN p ELSE s[i]
               /\ DOMAIN t = DOMAIN s \cup {Len(s) + 1}
<1> DEFINE t == Append(s, p)
           n == Len(s)
           C == Ciphers(s)
<1>1. n \in Nat /\ DOMAIN s = 1 .. n /\ C \in SUBSET (1 .. n) /\ IsFiniteSet(C) /\ Count(s) \in Nat
  BY CountTypes, LenProperties
<1>2. t \in Seq(Packet) /\ DOMAIN t = 1 .. (n + 1) /\ \A i \in 1 .. n : t[i] = s[i]
  BY AppendProperties, LenProperties
<1>3. t[n + 1] = p
  BY AppendProperties
<1>4. Ciphers(t) = IF p.data = "cipher" THEN C \cup {n + 1} ELSE C
  BY <1>1, <1>2, <1>3 DEF Ciphers
<1>5. Count(t) = Count(s) + (IF p.data = "cipher" THEN 1 ELSE 0)
  <2>1. n + 1 \notin C
    BY <1>1
  <2>2. Cardinality(C \cup {n + 1}) = Cardinality(C) + 1
    BY <1>1, <2>1, FS_AddElement
  <2> HIDE DEF t, C
  <2> QED BY <1>1, <1>4, <2>2 DEF Count, C
<1>6. ASSUME Aligned(s, u), p.data = "cipher" => p.pos = u + Count(s), NEW i \in Ciphers(t)
      PROVE  t[i].pos = u + Before(t, i)
  <2>1. CASE i \in C
    <3>1. {j \in Ciphers(t) : j < i} = {j \in C : j < i}
      BY <1>1, <1>4, <2>1
    <3>2. t[i] = s[i]
      BY <1>1, <1>2, <2>1
    <3> QED BY <1>6, <2>1, <3>1, <3>2 DEF Aligned, Before
  <2>2. CASE i \notin C
    <3>1. i = n + 1 /\ p.data = "cipher"
      BY <1>4, <2>2
    <3>2. {j \in Ciphers(t) : j < i} = C
      BY <1>1, <1>4, <3>1
    <3> QED BY <1>3, <1>6, <3>1, <3>2 DEF Before, Count
  <2> QED BY <2>1, <2>2
<1>7. \A i \in DOMAIN t : t[i] = IF i = n + 1 THEN p ELSE s[i]
  BY <1>1, <1>2, <1>3
<1>8. DOMAIN t = DOMAIN s \cup {n + 1}
  BY <1>1, <1>2
<1> HIDE DEF t, n
<1>9. Aligned(s, u) /\ (p.data = "cipher" => p.pos = u + Count(s)) => Aligned(t, u)
  BY <1>6 DEF Aligned
<1> QED BY <1>2, <1>5, <1>7, <1>8, <1>9 DEF t, n

\* The oldest packet leaves the queue.
LEMMA TailCount ==
    ASSUME NEW s \in Seq(Packet), s # <<>>, NEW u \in Nat
    PROVE  LET t == Tail(s)
               p == Head(s)
               k == IF p.data = "cipher" THEN 1 ELSE 0
           IN  /\ t \in Seq(Packet) /\ p \in Packet
               /\ 1 \in DOMAIN s /\ p = s[1]
               /\ \A i \in DOMAIN t : i + 1 \in DOMAIN s /\ t[i] = s[i + 1]
               /\ Count(s) = Count(t) + k
               /\ Aligned(s, u) => Aligned(t, u + k)
<1> DEFINE t == Tail(s)
           p == Head(s)
           k == IF p.data = "cipher" THEN 1 ELSE 0
           n == Len(s)
<1>1. /\ n \in Nat /\ n >= 1 /\ DOMAIN s = 1 .. n /\ Ciphers(s) \in SUBSET (1 .. n)
      /\ Count(s) \in Nat /\ \A i : Before(s, i) \in Nat
  BY CountTypes, LenProperties, EmptySeq
<1>2. t \in Seq(Packet) /\ p \in Packet /\ p = s[1]
  BY HeadTailProperties
<1>3. DOMAIN t = 1 .. (n - 1) /\ \A i \in 1 .. (n - 1) : t[i] = s[i + 1]
  BY <1>1
<1>4. Ciphers(t) = {i \in 1 .. n : i + 1 \in Ciphers(s)}
  BY <1>1, <1>3 DEF Ciphers
<1>5. 1 \in Ciphers(s) <=> p.data = "cipher"
  BY <1>1, <1>2 DEF Ciphers
<1>6. Count(s) = Count(t) + k
  <2>1. Count(t) = Cardinality({i \in 1 .. n : i + 1 \in Ciphers(s)})
    BY <1>4 DEF Count
  <2> HIDE DEF t, p, n
  <2>2. Cardinality({i \in 1 .. n : i + 1 \in Ciphers(s)})
          = Cardinality(Ciphers(s)) - (IF 1 \in Ciphers(s) THEN 1 ELSE 0)
    BY <1>1, ShiftCount
  <2>3. Count(t) = Count(s) - k
    BY <1>5, <2>1, <2>2 DEF Count
  <2> QED BY <1>1, <2>3
<1>7. ASSUME Aligned(s, u), NEW i \in Ciphers(t)
      PROVE  t[i].pos = u + k + Before(t, i)
  <2> DEFINE S == {j \in Ciphers(s) : j < i + 1}
  <2>1. i \in 1 .. n /\ i + 1 \in Ciphers(s) /\ t[i] = s[i + 1]
    BY <1>1, <1>3, <1>4
  <2>2. {j \in Ciphers(t) : j < i} = {j \in 1 .. n : j + 1 \in S}
    BY <1>1, <1>4, <2>1
  <2>3. S \in SUBSET (1 .. n) /\ (1 \in S <=> p.data = "cipher")
    BY <1>1, <1>5, <2>1
  <2>4. s[i + 1].pos = u + Cardinality(S)
    BY <1>7, <2>1 DEF Aligned, Before
  <2> HIDE DEF t, p, n, S
  <2>5. Cardinality({j \in 1 .. n : j + 1 \in S}) = Cardinality(S) - k /\ Cardinality(S) \in Nat
    BY <1>1, <2>3, ShiftCount
  <2>6. Before(t, i) = Cardinality({j \in 1 .. n : j + 1 \in S})
    BY <2>2 DEF Before
  <2> QED BY <2>1, <2>4, <2>5, <2>6
<1>8. \A i \in DOMAIN t : i + 1 \in DOMAIN s /\ t[i] = s[i + 1]
  BY <1>1, <1>3
<1>9. 1 \in DOMAIN s
  BY <1>1
<1> HIDE DEF t, p, k
<1>10. Aligned(s, u) => Aligned(t, u + k)
  BY <1>7 DEF Aligned
<1> QED BY <1>2, <1>6, <1>8, <1>9, <1>10 DEF t, p, k
\* Cancelling the packets of a queue changes nothing else about them.
LEMMA CancelCount ==
    ASSUME NEW s \in Seq(Packet), NEW u \in Nat
    PROVE  LET t == [i \in DOMAIN s |-> [s[i] EXCEPT !.live = FALSE]]
           IN  /\ t \in Seq(Packet)
               /\ Count(t) = Count(s)
               /\ Aligned(s, u) => Aligned(t, u)
               /\ DOMAIN t = DOMAIN s /\ \A i \in DOMAIN t : t[i].data = s[i].data
               /\ LiveAt(t) = {}
<1> DEFINE t == [i \in DOMAIN s |-> [s[i] EXCEPT !.live = FALSE]]
<1>1. Len(s) \in Nat /\ DOMAIN s = 1 .. Len(s) /\ \A i \in DOMAIN s : s[i] \in Packet
  BY LenProperties, ElementOfSeq
<1>2. \A i \in DOMAIN s : /\ [s[i] EXCEPT !.live = FALSE] \in Packet
                          /\ [s[i] EXCEPT !.live = FALSE].data = s[i].data
                          /\ [s[i] EXCEPT !.live = FALSE].pos = s[i].pos
                          /\ [s[i] EXCEPT !.live = FALSE].live = FALSE
  BY <1>1 DEF Packet
<1>3. DOMAIN t = DOMAIN s /\ \A i \in DOMAIN t : /\ t[i] \in Packet /\ t[i].data = s[i].data
                                                 /\ t[i].pos = s[i].pos /\ t[i].live = FALSE
  BY <1>2
<1>4. t \in Seq(Packet)
  <2>1. t \in [1 .. Len(s) -> Packet]
    BY <1>1, <1>2
  <2> HIDE DEF t
  <2> QED BY <1>1, <2>1, SeqDef
<1> HIDE DEF t
<1>5. Ciphers(t) = Ciphers(s)
  BY <1>3 DEF Ciphers
<1>6. Count(t) = Count(s) /\ \A i : Before(t, i) = Before(s, i)
  BY <1>5 DEF Count, Before
<1>7. Aligned(s, u) => Aligned(t, u)
  <2> SUFFICES ASSUME Aligned(s, u), NEW i \in Ciphers(t)
               PROVE  t[i].pos = u + Before(t, i)
    BY DEF Aligned
  <2> QED BY <1>3, <1>5, <1>6 DEF Aligned, Ciphers
<1>8. LiveAt(t) = {}
  BY <1>3 DEF LiveAt
<1> QED BY <1>3, <1>4, <1>6, <1>7, <1>8 DEF t

\* An empty queue is in step with any counter.
LEMMA EmptyCount ==
    ASSUME NEW u
    PROVE  /\ <<>> \in Seq(Packet) /\ Ciphers(<<>>) = {} /\ Count(<<>>) = 0 /\ Aligned(<<>>, u)
           /\ LiveAt(<<>>) = {}
<1>1. Ciphers(<<>>) = {} /\ LiveAt(<<>>) = {}
  BY DEF Ciphers, LiveAt
<1> QED BY <1>1, FS_EmptySet DEF Count, Aligned

-----------------------------------------------------------------------------
(* The steps of the kernel. *)

\* An URB is given back: encrypted, and then at the position the kernel is at, or
\* not, and then as it came only if QEMU has not got the device open.
LEMMA GivebackKeeps ==
    ASSUME UsbInv, NEW d \in Dev, NEW data \in {"plain", "cipher", "zero", "none"},
           NEW pos \in 0 .. MaxPos, Giveback(d, data, pos), stage[d] # "none",
           UNCHANGED <<svcVars, qemu, cctx, session, upos, lost, handed>>,
           data # "cipher" => kpos' = kpos,
           data = "cipher" =>
               /\ bind[d] # NULL /\ stage[d] = "work" /\ pos = kpos[bind[d]]
               /\ kpos' = [kpos EXCEPT ![bind[d]] = @ + 1],
           data = "plain" => ~(qemu = "run" /\ session[d] = "open")
    PROVE  UsbInv'
<1> DEFINE p == [data |-> data, pos |-> pos, live |-> ~killed[d]]
<1> USE DEF UsbInv
<1>1. p \in Packet /\ p.data = data /\ p.pos = pos
  BY DEF Packet, UsbTypeOK
<1>2. /\ stage' = [stage EXCEPT ![d] = "none"] /\ killed' = [killed EXCEPT ![d] = FALSE]
      /\ done' = [done EXCEPT ![d] = Append(done[d], p)]
      /\ created' = created /\ live' = live /\ active' = active /\ bind' = bind
      /\ qemu' = qemu /\ cctx' = cctx /\ session' = session /\ upos' = upos /\ lost' = lost
      /\ handed' = handed
  BY DEF Giveback, svcVars
<1> HIDE DEF p
<1>3. MaxPos \in Nat
  BY BoundsAssumption
<1>4. kpos' \in [Ctx -> 0 .. MaxPos] /\ \A c \in Ctx : kpos'[c] # kpos[c] => data = "cipher" /\ c = bind[d]
  BY <1>3 DEF UsbTypeOK, RoomInv
<1>5. /\ Append(done[d], p) \in Seq(Packet)
      /\ \A i \in DOMAIN Append(done[d], p) :
            Append(done[d], p)[i] = IF i = Len(done[d]) + 1 THEN p ELSE done[d][i]
      /\ DOMAIN Append(done[d], p) = DOMAIN done[d] \cup {Len(done[d]) + 1}
  BY <1>1, AppendCount DEF UsbTypeOK
<1>6. UsbTypeOK'
  BY <1>2, <1>4, <1>5 DEF UsbTypeOK
<1>7. OwnInv'
  BY <1>2 DEF OwnInv
<1>8. session[d] # "closed"
  BY DEF SessionInv
<1>9. SessionInv'
  BY <1>2, <1>8 DEF SessionInv, UsbTypeOK
<1>10. RoomInv'
  <2> SUFFICES ASSUME NEW e \in Dev, stage'[e] = "work", bind[e] # NULL
               PROVE  kpos'[bind[e]] < MaxPos
    BY <1>2 DEF RoomInv
  <2>1. e # d
    BY <1>2 DEF UsbTypeOK
  <2>2. stage[e] = "work"
    BY <1>2, <2>1 DEF UsbTypeOK
  <2>3. bind[e] # bind[d] /\ bind[e] \in Ctx
    BY <2>1 DEF OwnInv, UsbTypeOK
  <2>4. kpos'[bind[e]] = kpos[bind[e]]
    BY <1>4, <2>3
  <2> QED BY <2>2, <2>4 DEF RoomInv
<1>11. CipherOnly'
  <2> SUFFICES ASSUME NEW e \in Dev, qemu = "run", session[e] = "open",
                      NEW i \in DOMAIN done'[e]
               PROVE  done'[e][i].data # "plain"
    BY <1>2 DEF CipherOnly, UsbTypeOK
  <2>1. CASE e = d
    <3>1. done'[d] = Append(done[d], p)
      BY <1>2 DEF UsbTypeOK
    <3> QED BY <1>1, <1>5, <2>1, <3>1 DEF CipherOnly
  <2>2. CASE e # d
    BY <1>2, <2>2 DEF CipherOnly, UsbTypeOK
  <2> QED BY <2>1, <2>2
<1>12. StepInv'
  <2>1. ASSUME NEW c \in Ctx \ created'
        PROVE  kpos'[c] = 0 /\ upos'[c] = 0
    <3>1. kpos[c] = 0 /\ upos[c] = 0
      BY <1>2 DEF StepInv
    <3>2. kpos'[c] = kpos[c]
      BY <1>2, <1>4 DEF OwnInv, UsbTypeOK
    <3> QED BY <1>2, <3>1, <3>2
  <2>2. ASSUME NEW e \in Dev, qemu = "run", cctx[e] # NULL
        PROVE  /\ kpos'[cctx[e]] >= upos[cctx[e]] + Count(done'[e])
               /\ cctx[e] \notin lost =>
                    /\ kpos'[cctx[e]] = upos[cctx[e]] + Count(done'[e])
                    /\ Aligned(done'[e], upos[cctx[e]])
    <3> DEFINE c == cctx[e]
    <3>1. c \in Ctx /\ kpos[c] \in Nat /\ upos[c] \in Nat /\ done[e] \in Seq(Packet)
      BY <2>2, <1>3 DEF UsbTypeOK
    <3>2. /\ kpos[c] >= upos[c] + Count(done[e])
          /\ c \notin lost => kpos[c] = upos[c] + Count(done[e]) /\ Aligned(done[e], upos[c])
      BY <2>2 DEF StepInv
    <3>3. Count(done[e]) \in Nat
      BY <3>1, CountTypes
    <3>4. CASE e # d
      <4>1. done'[e] = done[e]
        BY <1>2, <3>4 DEF UsbTypeOK
      <4>2. kpos'[c] = kpos[c]
        BY <1>4, <2>2, <3>1, <3>4 DEF OwnInv
      <4> HIDE DEF c
      <4> QED BY <3>2, <4>1, <4>2 DEF c
    <3>5. CASE e = d
      <4>1. done'[e] = Append(done[e], p)
        BY <1>2, <3>5 DEF UsbTypeOK
      <4>2. bind[d] # NULL => bind[d] = c
        BY <3>5 DEF OwnInv
      <4>3. kpos'[c] = kpos[c] + (IF data = "cipher" THEN 1 ELSE 0)
        BY <3>1, <4>2 DEF UsbTypeOK
      <4>4. data = "cipher" => pos = kpos[c]
        BY <4>2
      <4> HIDE DEF c
      <4>5. /\ Count(done'[e]) = Count(done[e]) + (IF data = "cipher" THEN 1 ELSE 0)
            /\ Aligned(done[e], upos[c]) /\ (data = "cipher" => pos = upos[c] + Count(done[e]))
                 => Aligned(done'[e], upos[c])
        BY <1>1, <3>1, <4>1, AppendCount
      <4> QED BY <3>1, <3>2, <3>3, <4>3, <4>4, <4>5, SMTT(30) DEF c
    <3> QED BY <3>4, <3>5
  <2> QED BY <1>2, <2>1, <2>2 DEF StepInv
<1>13. LiveInv'
  <2> SUFFICES ASSUME NEW e \in Dev
               PROVE  /\ \A i, j \in LiveAt(done'[e]) : i = j
                      /\ stage'[e] # "none" => LiveAt(done'[e]) = {}
                      /\ handed[e] # 0 => /\ handed[e] = 1 /\ session[e] # "open"
                                          /\ stage'[e] = "none" /\ LiveAt(done'[e]) = {}
    BY <1>2 DEF LiveInv
  <2>1. CASE e = d
    <3>1. LiveAt(done[d]) = {} /\ handed[d] = 0
      BY DEF LiveInv
    <3>2. \A i \in LiveAt(done'[d]) : i = Len(done[d]) + 1
      BY <1>2, <1>5, <3>1 DEF LiveAt, UsbTypeOK
    <3>3. stage'[d] = "none"
      BY <1>2 DEF UsbTypeOK
    <3> QED BY <2>1, <3>1, <3>2, <3>3
  <2>2. CASE e # d
    BY <1>2, <2>2 DEF LiveInv, UsbTypeOK
  <2> QED BY <2>1, <2>2
<1> QED BY <1>6, <1>7, <1>9, <1>10, <1>11, <1>12, <1>13

LEMMA HcDataKeeps ==
    ASSUME UsbInv, NEW d \in Dev, HcData(d)
    PROVE  UsbInv'
<1>1. MaxPos \in Nat
  BY BoundsAssumption
<1>2. CASE bind[d] # NULL /\ active[bind[d]]
  <2>1. /\ kpos[bind[d]] < MaxPos /\ stage' = [stage EXCEPT ![d] = "work"]
        /\ stage[d] = "hc"
        /\ UNCHANGED <<svcVars, qemu, cctx, session, killed, done, kpos, upos, lost, handed>>
    BY <1>2 DEF HcData
  <2>2. UsbTypeOK'
    BY <2>1 DEF UsbInv, UsbTypeOK, svcVars
  <2>3. OwnInv' /\ SessionInv' /\ RoomInv'
    BY <2>1 DEF UsbInv, UsbTypeOK, OwnInv, SessionInv, RoomInv, svcVars
  <2>4. CipherOnly' /\ StepInv'
    BY <2>1 DEF UsbInv, CipherOnly, StepInv, svcVars
  <2>5. LiveInv'
    BY <2>1 DEF UsbInv, LiveInv, UsbTypeOK
  <2> QED BY <2>2, <2>3, <2>4, <2>5 DEF UsbInv
<1>3. CASE ~(bind[d] # NULL /\ active[bind[d]])
  <2>1. /\ Giveback(d, "plain", 0) /\ stage[d] = "hc" /\ 0 \in 0 .. MaxPos
        /\ UNCHANGED <<svcVars, qemu, cctx, session, upos, lost, handed>> /\ kpos' = kpos
    BY <1>1, <1>3 DEF HcData
  <2>2. ~(qemu = "run" /\ session[d] = "open")
    BY <1>3 DEF UsbInv, SessionInv
  <2> QED BY <2>1, <2>2, GivebackKeeps
<1> QED BY <1>2, <1>3

LEMMA HcErrorKeeps ==
    ASSUME UsbInv, NEW d \in Dev, HcError(d)
    PROVE  UsbInv'
<1>1. /\ Giveback(d, "none", 0) /\ stage[d] = "hc" /\ 0 \in 0 .. MaxPos
      /\ UNCHANGED <<svcVars, qemu, cctx, session, upos, lost, handed>> /\ kpos' = kpos
  BY BoundsAssumption DEF HcError
<1> QED BY <1>1, GivebackKeeps

LEMMA WorkerKeeps ==
    ASSUME UsbInv, NEW d \in Dev, Worker(d)
    PROVE  UsbInv'
<1>1. stage[d] = "work" /\ UNCHANGED <<svcVars, qemu, cctx, session, upos, lost, handed>>
  BY DEF Worker
<1>2. MaxPos \in Nat /\ 0 \in 0 .. MaxPos
  BY BoundsAssumption
<1>3. CASE bind[d] = NULL /\ Giveback(d, "plain", 0) /\ kpos' = kpos
  <2>1. ~(qemu = "run" /\ session[d] = "open")
    BY <1>3 DEF UsbInv, SessionInv
  <2> QED BY <1>1, <1>2, <1>3, <2>1, GivebackKeeps
<1>4. CASE bind[d] # NULL /\ Giveback(d, "zero", 0) /\ kpos' = kpos
  BY <1>1, <1>2, <1>4, GivebackKeeps
<1>5. CASE /\ bind[d] # NULL /\ Giveback(d, "cipher", kpos[bind[d]])
           /\ kpos' = [kpos EXCEPT ![bind[d]] = @ + 1]
  <2>1. kpos[bind[d]] \in 0 .. MaxPos
    BY <1>5 DEF UsbInv, UsbTypeOK
  <2> QED BY <1>1, <1>5, <2>1, GivebackKeeps
<1> QED BY <1>3, <1>4, <1>5 DEF Worker
-----------------------------------------------------------------------------
(* The steps of QEMU. *)

LEMMA NewContextKeeps ==
    ASSUME UsbInv, NEW d \in Dev, NEW c \in Ctx, NewContext(d, c)
    PROVE  UsbInv'
<1> USE DEF UsbInv
<1>1. /\ c \notin created /\ created' = created \cup {c} /\ live' = live \cup {c}
      /\ cctx[d] = NULL /\ cctx' = [cctx EXCEPT ![d] = c]
      /\ active' = active /\ bind' = bind /\ qemu' = qemu /\ session' = session
      /\ stage' = stage /\ killed' = killed /\ done' = done /\ kpos' = kpos /\ upos' = upos
      /\ lost' = lost /\ handed' = handed /\ qemu = "run"
  BY DEF NewContext, Running, Create, urbVars
<1>2. UsbTypeOK'
  BY <1>1 DEF UsbTypeOK
<1>3. OwnInv'
  BY <1>1, UsbNullAssumption DEF OwnInv, UsbTypeOK
<1>4. SessionInv' /\ RoomInv' /\ CipherOnly'
  BY <1>1 DEF SessionInv, RoomInv, CipherOnly
<1>6. LiveInv'
  BY <1>1 DEF LiveInv
<1>5. StepInv'
  <2>1. \A b \in Ctx \ created' : kpos'[b] = 0 /\ upos'[b] = 0
    BY <1>1 DEF StepInv
  <2>2. ASSUME NEW e \in Dev, cctx'[e] # NULL
        PROVE  /\ kpos[cctx'[e]] >= upos[cctx'[e]] + Count(done[e])
               /\ cctx'[e] \notin lost =>
                    /\ kpos[cctx'[e]] = upos[cctx'[e]] + Count(done[e])
                    /\ Aligned(done[e], upos[cctx'[e]])
    <3>1. CASE e = d
      <4>1. cctx'[d] = c
        BY <1>1 DEF UsbTypeOK
      <4>2. done[d] = <<>>
        BY <1>1 DEF SessionInv, OwnInv
      <4>3. Count(<<>>) = 0 /\ Aligned(<<>>, 0)
        BY EmptyCount
      <4>4. kpos[c] = 0 /\ upos[c] = 0
        BY <1>1 DEF StepInv
      <4> QED BY <3>1, <4>1, <4>2, <4>3, <4>4
    <3>2. CASE e # d
      <4>1. cctx'[e] = cctx[e]
        BY <1>1, <3>2 DEF UsbTypeOK
      <4> QED BY <1>1, <2>2, <4>1 DEF StepInv
    <3> QED BY <3>1, <3>2
  <2> QED BY <1>1, <2>1, <2>2 DEF StepInv
<1> QED BY <1>2, <1>3, <1>4, <1>5, <1>6

LEMMA UseContextKeeps ==
    ASSUME UsbInv, NEW d \in Dev, UseContext(d)
    PROVE  UsbInv'
<1> USE DEF UsbInv
<1>1. /\ cctx[d] # NULL /\ bind[d] = NULL /\ bind' = [bind EXCEPT ![d] = cctx[d]]
      /\ created' = created /\ live' = live /\ active' = active /\ cctx' = cctx
      /\ qemu' = qemu /\ session' = session
      /\ stage' = stage /\ killed' = killed /\ done' = done /\ kpos' = kpos /\ upos' = upos
      /\ lost' = lost /\ handed' = handed /\ qemu = "run"
  BY DEF UseContext, Running, Bind, urbVars
<1>2. session[d] = "closed" /\ stage[d] = "none"
  BY <1>1 DEF SessionInv
<1>3. UsbTypeOK' /\ OwnInv'
  BY <1>1 DEF UsbTypeOK, OwnInv
<1>4. SessionInv' /\ RoomInv'
  BY <1>1, <1>2 DEF UsbTypeOK, SessionInv, RoomInv
<1>5. CipherOnly' /\ StepInv' /\ LiveInv'
  BY <1>1 DEF CipherOnly, StepInv, LiveInv
<1> QED BY <1>3, <1>4, <1>5

LEMMA ConnectKeeps ==
    ASSUME UsbInv, NEW d \in Dev, Connect(d)
    PROVE  UsbInv'
<1> USE DEF UsbInv
<1>1. /\ bind[d] # NULL /\ session[d] = "closed" /\ active' = [active EXCEPT ![cctx[d]] = TRUE]
      /\ session' = [session EXCEPT ![d] = "open"]
      /\ created' = created /\ live' = live /\ bind' = bind /\ cctx' = cctx
      /\ qemu' = qemu
      /\ stage' = stage /\ killed' = killed /\ done' = done /\ kpos' = kpos /\ upos' = upos
      /\ lost' = lost /\ handed' = [handed EXCEPT ![d] = 0] /\ qemu = "run"
  BY DEF Connect, Running, Toggle, urbVars
<1>2. bind[d] = cctx[d] /\ cctx[d] \in Ctx
  BY <1>1 DEF OwnInv, UsbTypeOK
<1>3. UsbTypeOK'
  <2>1. active' \in [Ctx -> BOOLEAN]
    BY <1>1, <1>2 DEF UsbTypeOK
  <2> QED BY <1>1, <2>1 DEF UsbTypeOK
<1>4. OwnInv' /\ RoomInv' /\ StepInv'
  BY <1>1 DEF OwnInv, RoomInv, StepInv
<1>5. SessionInv'
  <2> SUFFICES ASSUME NEW e \in Dev
               PROVE  /\ session'[e] = "closed" => stage[e] = "none" /\ done[e] = <<>>
                      /\ session'[e] # "closed" => bind[e] # NULL
                      /\ session'[e] = "open" => active'[bind[e]]
    BY <1>1 DEF SessionInv
  <2>1. CASE e = d
    BY <1>1, <1>2, <2>1 DEF SessionInv, UsbTypeOK
  <2>2. CASE e # d
    <3>1. session'[e] = session[e]
      BY <1>1, <2>2 DEF UsbTypeOK
    <3>2. active[bind[e]] => active'[bind[e]]
      BY <1>1, <1>2 DEF UsbTypeOK
    <3> QED BY <1>1, <3>1, <3>2 DEF SessionInv
  <2> QED BY <2>1, <2>2
<1>6. CipherOnly'
  <2> SUFFICES ASSUME NEW e \in Dev
               PROVE  /\ session'[e] = "open" => \A i \in DOMAIN done[e] : done[e][i].data # "plain"
                      /\ handed'[e] <= 1
    BY <1>1 DEF CipherOnly
  <2> QED BY <1>1 DEF CipherOnly, SessionInv, UsbTypeOK
<1>7. LiveInv'
  BY <1>1 DEF LiveInv, UsbTypeOK
<1> QED BY <1>3, <1>4, <1>5, <1>6, <1>7

LEMMA SubmitKeeps ==
    ASSUME UsbInv, NEW d \in Dev, Submit(d)
    PROVE  UsbInv'
<1> USE DEF UsbInv
<1>1. /\ stage' = [stage EXCEPT ![d] = "hc"] /\ session[d] = "open"
      /\ created' = created /\ live' = live /\ active' = active /\ bind' = bind
      /\ cctx' = cctx /\ qemu' = qemu /\ session' = session
      /\ killed' = killed /\ done' = done /\ kpos' = kpos /\ upos' = upos /\ lost' = lost
      /\ handed' = handed /\ LiveAt(done[d]) = {}
  BY DEF Submit, svcVars, LiveAt
<1>2. UsbTypeOK' /\ OwnInv' /\ SessionInv' /\ RoomInv'
  BY <1>1 DEF UsbTypeOK, OwnInv, SessionInv, RoomInv
<1>3. CipherOnly' /\ StepInv' /\ LiveInv'
  BY <1>1 DEF CipherOnly, StepInv, LiveInv, UsbTypeOK
<1> QED BY <1>2, <1>3

LEMMA CancelKeeps ==
    ASSUME UsbInv, NEW d \in Dev, Cancel(d)
    PROVE  UsbInv'
<1> USE DEF UsbInv
<1> DEFINE s == done[d]
           t == [i \in DOMAIN s |-> [s[i] EXCEPT !.live = FALSE]]
<1>1. /\ session[d] = "open"
      /\ created' = created /\ live' = live /\ active' = active /\ bind' = bind
      /\ cctx' = cctx /\ qemu' = qemu /\ session' = session /\ stage' = stage
      /\ kpos' = kpos /\ upos' = upos /\ lost' = lost /\ handed' = handed
  BY DEF Cancel, svcVars
<1>2. CASE killed' = [killed EXCEPT ![d] = TRUE] /\ done' = done
  <2>1. UsbTypeOK'
    BY <1>1, <1>2 DEF UsbTypeOK
  <2>2. OwnInv' /\ SessionInv' /\ RoomInv' /\ CipherOnly' /\ StepInv'
    BY <1>1, <1>2 DEF OwnInv, SessionInv, RoomInv, CipherOnly, StepInv
  <2>3. LiveInv'
    BY <1>1, <1>2 DEF LiveInv
  <2> QED BY <2>1, <2>2, <2>3
<1>3. CASE done' = [done EXCEPT ![d] = t] /\ killed' = killed
  <2>1. s \in Seq(Packet)
    BY DEF UsbTypeOK
  <2>2. /\ t \in Seq(Packet) /\ Count(t) = Count(s)
        /\ DOMAIN t = DOMAIN s /\ \A i \in DOMAIN t : t[i].data = s[i].data
        /\ \A u \in Nat : Aligned(s, u) => Aligned(t, u)
        /\ LiveAt(t) = {}
    <3> HIDE DEF s
    <3> QED BY <2>1, CancelCount
  <2> HIDE DEF t
  <2>3. UsbTypeOK'
    BY <1>1, <1>3, <2>2 DEF UsbTypeOK
  <2>4. done'[d] = t /\ \A e \in Dev \ {d} : done'[e] = done[e]
    BY <1>3 DEF UsbTypeOK
  <2>5. OwnInv' /\ RoomInv'
    BY <1>1 DEF OwnInv, RoomInv
  <2>6. SessionInv'
    BY <1>1, <2>4 DEF SessionInv
  <2>7. CipherOnly'
    <3> SUFFICES ASSUME NEW e \in Dev, qemu = "run", session[e] = "open",
                        NEW i \in DOMAIN done'[e]
                 PROVE  done'[e][i].data # "plain"
      BY <1>1 DEF CipherOnly
    <3>1. i \in DOMAIN done[e] /\ done'[e][i].data = done[e][i].data
      BY <2>2, <2>4
    <3> QED BY <3>1 DEF CipherOnly
  <2>8. StepInv'
    <3>1. ASSUME NEW e \in Dev, qemu = "run", cctx[e] # NULL
          PROVE  /\ Count(done'[e]) = Count(done[e])
                 /\ Aligned(done[e], upos[cctx[e]]) => Aligned(done'[e], upos[cctx[e]])
      <4>1. upos[cctx[e]] \in Nat
        BY <3>1, BoundsAssumption DEF UsbTypeOK
      <4> QED BY <2>2, <2>4, <4>1
    <3> QED BY <1>1, <3>1 DEF StepInv
  <2>9. LiveInv'
    <3> SUFFICES ASSUME NEW e \in Dev
                 PROVE  /\ \A i, j \in LiveAt(done'[e]) : i = j
                        /\ stage[e] # "none" => LiveAt(done'[e]) = {}
                        /\ handed[e] # 0 => /\ handed[e] = 1 /\ session[e] # "open"
                                            /\ stage[e] = "none" /\ LiveAt(done'[e]) = {}
      BY <1>1 DEF LiveInv
    <3>1. LiveAt(done'[e]) = {} \/ done'[e] = done[e]
      BY <2>2, <2>4
    <3> QED BY <3>1 DEF LiveInv
  <2> QED BY <2>3, <2>5, <2>6, <2>7, <2>8, <2>9
<1> QED BY <1>2, <1>3 DEF Cancel

LEMMA ReapKeeps ==
    ASSUME UsbInv, NEW d \in Dev, Reap(d)
    PROVE  UsbInv'
<1> USE DEF UsbInv
<1> DEFINE s == done[d]
           t == Tail(s)
           p == Head(s)
           k == IF p.data = "cipher" THEN 1 ELSE 0
           c == cctx[d]
<1>1. /\ session[d] = "open" /\ qemu = "run" /\ s # <<>>
      /\ done' = [done EXCEPT ![d] = t]
      /\ created' = created /\ live' = live /\ active' = active /\ bind' = bind
      /\ cctx' = cctx /\ session' = session /\ stage' = stage
      /\ killed' = killed /\ kpos' = kpos /\ handed' = handed
      /\ \A e \in Dev : session[e] # "reaping"
  BY DEF Reap, Running, svcVars
<1>2. s \in Seq(Packet) /\ MaxPos \in Nat
  BY BoundsAssumption DEF UsbTypeOK
<1>3. bind[d] # NULL /\ c = bind[d] /\ c \in Ctx /\ c # NULL
  BY <1>1 DEF SessionInv, OwnInv, UsbTypeOK
<1>4. kpos[c] \in Nat /\ kpos[c] <= MaxPos /\ upos[c] \in Nat
  BY <1>2, <1>3 DEF UsbTypeOK
<1> HIDE DEF s, c
<1>5. /\ t \in Seq(Packet) /\ p \in Packet /\ 1 \in DOMAIN s /\ p = s[1]
      /\ \A i \in DOMAIN t : i + 1 \in DOMAIN s /\ t[i] = s[i + 1]
      /\ Count(s) = Count(t) + k
      /\ Aligned(s, upos[c]) => Aligned(t, upos[c] + k)
  BY <1>1, <1>2, <1>4, TailCount
<1>6. Count(s) \in Nat /\ Count(t) \in Nat
  BY <1>2, <1>5, CountTypes
<1>7. p.data # "plain"
  BY <1>1, <1>5 DEF CipherOnly, s
<1>8. /\ kpos[c] >= upos[c] + Count(s)
      /\ c \notin lost => kpos[c] = upos[c] + Count(s) /\ Aligned(s, upos[c])
  BY <1>1, <1>3 DEF StepInv, s, c
<1> HIDE DEF t, p
<1>9. done'[d] = t /\ \A e \in Dev \ {d} : done'[e] = done[e]
  BY <1>1 DEF UsbTypeOK
<1>10. \/ /\ lost' = IF p.data = "cipher" THEN lost \cup {c} ELSE lost
          /\ upos' = upos /\ qemu' = qemu
       \/ /\ p.data = "cipher"
          /\ upos' = [upos EXCEPT ![c] = @ + 1] /\ lost' = lost /\ qemu' = qemu
       \/ qemu' = "dying" /\ lost' = lost /\ upos' = upos
  BY <1>7 DEF Reap, p, s, c
<1>11. UsbTypeOK'
  <2>1. done' \in [Dev -> Seq(Packet)]
    BY <1>1, <1>5 DEF UsbTypeOK
  <2>2. upos' \in [Ctx -> 0 .. MaxPos]
    <3>1. CASE upos' = upos
      BY <3>1 DEF UsbTypeOK
    <3>2. CASE p.data = "cipher" /\ upos' = [upos EXCEPT ![c] = @ + 1]
      <4>1. Count(s) = Count(t) + 1
        BY <1>5, <3>2
      <4>2. upos[c] + 1 <= MaxPos
        BY <1>2, <1>4, <1>6, <1>8, <4>1
      <4>3. upos[c] + 1 \in 0 .. MaxPos
        BY <1>2, <1>4, <4>2
      <4> QED BY <3>2, <4>3 DEF UsbTypeOK
    <3> QED BY <1>10, <3>1, <3>2
  <2>3. lost' \subseteq Ctx /\ qemu' \in {"run", "dying"}
    BY <1>3, <1>10 DEF UsbTypeOK
  <2> QED BY <1>1, <2>1, <2>2, <2>3 DEF UsbTypeOK
<1>12. OwnInv' /\ RoomInv'
  BY <1>1 DEF OwnInv, RoomInv
<1>13. SessionInv'
  BY <1>1, <1>9 DEF SessionInv
<1>14. CipherOnly'
  <2> SUFFICES ASSUME NEW e \in Dev, session[e] = "open", NEW i \in DOMAIN done'[e]
               PROVE  done'[e][i].data # "plain"
    BY <1>1 DEF CipherOnly, UsbTypeOK
  <2>1. CASE e = d
    BY <1>1, <1>5, <1>9, <2>1 DEF CipherOnly, s
  <2>2. CASE e # d
    BY <1>1, <1>9, <2>2 DEF CipherOnly
  <2> QED BY <2>1, <2>2
<1>15. StepInv'
  <2>1. \A b \in Ctx \ created' : kpos'[b] = 0 /\ upos'[b] = 0
    <3>1. c \in created
      BY <1>3 DEF OwnInv, UsbTypeOK, c
    <3> QED BY <1>1, <1>10, <3>1 DEF StepInv, UsbTypeOK
  <2>2. ASSUME NEW e \in Dev, qemu' = "run", cctx[e] # NULL
        PROVE  /\ kpos[cctx[e]] >= upos'[cctx[e]] + Count(done'[e])
               /\ cctx[e] \notin lost' =>
                    /\ kpos[cctx[e]] = upos'[cctx[e]] + Count(done'[e])
                    /\ Aligned(done'[e], upos'[cctx[e]])
    <3>1. CASE e # d
      <4>1. cctx[e] # c /\ done'[e] = done[e]
        BY <1>9, <2>2, <3>1 DEF OwnInv, c
      <4>2. upos'[cctx[e]] = upos[cctx[e]] /\ (cctx[e] \notin lost' => cctx[e] \notin lost)
        BY <1>3, <1>10, <2>2, <4>1 DEF UsbTypeOK
      <4> QED BY <1>1, <2>2, <4>1, <4>2 DEF StepInv
    <3>2. CASE e = d
      <4>1. CASE upos' = upos /\ lost' = IF p.data = "cipher" THEN lost \cup {c} ELSE lost
        <5>1. c \notin lost' => k = 0 /\ c \notin lost
          BY <4>1
        <5>2. upos[c] + 0 = upos[c]
          BY <1>4
        <5>3. /\ kpos[c] >= upos[c] + Count(t)
              /\ c \notin lost' => kpos[c] = upos[c] + Count(t) /\ Aligned(t, upos[c])
          BY <1>4, <1>5, <1>6, <1>8, <5>1, <5>2
        <5> QED BY <1>9, <3>2, <4>1, <5>3 DEF c
      <4>2. CASE /\ p.data = "cipher"
                 /\ upos' = [upos EXCEPT ![c] = @ + 1] /\ lost' = lost
        <5>1. upos'[c] = upos[c] + 1 /\ k = 1
          BY <1>3, <4>2 DEF UsbTypeOK
        <5>2. /\ kpos[c] >= upos[c] + 1 + Count(t)
              /\ c \notin lost => kpos[c] = upos[c] + 1 + Count(t) /\ Aligned(t, upos[c] + 1)
          BY <1>4, <1>5, <1>6, <1>8, <5>1, SMTT(30)
        <5> QED BY <1>9, <3>2, <4>2, <5>1, <5>2 DEF c
      <4> QED BY <1>10, <2>2, <4>1, <4>2
    <3> QED BY <3>1, <3>2
  <2> QED BY <1>1, <2>1, <2>2 DEF StepInv
<1>16. LiveInv'
  <2>1. LiveAt(t) = {i \in DOMAIN t : i + 1 \in LiveAt(s)}
    BY <1>5 DEF LiveAt
  <2>2. \A i \in DOMAIN t : i \in Nat
    BY <1>5
  <2>3. LiveAt(s) = {} => LiveAt(t) = {}
    BY <2>1
  <2>4. \A i, j \in LiveAt(t) : i = j
    BY <2>1, <2>2 DEF LiveInv, s
  <2> SUFFICES ASSUME NEW e \in Dev
               PROVE  /\ \A i, j \in LiveAt(done'[e]) : i = j
                      /\ stage[e] # "none" => LiveAt(done'[e]) = {}
                      /\ handed[e] # 0 => /\ handed[e] = 1 /\ session[e] # "open"
                                          /\ stage[e] = "none" /\ LiveAt(done'[e]) = {}
    BY <1>1 DEF LiveInv
  <2>5. CASE e = d
    BY <1>1, <1>9, <2>3, <2>4, <2>5 DEF LiveInv, s
  <2>6. CASE e # d
    BY <1>9, <2>6 DEF LiveInv
  <2> QED BY <2>5, <2>6
<1> QED BY <1>11, <1>12, <1>13, <1>14, <1>15, <1>16

LEMMA DisconnectKeeps ==
    ASSUME UsbInv, NEW d \in Dev, Disconnect(d)
    PROVE  UsbInv'
<1> USE DEF UsbInv
<1>1. /\ session[d] = "open" /\ active' = [active EXCEPT ![cctx[d]] = FALSE]
      /\ session' = [session EXCEPT ![d] = "reaping"]
      /\ created' = created /\ live' = live /\ bind' = bind /\ cctx' = cctx
      /\ qemu' = qemu
      /\ stage' = stage /\ killed' = killed /\ done' = done /\ kpos' = kpos /\ upos' = upos
      /\ lost' = lost /\ handed' = handed /\ qemu = "run"
  BY DEF Disconnect, Running, Toggle, urbVars
<1>2. bind[d] = cctx[d] /\ cctx[d] \in Ctx
  BY <1>1 DEF OwnInv, SessionInv, UsbTypeOK
<1>3. UsbTypeOK'
  <2>1. active' \in [Ctx -> BOOLEAN]
    BY <1>1, <1>2 DEF UsbTypeOK
  <2> QED BY <1>1, <2>1 DEF UsbTypeOK
<1>4. OwnInv' /\ RoomInv' /\ StepInv'
  BY <1>1 DEF OwnInv, RoomInv, StepInv
<1>5. SessionInv'
  <2> SUFFICES ASSUME NEW e \in Dev
               PROVE  /\ session'[e] = "closed" => stage[e] = "none" /\ done[e] = <<>>
                      /\ session'[e] # "closed" => bind[e] # NULL
                      /\ session'[e] = "open" => active'[bind[e]]
    BY <1>1 DEF SessionInv
  <2>1. CASE e = d
    BY <1>1, <2>1 DEF SessionInv, UsbTypeOK
  <2>2. CASE e # d
    <3>1. session'[e] = session[e]
      BY <1>1, <2>2 DEF UsbTypeOK
    <3>2. bind[e] # NULL => bind[e] # cctx[d] /\ bind[e] \in Ctx
      BY <1>2, <2>2 DEF OwnInv, UsbTypeOK
    <3>3. bind[e] # NULL => active'[bind[e]] = active[bind[e]]
      BY <1>1, <1>2, <3>2 DEF UsbTypeOK
    <3> QED BY <1>1, <3>1, <3>3 DEF SessionInv
  <2> QED BY <2>1, <2>2
<1>6. CipherOnly' /\ LiveInv'
  BY <1>1 DEF CipherOnly, LiveInv, UsbTypeOK
<1> QED BY <1>3, <1>4, <1>5, <1>6

LEMMA ReapOnCloseKeeps ==
    ASSUME UsbInv, NEW d \in Dev, ReapOnClose(d)
    PROVE  UsbInv'
<1> USE DEF UsbInv
<1>1. /\ session[d] = "reaping"
      /\ created' = created /\ live' = live /\ active' = active /\ bind' = bind
      /\ qemu' = qemu /\ cctx' = cctx /\ stage' = stage
      /\ killed' = killed /\ kpos' = kpos /\ upos' = upos
  BY DEF ReapOnClose, svcVars
<1>2. CASE /\ session' = [session EXCEPT ![d] = "closing"]
           /\ done' = done /\ lost' = lost /\ handed' = handed
  <2>1. UsbTypeOK'
    BY <1>1, <1>2 DEF UsbTypeOK
  <2>2. OwnInv' /\ RoomInv' /\ StepInv'
    BY <1>1, <1>2 DEF OwnInv, RoomInv, StepInv
  <2>3. SessionInv' /\ CipherOnly' /\ LiveInv'
    BY <1>1, <1>2 DEF SessionInv, CipherOnly, LiveInv, UsbTypeOK
  <2> QED BY <2>1, <2>2, <2>3
<1>3. CASE /\ done[d] # <<>> /\ done' = [done EXCEPT ![d] = Tail(@)]
           /\ lost' = IF Head(done[d]).data = "cipher" THEN lost \cup {cctx[d]} ELSE lost
           /\ handed' = IF Head(done[d]).live /\ Head(done[d]).data = "plain"
                        THEN [handed EXCEPT ![d] = @ + 1] ELSE handed
           /\ session' = session
  <2> DEFINE s == done[d]
             t == Tail(s)
             p == Head(s)
             c == cctx[d]
  <2>1. s \in Seq(Packet) /\ s # <<>> /\ MaxPos \in Nat
    BY <1>3, BoundsAssumption DEF UsbTypeOK
  <2> HIDE DEF s
  <2>2. /\ t \in Seq(Packet) /\ p \in Packet /\ 1 \in DOMAIN s /\ p = s[1]
        /\ \A i \in DOMAIN t : i + 1 \in DOMAIN s /\ t[i] = s[i + 1]
        /\ Count(s) = Count(t) + (IF p.data = "cipher" THEN 1 ELSE 0)
        /\ \A u \in Nat : Aligned(s, u) => Aligned(t, u + (IF p.data = "cipher" THEN 1 ELSE 0))
    BY <2>1, TailCount
  <2>3. Count(s) \in Nat /\ Count(t) \in Nat
    BY <2>1, <2>2, CountTypes
  <2>13. \A i \in DOMAIN t : i \in Nat
    BY <2>2, LenProperties
  <2>4. /\ lost' = IF p.data = "cipher" THEN lost \cup {c} ELSE lost
        /\ handed' = IF p.live /\ p.data = "plain" THEN [handed EXCEPT ![d] = @ + 1] ELSE handed
    BY <1>3 DEF s
  <2> HIDE DEF t, p
  <2>5. done'[d] = t /\ \A e \in Dev \ {d} : done'[e] = done[e]
    BY <1>3 DEF UsbTypeOK, t, s
  <2>6. c \in Ctx
    BY <1>1 DEF SessionInv, OwnInv, UsbTypeOK
  <2>7. UsbTypeOK'
    <3>1. done' \in [Dev -> Seq(Packet)]
      BY <1>3, <2>2 DEF UsbTypeOK, t, s
    <3>2. handed' \in [Dev -> Nat]
      BY <2>4 DEF UsbTypeOK
    <3>3. lost' \subseteq Ctx
      BY <2>4, <2>6 DEF UsbTypeOK
    <3> QED BY <1>1, <1>3, <3>1, <3>2, <3>3 DEF UsbTypeOK
  <2>8. OwnInv' /\ RoomInv'
    BY <1>1 DEF OwnInv, RoomInv
  <2>9. SessionInv'
    BY <1>1, <1>3, <2>5 DEF SessionInv
  <2>10. LiveInv'
    <3>1. LiveAt(t) = {i \in DOMAIN t : i + 1 \in LiveAt(s)}
      BY <2>2 DEF LiveAt
    <3>2. \A i, j \in LiveAt(s) : i = j
      BY DEF LiveInv, s
    <3>3. LiveAt(s) = {} => LiveAt(t) = {}
      BY <3>1
    <3>4. \A i, j \in LiveAt(t) : i = j
      BY <2>13, <3>1, <3>2
    <3>5. p.live => 1 \in LiveAt(s) /\ LiveAt(t) = {} /\ stage[d] = "none" /\ handed[d] = 0
      <4>1. p.live => 1 \in LiveAt(s)
        BY <2>2 DEF LiveAt
      <4>2. p.live => LiveAt(t) = {}
        <5> SUFFICES ASSUME p.live, NEW i \in LiveAt(t)
                     PROVE  FALSE
          OBVIOUS
        <5>1. i \in Nat /\ i + 1 \in LiveAt(s)
          BY <2>13, <3>1
        <5>2. i + 1 = 1
          BY <3>2, <4>1, <5>1
        <5>3. 0 \in DOMAIN t
          BY <3>1, <5>1, <5>2
        <5> QED BY <2>2, <5>3, LenProperties
      <4> QED BY <4>1, <4>2 DEF LiveInv, s
    <3>6. \A e \in Dev \ {d} : handed'[e] = handed[e]
      BY <2>4 DEF UsbTypeOK
    <3>7. handed'[d] = IF p.live /\ p.data = "plain" THEN handed[d] + 1 ELSE handed[d]
      BY <2>4 DEF UsbTypeOK
    <3>8. handed'[d] # 0 => handed'[d] = 1 /\ stage[d] = "none" /\ LiveAt(t) = {}
      BY <3>3, <3>5, <3>7 DEF LiveInv, s
    <3> SUFFICES ASSUME NEW e \in Dev
                 PROVE  /\ \A i, j \in LiveAt(done'[e]) : i = j
                        /\ stage[e] # "none" => LiveAt(done'[e]) = {}
                        /\ handed'[e] # 0 => /\ handed'[e] = 1 /\ session[e] # "open"
                                             /\ stage[e] = "none" /\ LiveAt(done'[e]) = {}
      BY <1>1, <1>3 DEF LiveInv
    <3>9. CASE e = d
      BY <1>1, <2>5, <3>3, <3>4, <3>8, <3>9 DEF LiveInv, s
    <3>10. CASE e # d
      BY <2>5, <3>6, <3>10 DEF LiveInv
    <3> QED BY <3>9, <3>10
  <2>11. CipherOnly'
    <3> SUFFICES ASSUME NEW e \in Dev
                 PROVE  /\ qemu = "run" /\ session[e] = "open" =>
                             \A i \in DOMAIN done'[e] : done'[e][i].data # "plain"
                        /\ handed'[e] <= 1
      BY <1>1, <1>3 DEF CipherOnly
    <3>1. handed'[e] <= 1
      <4>1. handed'[e] # 0 => handed'[e] = 1
        BY <2>10 DEF LiveInv
      <4> QED BY <4>1
    <3> QED BY <1>1, <2>5, <3>1 DEF CipherOnly
  <2>12. StepInv'
    <3>1. \A b \in Ctx \ created' : kpos'[b] = 0 /\ upos'[b] = 0
      BY <1>1 DEF StepInv
    <3>2. ASSUME NEW e \in Dev, qemu = "run", cctx[e] # NULL
          PROVE  /\ kpos[cctx[e]] >= upos[cctx[e]] + Count(done'[e])
                 /\ cctx[e] \notin lost' =>
                      /\ kpos[cctx[e]] = upos[cctx[e]] + Count(done'[e])
                      /\ Aligned(done'[e], upos[cctx[e]])
      <4>1. cctx[e] \notin lost' => cctx[e] \notin lost
        BY <2>4
      <4>2. CASE e # d
        BY <2>5, <3>2, <4>1, <4>2 DEF StepInv
      <4>3. CASE e = d
        <5>1. /\ kpos[c] >= upos[c] + Count(s)
              /\ c \notin lost => kpos[c] = upos[c] + Count(s) /\ Aligned(s, upos[c])
          BY <3>2, <4>3 DEF StepInv, s
        <5>2. kpos[c] \in Nat /\ upos[c] \in Nat
          BY <2>1, <2>6, <3>2 DEF UsbTypeOK
        <5>3. c \notin lost' => c \notin lost /\ p.data # "cipher"
          BY <2>4
        <5>4. upos[c] + 0 = upos[c]
          BY <5>2
        <5> HIDE DEF c
        <5>5. /\ kpos[c] >= upos[c] + Count(t)
              /\ c \notin lost' => kpos[c] = upos[c] + Count(t) /\ Aligned(t, upos[c])
          BY <2>2, <2>3, <5>1, <5>2, <5>3, <5>4
        <5> QED BY <2>5, <4>3, <5>5 DEF c
      <4> QED BY <4>2, <4>3
    <3> QED BY <1>1, <3>1, <3>2 DEF StepInv
  <2> QED BY <2>7, <2>8, <2>9, <2>10, <2>11, <2>12
<1> QED BY <1>2, <1>3 DEF ReapOnClose

LEMMA CloseKeeps ==
    ASSUME UsbInv, NEW d \in Dev, Close(d)
    PROVE  UsbInv'
<1> USE DEF UsbInv
<1>1. /\ stage[d] = "none" /\ session' = [session EXCEPT ![d] = "closed"]
      /\ done' = [done EXCEPT ![d] = <<>>]
      /\ lost' = IF cctx[d] # NULL /\ Ciphers(done[d]) # {} THEN lost \cup {cctx[d]} ELSE lost
      /\ created' = created /\ live' = live /\ active' = active /\ bind' = bind
      /\ qemu' = qemu /\ cctx' = cctx /\ stage' = stage /\ killed' = killed
      /\ kpos' = kpos /\ upos' = upos /\ handed' = handed
  BY DEF Close, svcVars
<1>2. <<>> \in Seq(Packet) /\ Count(<<>>) = 0 /\ LiveAt(<<>>) = {} /\ \A u : Aligned(<<>>, u)
  BY EmptyCount
<1>3. done'[d] = <<>> /\ \A e \in Dev \ {d} : done'[e] = done[e]
  BY <1>1 DEF UsbTypeOK
<1>4. UsbTypeOK'
  <2>1. done' \in [Dev -> Seq(Packet)]
    BY <1>1, <1>2 DEF UsbTypeOK
  <2> QED BY <1>1, <2>1 DEF UsbTypeOK
<1>5. OwnInv' /\ RoomInv'
  BY <1>1 DEF OwnInv, RoomInv
<1>6. SessionInv'
  BY <1>1, <1>3 DEF SessionInv, UsbTypeOK
<1>7. CipherOnly'
  <2> SUFFICES ASSUME NEW e \in Dev, qemu = "run", session'[e] = "open"
               PROVE  \A i \in DOMAIN done'[e] : done'[e][i].data # "plain"
    BY <1>1 DEF CipherOnly
  <2> QED BY <1>1, <1>3 DEF CipherOnly, UsbTypeOK
<1>8. StepInv'
  <2>1. \A b \in Ctx \ created' : kpos'[b] = 0 /\ upos'[b] = 0
    BY <1>1 DEF StepInv
  <2>2. ASSUME NEW e \in Dev, qemu = "run", cctx[e] # NULL
        PROVE  /\ kpos[cctx[e]] >= upos[cctx[e]] + Count(done'[e])
               /\ cctx[e] \notin lost' =>
                    /\ kpos[cctx[e]] = upos[cctx[e]] + Count(done'[e])
                    /\ Aligned(done'[e], upos[cctx[e]])
    <3>1. cctx[e] \notin lost' => cctx[e] \notin lost
      BY <1>1
    <3>2. CASE e # d
      BY <1>3, <2>2, <3>1, <3>2 DEF StepInv
    <3>3. CASE e = d
      <4> DEFINE c == cctx[d]
      <4>1. /\ kpos[c] >= upos[c] + Count(done[d])
            /\ c \notin lost => kpos[c] = upos[c] + Count(done[d])
        BY <2>2, <3>3 DEF StepInv
      <4>2. kpos[c] \in Nat /\ upos[c] \in Nat /\ done[d] \in Seq(Packet)
        BY <2>2, <3>3, BoundsAssumption DEF UsbTypeOK
      <4>3. Count(done[d]) \in Nat /\ (Count(done[d]) = 0 <=> Ciphers(done[d]) = {})
        BY <4>2, CountTypes
      <4>4. c \notin lost' => c \notin lost /\ Count(done[d]) = 0
        BY <1>1, <2>2, <3>3, <4>3
      <4> HIDE DEF c
      <4> QED BY <1>2, <1>3, <3>3, <4>1, <4>2, <4>3, <4>4 DEF c
    <3> QED BY <3>2, <3>3
  <2> QED BY <1>1, <2>1, <2>2 DEF StepInv
<1>9. LiveInv'
  <2>1. LiveAt(done'[d]) = {} /\ stage'[d] = "none" /\ session'[d] # "open"
    BY <1>1, <1>2, <1>3 DEF UsbTypeOK
  <2>2. \A e \in Dev \ {d} : session'[e] = session[e] /\ done'[e] = done[e]
    BY <1>1, <1>3 DEF UsbTypeOK
  <2> SUFFICES ASSUME NEW e \in Dev
               PROVE  /\ \A i, j \in LiveAt(done'[e]) : i = j
                      /\ stage[e] # "none" => LiveAt(done'[e]) = {}
                      /\ handed[e] # 0 => /\ handed[e] = 1 /\ session'[e] # "open"
                                          /\ stage[e] = "none" /\ LiveAt(done'[e]) = {}
    BY <1>1 DEF LiveInv
  <2>3. CASE e = d
    BY <1>1, <2>1, <2>3 DEF LiveInv
  <2>4. CASE e # d
    BY <2>2, <2>4 DEF LiveInv
  <2> QED BY <2>3, <2>4
<1> QED BY <1>4, <1>5, <1>6, <1>7, <1>8, <1>9

LEMMA DieKeeps == UsbInv /\ Die => UsbInv'
<1> SUFFICES ASSUME UsbInv, Die
             PROVE  UsbInv'
  OBVIOUS
<1>1. /\ qemu' = "dying" /\ UNCHANGED <<svcVars, cctx, session, urbVars>>
      /\ \A d \in Dev : session[d] # "reaping"
  BY DEF Die, Running
<1> QED BY <1>1 DEF UsbInv, UsbTypeOK, OwnInv, SessionInv, RoomInv, CipherOnly, StepInv,
               LiveInv, svcVars, urbVars

LEMMA DieUnbindKeeps ==
    ASSUME UsbInv, NEW d \in Dev, DieUnbind(d)
    PROVE  UsbInv'
<1>1. /\ qemu = "dying" /\ bind' = [bind EXCEPT ![d] = NULL]
      /\ UNCHANGED <<created, live, active, qemu, cctx, session, urbVars>>
  BY DEF DieUnbind, Unbind
<1> QED BY <1>1 DEF UsbInv, UsbTypeOK, OwnInv, SessionInv, RoomInv, CipherOnly, StepInv,
               LiveInv, urbVars

LEMMA DieRemoveKeeps ==
    ASSUME UsbInv, NEW d \in Dev, DieRemove(d)
    PROVE  UsbInv'
<1> USE DEF UsbInv
<1>1. /\ qemu = "dying" /\ live' = live \ {cctx[d]} /\ cctx' = [cctx EXCEPT ![d] = NULL]
      /\ cctx[d] # NULL /\ \A e \in Dev : bind[e] # cctx[d]
      /\ UNCHANGED <<created, active, bind, qemu, session, urbVars>>
  BY UsbNullAssumption DEF DieRemove, RemoveCtx, UsbTypeOK
<1>2. UsbTypeOK'
  BY <1>1 DEF UsbTypeOK, urbVars
<1>3. OwnInv'
  BY <1>1 DEF OwnInv, UsbTypeOK
<1>4. SessionInv' /\ RoomInv' /\ CipherOnly' /\ StepInv'
  BY <1>1 DEF SessionInv, RoomInv, CipherOnly, StepInv, urbVars
<1>5. LiveInv'
  BY <1>1 DEF LiveInv, urbVars
<1> QED BY <1>2, <1>3, <1>4, <1>5

LEMMA StartKeeps == UsbInv /\ Start => UsbInv'
<1> SUFFICES ASSUME UsbInv, Start
             PROVE  UsbInv'
  OBVIOUS
<1>1. /\ qemu' = "run" /\ \A d \in Dev : cctx[d] = NULL /\ session[d] = "closed"
      /\ UNCHANGED <<svcVars, cctx, session, urbVars>>
  BY DEF Start
<1> QED BY <1>1 DEF UsbInv, UsbTypeOK, OwnInv, SessionInv, RoomInv, CipherOnly, StepInv,
               LiveInv, svcVars, urbVars

-----------------------------------------------------------------------------
LEMMA UsbInitInv == UsbInit => UsbInv
<1> SUFFICES ASSUME UsbInit
             PROVE  UsbInv
  OBVIOUS
<1> USE DEF UsbInit, SvcInit
<1>1. UsbTypeOK
  <2>1. <<>> \in Seq(Packet)
    BY EmptyCount
  <2> QED BY <2>1, BoundsAssumption DEF UsbTypeOK
<1>2. OwnInv /\ SessionInv /\ RoomInv /\ StepInv
  BY DEF OwnInv, SessionInv, RoomInv, StepInv
<1>3. CipherOnly /\ LiveInv
  BY EmptyCount DEF CipherOnly, LiveInv
<1> QED BY <1>1, <1>2, <1>3 DEF UsbInv

LEMMA UsbNextInv == UsbInv /\ [UsbNext]_vars => UsbInv'
<1> SUFFICES ASSUME UsbInv, [UsbNext]_vars
             PROVE  UsbInv'
  OBVIOUS
<1>1. CASE \E d \in Dev : HcData(d) \/ HcError(d) \/ Worker(d)
  BY <1>1, HcDataKeeps, HcErrorKeeps, WorkerKeeps
<1>2. CASE \E d \in Dev, c \in Ctx : NewContext(d, c)
  BY <1>2, NewContextKeeps
<1>3. CASE \E d \in Dev : UseContext(d) \/ Connect(d) \/ Submit(d) \/ Cancel(d) \/ Reap(d)
  BY <1>3, UseContextKeeps, ConnectKeeps, SubmitKeeps, CancelKeeps, ReapKeeps
<1>4. CASE \E d \in Dev : Disconnect(d) \/ ReapOnClose(d) \/ Close(d)
  BY <1>4, DisconnectKeeps, ReapOnCloseKeeps, CloseKeeps
<1>8. CASE \E d \in Dev : DieUnbind(d) \/ DieRemove(d)
  BY <1>8, DieUnbindKeeps, DieRemoveKeeps
<1>5. CASE Die
  BY <1>5, DieKeeps
<1>6. CASE Start
  BY <1>6, StartKeeps
<1>7. CASE UNCHANGED vars
  BY <1>7 DEF vars, svcVars, urbVars, UsbInv, UsbTypeOK, OwnInv, SessionInv, RoomInv,
              CipherOnly, StepInv, LiveInv
<1> QED BY <1>1, <1>2, <1>3, <1>4, <1>5, <1>6, <1>7, <1>8 DEF UsbNext

\* Whose context a device's place holds, what its session allows its URB to be, and
\* how the URBs that wait account for the distance of the two counters.
THEOREM UsbInvariant == UsbSpec => []UsbInv
BY UsbInitInv, UsbNextInv, PTL DEF UsbSpec

\* Type correctness: the counters of both sides stay within the packets that were
\* encrypted.
THEOREM UsbTypeCorrect == UsbSpec => []UsbTypeOK
<1>1. UsbInv => UsbTypeOK
  BY DEF UsbInv
<1> QED BY <1>1, UsbInvariant, PTL

\* No plaintext URB waits for a QEMU that has the device open, and a release hands
\* at most one to the guest, for any number of devices and of contexts.
THEOREM OpenMeansEncrypted == UsbSpec => []CipherOnly
<1>1. UsbInv => CipherOnly
  BY DEF UsbInv
<1> QED BY <1>1, UsbInvariant, PTL

\* The counters of the kernel and of QEMU agree as long as no encrypted packet was
\* dropped.
THEOREM CountersAgree == UsbSpec => []InStep
<1>1. UsbInv => InStep
  BY DEF UsbInv, StepInv, InStep, Count, Aligned, Before
<1> QED BY <1>1, UsbInvariant, PTL

-----------------------------------------------------------------------------
(* The switch of the input. *)

\* The loop under way has been at x.
Done(x) == \E i \in 1 .. at - 1 : priv_devices[i] = x
HasBus == Bus \in ToSet(priv_devices)

\* The object of a device that is open is its oldest.
OldestInv ==
    \A d \in Usb, n \in Num : st[<<d, n>>] = "open" => hostdevs[d][1] = n

\* Open objects have different addresses, once they have one; an object that is
\* closed and can be opened has none.
AddrInv ==
    /\ \A o, p \in Obj :
           st[o] = "open" /\ st[p] = "open" /\ addr[o] = addr[p] /\ addr[o] # 0 => o = p
    /\ \A o \in Obj : st[o] = "closed" /\ o[1] \in plugged => addr[o] = 0

\* Nothing is left of a QEMU that has ended.
GoneInv ==
    died # "no" =>
        /\ task = "none" /\ ~held
        /\ \A d \in Usb : dev[d] = NoObj
        /\ \A o \in Obj : st[o] = "none"

\* QEMU runs and its devices were never connected twice in a row.
Single == died = "no" /\ "again" \notin cause

\* A device then has one object at most, the one that pud->dev points to.
OneInv ==
    Single => \A d \in Usb, n \in Num : st[<<d, n>>] \in {"closed", "open"} => dev[d] = n

\* Between the loops the VM has all devices or none.
RestInv ==
    Single /\ task = "none" =>
        /\ \A d \in Usb : Live(d) <=> held
        /\ driver = "vm" <=> held /\ HasBus

\* While they are connected it has those that the loop has been at.
TakeInv ==
    Single /\ task = "connect" =>
        /\ ~held
        /\ \A d \in Usb : Live(d) <=> Done(d)
        /\ driver = "vm" <=> Done(Bus)

\* While they are disconnected: if the VM had them, those that the loop has been at are
\* gone, or the object of another was freed in place of one, which the loop will
\* notice.  It takes a device without an address, or an unplugged one.
GiveInv ==
    Single /\ task = "disconnect" =>
        /\ ~held => "twice" \in cause /\ \A d \in Usb : ~Live(d)
        /\ driver = "vm" <=> held /\ HasBus /\ ~Done(Bus)
        /\ \/ \A d \in Usb : Done(d) => ~Live(d)
           \/ \E d \in Usb : ~Done(d) /\ dev[d] # NoObj /\ ~Live(d)
        /\ held /\ "early" \notin cause /\ plugged = Usb =>
               \A d \in Usb : ~Done(d) => Live(d) /\ addr[<<d, dev[d]>>] # 0

\* A device that the VM has is encrypted, until it is disconnected.
ActiveInv ==
    Single /\ task # "disconnect" => \A d \in Usb : Live(d) => d \in activated

\* The window has the input while the VM has the devices, or SDL has refused.
GrabInv == Single /\ held /\ ~gui_grab => "refused" \in cause

\* The objects, and what the VM has of them.
ObjInv == ObjectsOK /\ OldestInv /\ AddrInv
HoldInv == GoneInv /\ OneInv /\ RestInv /\ TakeInv /\ GiveInv /\ ActiveInv /\ GrabInv

\* A controller that nobody has is left by a QEMU that has ended; only a toggler's
\* release runs within async_complete; once a report was in the clear the keyboard is
\* the host's, until it is connected again.
SideInv ==
    /\ driver = "none" => died # "no"
    /\ inside # NoObj => toggler /\ task = "disconnect"
    /\ Single /\ clear => ~Live(Kbd)

SwitchInv == InputTypeOK /\ ObjInv /\ HoldInv /\ CleanRelease /\ SideInv

-----------------------------------------------------------------------------
(* Lists without repetitions. *)

LEMMA SetOfSeq ==
    ASSUME NEW S, NEW s \in Seq(S)
    PROVE  /\ ToSet(s) \subseteq S
           /\ \A x : x \in ToSet(s) <=> \E i \in 1 .. Len(s) : s[i] = x
           /\ ToSet(s) = {} <=> s = <<>>
<1>1. DOMAIN s = 1 .. Len(s) /\ Len(s) \in Nat
  OBVIOUS
<1>2. s = <<>> <=> Len(s) = 0
  OBVIOUS
<1>3. \A x : x \in ToSet(s) <=> \E i \in 1 .. Len(s) : s[i] = x
  BY <1>1 DEF ToSet
<1>4. ToSet(s) = {} => Len(s) = 0
  BY <1>1, <1>3
<1>5. Len(s) = 0 => ToSet(s) = {}
  BY <1>3
<1> QED BY <1>1, <1>2, <1>3, <1>4, <1>5

LEMMA AppendOnce ==
    ASSUME NEW S, NEW s \in Seq(S), NEW e \in S
    PROVE  /\ Append(s, e) \in Seq(S)
           /\ ToSet(Append(s, e)) = ToSet(s) \cup {e}
           /\ IsInjective(s) /\ e \notin ToSet(s) => IsInjective(Append(s, e))
           /\ Append(s, e)[1] = IF s = <<>> THEN e ELSE s[1]
<1> DEFINE t == Append(s, e)
<1>1. /\ t \in Seq(S) /\ Len(t) = Len(s) + 1 /\ t[Len(s) + 1] = e
      /\ \A i \in 1 .. Len(s) : t[i] = s[i]
  BY AppendProperties
<1>2. Len(s) \in Nat /\ DOMAIN s = 1 .. Len(s) /\ DOMAIN t = 1 .. Len(s) + 1
  BY <1>1
<1> HIDE DEF t
<1>3. ToSet(t) = ToSet(s) \cup {e}
  <2>1. \A x : x \in ToSet(t) <=> \E i \in 1 .. Len(s) + 1 : t[i] = x
    BY <1>1, SetOfSeq
  <2>2. \A x : x \in ToSet(s) <=> \E i \in 1 .. Len(s) : s[i] = x
    BY SetOfSeq
  <2>3. 1 .. Len(s) + 1 = (1 .. Len(s)) \cup {Len(s) + 1}
    BY <1>2
  <2> QED BY <1>1, <2>1, <2>2, <2>3
<1>4. IsInjective(s) /\ e \notin ToSet(s) => IsInjective(t)
  <2> SUFFICES ASSUME IsInjective(s), e \notin ToSet(s),
                      NEW i \in 1 .. Len(s) + 1, NEW j \in 1 .. Len(s) + 1, t[i] = t[j]
               PROVE  i = j
    BY <1>2 DEF IsInjective
  <2>1. \A k \in 1 .. Len(s) : s[k] # e
    BY SetOfSeq
  <2> QED BY <1>1, <1>2, <2>1 DEF IsInjective
<1>5. t[1] = IF s = <<>> THEN e ELSE s[1]
  <2>1. s = <<>> <=> Len(s) = 0
    OBVIOUS
  <2> QED BY <1>1, <1>2, <2>1
<1> QED BY <1>1, <1>3, <1>4, <1>5 DEF t

\* RemoveFirst takes out the element; the order of the others stays.
LEMMA RemoveOnce ==
    ASSUME NEW S, NEW s \in Seq(S), IsInjective(s), NEW e \in ToSet(s)
    PROVE  /\ RemoveFirst(s, e) \in Seq(S)
           /\ ToSet(RemoveFirst(s, e)) = ToSet(s) \ {e}
           /\ IsInjective(RemoveFirst(s, e))
<1>0. Len(s) \in Nat /\ DOMAIN s = 1 .. Len(s)
  OBVIOUS
<1> PICK k \in 1 .. Len(s) : s[k] = e
  BY SetOfSeq
<1> DEFINE a == SubSeq(s, 1, k - 1)
           b == SubSeq(s, k + 1, Len(s))
           t == RemoveFirst(s, e)
<1>1. t = a \o b
  <2>1. {j \in 1 .. Len(s) : s[j] = e} = {k}
    BY <1>0 DEF IsInjective
  <2>2. Min({k}) = k
    BY DEF Min
  <2>3. t = RemoveAt(s, Min({j \in 1 .. Len(s) : s[j] = e}))
    BY <2>1 DEF RemoveFirst, SelectInSeq
  <2> QED BY <2>1, <2>2, <2>3 DEF RemoveAt
<1>2. /\ a \in Seq(S) /\ Len(a) = k - 1
      /\ \A j \in 1 .. k - 1 : a[j] = s[j]
  BY <1>0, SubSeqProperties
<1>3. /\ b \in Seq(S) /\ Len(b) = Len(s) - k
      /\ \A j \in 1 .. Len(s) - k : b[j] = s[k + j]
  OBVIOUS
<1> HIDE DEF a, b, t
<1>4. /\ t \in Seq(S) /\ Len(t) = Len(s) - 1
      /\ \A j \in 1 .. Len(s) - 1 : t[j] = IF j < k THEN s[j] ELSE s[j + 1]
  <2>1. /\ t \in Seq(S) /\ Len(t) = Len(a) + Len(b)
        /\ \A j \in 1 .. Len(a) + Len(b) :
               t[j] = IF j <= Len(a) THEN a[j] ELSE b[j - Len(a)]
    BY <1>1, <1>2, <1>3, ConcatProperties
  <2>2. Len(a) + Len(b) = Len(s) - 1
    BY <1>0, <1>2, <1>3
  <2>3. ASSUME NEW j \in 1 .. Len(s) - 1
        PROVE  t[j] = IF j < k THEN s[j] ELSE s[j + 1]
    <3>1. CASE j < k
      BY <1>0, <1>2, <2>1, <2>2, <3>1
    <3>2. CASE ~(j < k)
      <4> DEFINE m == j - Len(a)
      <4>1. m \in 1 .. Len(s) - k /\ k + m = j + 1
        BY <1>0, <1>2, <3>2
      <4>2. t[j] = b[m]
        <5>1. j \in 1 .. Len(a) + Len(b)
          BY <2>2
        <5>2. ~(j <= Len(a))
          BY <1>0, <1>2, <3>2
        <5> QED BY <2>1, <5>1, <5>2
      <4> HIDE DEF m
      <4>3. b[m] = s[k + m]
        BY <1>3, <4>1
      <4> QED BY <3>2, <4>1, <4>2, <4>3
    <3> QED BY <3>1, <3>2
  <2> QED BY <2>1, <2>2, <2>3
<1>5. DOMAIN t = 1 .. Len(s) - 1
  BY <1>4
<1>6. \A x : x \in ToSet(t) <=> \E j \in 1 .. Len(s) - 1 : t[j] = x
  BY <1>4, SetOfSeq
<1>7. \A x : x \in ToSet(s) <=> \E j \in 1 .. Len(s) : s[j] = x
  BY SetOfSeq
<1>8. \A i \in 1 .. Len(s) : s[i] = e <=> i = k
  BY <1>0 DEF IsInjective
<1>9. ToSet(t) = ToSet(s) \ {e}
  <2>1. ASSUME NEW x \in ToSet(t)
        PROVE  x \in ToSet(s) /\ x # e
    <3> PICK j \in 1 .. Len(s) - 1 : t[j] = x
      BY <1>6
    <3>1. CASE j < k
      BY <1>0, <1>4, <1>7, <1>8, <3>1
    <3>2. CASE ~(j < k)
      BY <1>0, <1>4, <1>7, <1>8, <3>2
    <3> QED BY <3>1, <3>2
  <2>2. ASSUME NEW x \in ToSet(s), x # e
        PROVE  x \in ToSet(t)
    <3> PICK i \in 1 .. Len(s) : s[i] = x
      BY <1>7
    <3>1. CASE i < k
      <4>1. i \in 1 .. Len(s) - 1 /\ t[i] = x
        BY <1>0, <1>4, <3>1
      <4> QED BY <1>6, <4>1
    <3>2. CASE i > k
      <4>1. i - 1 \in 1 .. Len(s) - 1 /\ ~(i - 1 < k) /\ (i - 1) + 1 = i
        BY <1>0, <3>2
      <4>2. t[i - 1] = x
        BY <1>4, <4>1
      <4> QED BY <1>6, <4>1, <4>2
    <3> QED BY <1>0, <2>2, <3>1, <3>2
  <2> QED BY <2>1, <2>2
<1>10. IsInjective(t)
  <2> SUFFICES ASSUME NEW i \in 1 .. Len(s) - 1, NEW j \in 1 .. Len(s) - 1, t[i] = t[j]
               PROVE  i = j
    BY <1>5 DEF IsInjective
  <2>1. \A m, n \in 1 .. Len(s) : s[m] = s[n] => m = n
    BY <1>0 DEF IsInjective
  <2> DEFINE f(n) == IF n < k THEN n ELSE n + 1
  <2>2. f(i) \in 1 .. Len(s) /\ f(j) \in 1 .. Len(s)
    BY <1>0
  <2>3. t[i] = s[f(i)] /\ t[j] = s[f(j)]
    BY <1>4
  <2> HIDE DEF f
  <2>4. f(i) = f(j)
    BY <2>1, <2>2, <2>3
  <2> QED BY <1>0, <2>4 DEF f
<1> QED BY <1>4, <1>9, <1>10 DEF t

-----------------------------------------------------------------------------
(* The loop over the devices comes to each of them once. *)

LEMMA ListOnce ==
    ASSUME InputTypeOK
    PROVE  /\ Len(priv_devices) \in Nat
           /\ \A i, j \in 1 .. Len(priv_devices) : priv_devices[i] = priv_devices[j] => i = j
           /\ \A x : x \in ToSet(priv_devices)
                         <=> \E i \in 1 .. Len(priv_devices) : priv_devices[i] = x
           /\ Usb \subseteq ToSet(priv_devices)
<1>1. /\ priv_devices \in Seq({Kbd, Mouse, Bus})
      /\ Usb \subseteq ToSet(priv_devices) /\ IsInjective(priv_devices)
  BY InputAssumption DEF InputTypeOK
<1>2. Len(priv_devices) \in Nat /\ DOMAIN priv_devices = 1 .. Len(priv_devices)
  BY <1>1
<1> QED BY <1>1, <1>2, SetOfSeq DEF IsInjective

LEMMA LoopStep ==
    ASSUME InputTypeOK, UNCHANGED priv_devices, at' = at + 1, at <= Len(priv_devices)
    PROVE  /\ at' \in 1 .. Len(priv_devices') + 1
           /\ ~Done(priv_devices[at])
           /\ \A x : Done(x)' <=> Done(x) \/ x = priv_devices[at]
<1>1. at \in 1 .. Len(priv_devices) /\ Len(priv_devices) \in Nat
  BY ListOnce DEF InputTypeOK
<1>2. 1 .. at' - 1 = (1 .. at - 1) \cup {at} /\ 1 .. at - 1 \subseteq 1 .. Len(priv_devices)
  BY <1>1
<1>3. ~Done(priv_devices[at])
  BY <1>1, <1>2, ListOnce DEF Done
<1> QED BY <1>1, <1>2, <1>3 DEF Done

\* A loop that is at a device has not been there.
LEMMA LoopAt ==
    ASSUME InputTypeOK, at <= Len(priv_devices)
    PROVE  ~Done(priv_devices[at])
<1>1. at \in 1 .. Len(priv_devices) /\ Len(priv_devices) \in Nat
  BY ListOnce DEF InputTypeOK
<1>2. 1 .. at - 1 \subseteq 1 .. Len(priv_devices)
  BY <1>1
<1> QED BY <1>1, <1>2, ListOnce DEF Done

LEMMA LoopStart ==
    ASSUME at' = 1
    PROVE  \A x : ~Done(x)'
BY DEF Done

LEMMA LoopEnd ==
    ASSUME InputTypeOK, at > Len(priv_devices)
    PROVE  (\A d \in Usb : Done(d)) /\ (Done(Bus) <=> HasBus)
<1>1. at - 1 = Len(priv_devices)
  BY ListOnce DEF InputTypeOK
<1> QED BY <1>1, ListOnce DEF Done, HasBus

-----------------------------------------------------------------------------
(* The steps that change objects. *)

LEMMA ObjPair ==
    ASSUME NEW o \in Obj
    PROVE  o[1] \in Usb /\ o[2] \in Num /\ o = <<o[1], o[2]>>
BY DEF Obj

LEMMA ObjSame ==
    ASSUME ObjInv, UNCHANGED <<dev, st, addr, hostdevs, used, plugged>>
    PROVE  ObjInv' /\ \A d \in Usb : Live(d)' <=> Live(d)
BY DEF ObjInv, ObjectsOK, OldestInv, AddrInv, Live

LEMMA NoObjectsInv ==
    ASSUME NoObjects
    PROVE  ObjInv' /\ \A d \in Usb : ~Live(d)'
<1>1. ToSet(used') = {} /\ \A d \in Usb : ToSet(hostdevs'[d]) = {}
  <2>1. ToSet(<<>>) = {}
    BY DEF ToSet
  <2> QED BY <2>1 DEF NoObjects
<1>2. IsInjective(used') /\ \A d \in Usb : IsInjective(hostdevs'[d])
  BY DEF NoObjects, IsInjective
<1>3. \A o \in Obj : st'[o] = "none"
  BY DEF NoObjects
<1>4. \A d \in Usb, n \in Num : st'[<<d, n>>] = "none"
  BY <1>3 DEF Obj
<1>5. ObjectsOK'
  BY <1>1, <1>2, <1>3, <1>4 DEF NoObjects, ObjectsOK, NoObj
<1> QED BY <1>3, <1>4, <1>5 DEF ObjInv, OldestInv, AddrInv, Live, NoObjects

\* An object is opened, with its device plugged in: it has no address.
LEMMA AutoCheckObj ==
    ASSUME ObjInv, NEW d \in Usb, AutoCheck(d)
    PROVE  /\ ObjInv'
           /\ \A e \in Usb, n \in Num :
                  st'[<<e, n>>] \in {"closed", "open"} <=> st[<<e, n>>] \in {"closed", "open"}
<1> DEFINE k == hostdevs[d][1]
           o == <<d, k>>
<1>1. /\ d \in plugged /\ hostdevs[d] # <<>> /\ st[o] = "closed"
      /\ st' = [st EXCEPT ![o] = "open"] /\ used' = Append(used, o)
  BY DEF AutoCheck, ToOpen
<1>2. UNCHANGED <<dev, addr, hostdevs, plugged>>
  BY DEF AutoCheck
<1>3. k \in Num /\ o \in Obj
  BY <1>1 DEF ObjInv, ObjectsOK, Obj
<1> HIDE DEF k
<1>4. /\ st' \in [Obj -> {"none", "closed", "open", "freed"}]
      /\ \A p \in Obj : st'[p] = IF p = o THEN "open" ELSE st[p]
  BY <1>1, <1>3 DEF ObjInv, ObjectsOK
<1>5. \A e \in Usb, n \in Num :
          st'[<<e, n>>] = IF e = d /\ n = k THEN "open" ELSE st[<<e, n>>]
  BY <1>4 DEF Obj
<1>6. \A n \in Num : st[<<d, n>>] # "open"
  BY <1>1, <1>3 DEF ObjInv, OldestInv, k
<1>7. /\ used' \in Seq(Obj) /\ IsInjective(used')
      /\ ToSet(used') = {p \in Obj : st'[p] = "open"}
  <2>1. used \in Seq(Obj) /\ IsInjective(used) /\ ToSet(used) = {p \in Obj : st[p] = "open"}
    BY DEF ObjInv, ObjectsOK
  <2>2. o \notin ToSet(used)
    BY <1>1, <2>1
  <2> HIDE DEF o
  <2>3. /\ used' \in Seq(Obj) /\ IsInjective(used')
        /\ ToSet(used') = ToSet(used) \cup {o}
    BY <1>1, <1>3, <2>1, <2>2, AppendOnce
  <2>4. \A p \in Obj : p \in ToSet(used') <=> st'[p] = "open"
    BY <1>4, <2>1, <2>3
  <2>5. ToSet(used') \subseteq Obj
    BY <2>3, SetOfSeq
  <2> QED BY <2>3, <2>4, <2>5
<1>8. \A e \in Usb, n \in Num :
          st'[<<e, n>>] \in {"closed", "open"} <=> st[<<e, n>>] \in {"closed", "open"}
  BY <1>1, <1>5
<1>9. \A e \in Usb :
         /\ ToSet(hostdevs'[e]) = {n \in Num : st'[<<e, n>>] \in {"closed", "open"}}
         /\ \A m, n \in Num : st'[<<e, m>>] = "open" /\ st'[<<e, n>>] = "open" => m = n
  <2> SUFFICES ASSUME NEW e \in Usb
               PROVE  /\ ToSet(hostdevs[e]) = {n \in Num : st'[<<e, n>>] \in {"closed", "open"}}
                      /\ \A m, n \in Num : st'[<<e, m>>] = "open" /\ st'[<<e, n>>] = "open" => m = n
    BY <1>2
  <2>1. /\ ToSet(hostdevs[e]) = {n \in Num : st[<<e, n>>] \in {"closed", "open"}}
        /\ \A m, n \in Num : st[<<e, m>>] = "open" /\ st[<<e, n>>] = "open" => m = n
    BY DEF ObjInv, ObjectsOK
  <2>2. ToSet(hostdevs[e]) = {n \in Num : st'[<<e, n>>] \in {"closed", "open"}}
    BY <1>8, <2>1
  <2>3. \A m, n \in Num : st'[<<e, m>>] = "open" /\ st'[<<e, n>>] = "open" => m = n
    BY <1>5, <1>6, <2>1
  <2> QED BY <2>2, <2>3
<1>10. ObjectsOK'
  BY <1>2, <1>4, <1>7, <1>9 DEF ObjInv, ObjectsOK
<1>11. OldestInv'
  BY <1>2, <1>5 DEF ObjInv, OldestInv, k
<1>12. AddrInv'
  <2>1. addr[o] = 0
    BY <1>1, <1>3 DEF ObjInv, AddrInv
  <2> QED BY <1>2, <1>3, <1>4, <2>1 DEF ObjInv, AddrInv
<1> QED BY <1>8, <1>10, <1>11, <1>12 DEF ObjInv

\* The address that the guest gives is that of no other open object.
LEMMA EnumerateObj ==
    ASSUME ObjInv, NEW o \in Obj, Enumerate(o)
    PROVE  ObjInv' /\ UNCHANGED <<dev, st>>
<1>1. UNCHANGED <<dev, st, hostdevs, used, plugged>> /\ st[o] = "open"
  BY DEF Enumerate
<1>2. PICK a \in Addr : /\ addr' = [addr EXCEPT ![o] = a]
                        /\ \A i \in 1 .. Len(used) : addr[used[i]] # a
  BY DEF Enumerate
<1>3. \A p \in Obj : st[p] = "open" => addr[p] # a
  <2>1. used \in Seq(Obj) /\ ToSet(used) = {p \in Obj : st[p] = "open"}
    BY DEF ObjInv, ObjectsOK
  <2>2. \A x : x \in ToSet(used) <=> \E i \in 1 .. Len(used) : used[i] = x
    BY <2>1, SetOfSeq
  <2> QED BY <1>2, <2>1, <2>2
<1>4. /\ addr' \in [Obj -> Addr \cup {0}]
      /\ \A p \in Obj : addr'[p] = IF p = o THEN a ELSE addr[p]
  BY <1>2 DEF ObjInv, ObjectsOK
<1>5. ObjectsOK'
  BY <1>1, <1>4 DEF ObjInv, ObjectsOK
<1>6. AddrInv'
  BY <1>1, <1>3, <1>4 DEF ObjInv, AddrInv
<1> QED BY <1>1, <1>5, <1>6 DEF ObjInv, OldestInv

LEMMA UnplugObj ==
    ASSUME ObjInv, NEW d \in Usb, Unplug(d)
    PROVE  /\ ObjInv'
           /\ \A e \in Usb, n \in Num :
                  st'[<<e, n>>] \in {"closed", "open"} <=> st[<<e, n>>] \in {"closed", "open"}
<1>1. UNCHANGED <<dev, addr, hostdevs>> /\ plugged' = plugged \ {d}
  BY DEF Unplug
<1>2. CASE UNCHANGED <<st, used>>
  BY <1>1, <1>2 DEF ObjInv, ObjectsOK, OldestInv, AddrInv
<1>3. ASSUME NEW k \in Num,
             st[<<d, k>>] = "open",
             st' = [st EXCEPT ![<<d, k>>] = "closed"],
             used' = RemoveFirst(used, <<d, k>>)
      PROVE  /\ ObjInv'
             /\ \A e \in Usb, n \in Num :
                  st'[<<e, n>>] \in {"closed", "open"} <=> st[<<e, n>>] \in {"closed", "open"}
  <2> DEFINE o == <<d, k>>
  <2>1. o \in Obj /\ o[1] = d
    BY DEF Obj
  <2>2. /\ st' \in [Obj -> {"none", "closed", "open", "freed"}]
        /\ \A p \in Obj : st'[p] = IF p = o THEN "closed" ELSE st[p]
    BY <1>3, <2>1 DEF ObjInv, ObjectsOK
  <2>3. \A e \in Usb, n \in Num :
            st'[<<e, n>>] = IF e = d /\ n = k THEN "closed" ELSE st[<<e, n>>]
    BY <2>2 DEF Obj
  <2>4. /\ used' \in Seq(Obj) /\ IsInjective(used')
        /\ ToSet(used') = {p \in Obj : st'[p] = "open"}
    <3>1. used \in Seq(Obj) /\ IsInjective(used) /\ ToSet(used) = {p \in Obj : st[p] = "open"}
      BY DEF ObjInv, ObjectsOK
    <3>2. o \in ToSet(used)
      BY <1>3, <2>1, <3>1
    <3>3. /\ used' \in Seq(Obj) /\ IsInjective(used')
          /\ ToSet(used') = ToSet(used) \ {o}
      BY <1>3, <3>1, <3>2, RemoveOnce
    <3> QED BY <2>2, <3>1, <3>3
  <2>5. \A e \in Usb, n \in Num :
            st'[<<e, n>>] \in {"closed", "open"} <=> st[<<e, n>>] \in {"closed", "open"}
    BY <1>3, <2>3
  <2>6. \A e \in Usb :
           /\ ToSet(hostdevs'[e]) = {n \in Num : st'[<<e, n>>] \in {"closed", "open"}}
           /\ \A m, n \in Num : st'[<<e, m>>] = "open" /\ st'[<<e, n>>] = "open" => m = n
    BY <1>1, <2>3, <2>5 DEF ObjInv, ObjectsOK
  <2>7. ObjectsOK'
    BY <1>1, <2>2, <2>4, <2>6 DEF ObjInv, ObjectsOK
  <2>8. OldestInv'
    BY <1>1, <2>3 DEF ObjInv, OldestInv
  <2>9. AddrInv'
    BY <1>1, <2>1, <2>2 DEF ObjInv, AddrInv
  <2> QED BY <2>5, <2>7, <2>8, <2>9 DEF ObjInv
<1> QED BY <1>2, <1>3 DEF Unplug

\* A new object of d is at the end of hostdevs, and opened only if it is the first.
LEMMA ConnectUsbObj ==
    ASSUME ObjInv, NEW d \in Usb, ConnectUsb(d)
    PROVE  /\ ObjInv'
           /\ Live(d)' /\ \A e \in Usb \ {d} : dev'[e] = dev[e] /\ (Live(e)' <=> Live(e))
           /\ \A e \in Usb, n \in Num :
                  st'[<<e, n>>] \in {"closed", "open"} =>
                      st[<<e, n>>] \in {"closed", "open"} \/ (e = d /\ n = dev'[d])
<1>1. PICK k \in NewNum(d), opens \in BOOLEAN :
          /\ opens => d \in plugged /\ hostdevs[d] = <<>>
          /\ dev' = [dev EXCEPT ![d] = k]
          /\ st' = [st EXCEPT ![<<d, k>>] = IF opens THEN "open" ELSE "closed"]
          /\ addr' = [addr EXCEPT ![<<d, k>>] = 0]
          /\ hostdevs' = [hostdevs EXCEPT ![d] = Append(@, k)]
          /\ used' = IF opens THEN Append(used, <<d, k>>) ELSE used
  BY DEF ConnectUsb
<1> DEFINE o == <<d, k>>
<1>2. UNCHANGED plugged
  BY DEF ConnectUsb
<1>3. k \in Num /\ o \in Obj /\ o[1] = d /\ st[o] \in {"none", "freed"}
  BY DEF NewNum, Obj
<1>4. /\ st' \in [Obj -> {"none", "closed", "open", "freed"}]
      /\ addr' \in [Obj -> Addr \cup {0}]
      /\ \A p \in Obj : st'[p] = IF p = o THEN IF opens THEN "open" ELSE "closed" ELSE st[p]
      /\ \A p \in Obj : addr'[p] = IF p = o THEN 0 ELSE addr[p]
  BY <1>1, <1>3 DEF ObjInv, ObjectsOK
<1>5. \A e \in Usb, n \in Num :
          st'[<<e, n>>] = IF e = d /\ n = k THEN IF opens THEN "open" ELSE "closed"
                          ELSE st[<<e, n>>]
  BY <1>4 DEF Obj
<1>6. /\ dev' \in [Usb -> Num \cup {NoObj}] /\ dev'[d] = k
      /\ \A e \in Usb \ {d} : dev'[e] = dev[e]
  BY <1>1, <1>3 DEF ObjInv, ObjectsOK
<1>7. /\ used' \in Seq(Obj) /\ IsInjective(used')
      /\ ToSet(used') = {p \in Obj : st'[p] = "open"}
  <2>1. used \in Seq(Obj) /\ IsInjective(used) /\ ToSet(used) = {p \in Obj : st[p] = "open"}
    BY DEF ObjInv, ObjectsOK
  <2>2. o \notin ToSet(used)
    BY <1>3, <2>1
  <2>3. CASE opens
    <3>0. used' = Append(used, o)
      BY <1>1, <2>3
    <3> HIDE DEF o
    <3>1. /\ used' \in Seq(Obj) /\ IsInjective(used')
          /\ ToSet(used') = ToSet(used) \cup {o}
      BY <1>3, <2>1, <2>2, <3>0, AppendOnce
    <3>2. \A p \in Obj : p \in ToSet(used') <=> st'[p] = "open"
      BY <1>4, <2>1, <2>3, <3>1
    <3>3. ToSet(used') \subseteq Obj
      BY <3>1, SetOfSeq
    <3> QED BY <3>1, <3>2, <3>3
  <2>4. CASE ~opens
    <3>1. used' = used
      BY <1>1, <2>4
    <3> QED BY <1>3, <1>4, <2>1, <2>4, <3>1
  <2> QED BY <2>3, <2>4
<1>8. /\ hostdevs' \in [Usb -> Seq(Num)] /\ IsInjective(hostdevs'[d])
      /\ ToSet(hostdevs'[d]) = ToSet(hostdevs[d]) \cup {k}
      /\ hostdevs'[d][1] = IF hostdevs[d] = <<>> THEN k ELSE hostdevs[d][1]
      /\ \A e \in Usb \ {d} : hostdevs'[e] = hostdevs[e]
  <2>1. /\ hostdevs \in [Usb -> Seq(Num)] /\ IsInjective(hostdevs[d])
        /\ ToSet(hostdevs[d]) = {n \in Num : st[<<d, n>>] \in {"closed", "open"}}
    BY DEF ObjInv, ObjectsOK
  <2>2. k \notin ToSet(hostdevs[d])
    BY <1>3, <2>1
  <2>3. hostdevs[d] \in Seq(Num)
    BY <2>1
  <2>4. /\ Append(hostdevs[d], k) \in Seq(Num) /\ IsInjective(Append(hostdevs[d], k))
        /\ ToSet(Append(hostdevs[d], k)) = ToSet(hostdevs[d]) \cup {k}
        /\ Append(hostdevs[d], k)[1] = IF hostdevs[d] = <<>> THEN k ELSE hostdevs[d][1]
    BY <1>3, <2>1, <2>2, <2>3, AppendOnce
  <2>5. hostdevs'[d] = Append(hostdevs[d], k)
    BY <1>1, <2>1
  <2>6. \A e \in Usb \ {d} : hostdevs'[e] = hostdevs[e]
    BY <1>1, <2>1
  <2>7. hostdevs' \in [Usb -> Seq(Num)]
    BY <1>1, <2>1, <2>4
  <2> QED BY <2>4, <2>5, <2>6, <2>7
<1>9. opens => \A n \in Num : st[<<d, n>>] \notin {"closed", "open"}
  <2>1. ToSet(<<>>) = {}
    BY DEF ToSet
  <2> QED BY <1>1, <2>1 DEF ObjInv, ObjectsOK
<1>10. (\E n \in Num : st[<<d, n>>] = "open") => hostdevs[d] # <<>>
  <2>1. ToSet(<<>>) = {}
    BY DEF ToSet
  <2> QED BY <2>1 DEF ObjInv, ObjectsOK
<1>11. ASSUME NEW e \in Usb
       PROVE  /\ ToSet(hostdevs'[e]) = {n \in Num : st'[<<e, n>>] \in {"closed", "open"}}
              /\ IsInjective(hostdevs'[e])
              /\ \A m, n \in Num : st'[<<e, m>>] = "open" /\ st'[<<e, n>>] = "open" => m = n
  <2>1. /\ ToSet(hostdevs[e]) = {n \in Num : st[<<e, n>>] \in {"closed", "open"}}
        /\ IsInjective(hostdevs[e])
        /\ \A m, n \in Num : st[<<e, m>>] = "open" /\ st[<<e, n>>] = "open" => m = n
    BY DEF ObjInv, ObjectsOK
  <2>2. CASE e = d
    <3>1. \A n \in Num : n \in ToSet(hostdevs'[d]) <=> st'[<<d, n>>] \in {"closed", "open"}
      BY <1>5, <1>8, <2>1, <2>2
    <3>2. ToSet(hostdevs'[d]) \subseteq Num
      BY <1>3, <1>8, <2>1, <2>2
    <3>3. \A m, n \in Num : st'[<<d, m>>] = "open" /\ st'[<<d, n>>] = "open" => m = n
      BY <1>5, <1>9, <2>1, <2>2
    <3> QED BY <1>8, <2>2, <3>1, <3>2, <3>3
  <2>3. CASE e # d
    <3>1. hostdevs'[e] = hostdevs[e] /\ \A n \in Num : st'[<<e, n>>] = st[<<e, n>>]
      BY <1>5, <1>8, <2>3
    <3> QED BY <2>1, <3>1
  <2> QED BY <2>2, <2>3
<1>12. ObjectsOK'
  BY <1>4, <1>6, <1>7, <1>8, <1>11 DEF ObjectsOK
<1>13. OldestInv'
  <2> SUFFICES ASSUME NEW e \in Usb, NEW n \in Num, st'[<<e, n>>] = "open"
               PROVE  hostdevs'[e][1] = n
    BY DEF OldestInv
  <2>1. CASE e = d /\ n = k
    BY <1>1, <1>3, <1>5, <1>8, <2>1
  <2>2. CASE e = d /\ n # k
    BY <1>5, <1>8, <1>10, <2>2 DEF ObjInv, OldestInv
  <2>3. CASE e # d
    BY <1>5, <1>8, <2>3 DEF ObjInv, OldestInv
  <2> QED BY <2>1, <2>2, <2>3
<1>14. AddrInv'
  BY <1>2, <1>4 DEF ObjInv, AddrInv
<1>15. Live(d)' /\ \A e \in Usb \ {d} : dev'[e] = dev[e] /\ (Live(e)' <=> Live(e))
  <2>1. k # NoObj
    BY <1>3, InputAssumption DEF Num, NoObj
  <2>2. \A e \in Usb \ {d} : dev[e] # NoObj => dev[e] \in Num
    BY DEF ObjInv, ObjectsOK
  <2> QED BY <1>3, <1>5, <1>6, <2>1, <2>2 DEF Live
<1> QED BY <1>5, <1>6, <1>12, <1>13, <1>14, <1>15 DEF ObjInv

\* An open object is freed.
LEMMA FreeObjObj ==
    ASSUME ObjInv, NEW o \in Obj, st[o] = "open", FreeObj(o), UNCHANGED <<dev, plugged>>
    PROVE  /\ ObjInv'
           /\ st'[o] \in {"none", "freed"}
           /\ \A p \in Obj \ {o} : st'[p] = st[p] /\ addr'[p] = addr[p]
<1> DEFINE d == o[1]
           k == o[2]
<1>1. d \in Usb /\ k \in Num /\ o = <<d, k>>
  BY ObjPair
<1> HIDE DEF d, k
<1>2. /\ st' \in [Obj -> {"none", "closed", "open", "freed"}]
      /\ addr' \in [Obj -> Addr \cup {0}]
      /\ st'[o] \in {"none", "freed"}
      /\ \A p \in Obj \ {o} : st'[p] = st[p] /\ addr'[p] = addr[p]
  BY DEF FreeObj, ObjInv, ObjectsOK
<1>3. /\ st'[<<d, k>>] \in {"none", "freed"}
      /\ \A e \in Usb, n \in Num : ~(e = d /\ n = k) => st'[<<e, n>>] = st[<<e, n>>]
  BY <1>1, <1>2 DEF Obj
<1>4. /\ used' \in Seq(Obj) /\ IsInjective(used')
      /\ ToSet(used') = {p \in Obj : st'[p] = "open"}
  <2>1. used \in Seq(Obj) /\ IsInjective(used) /\ ToSet(used) = {p \in Obj : st[p] = "open"}
    BY DEF ObjInv, ObjectsOK
  <2>2. o \in ToSet(used) /\ used' = RemoveFirst(used, o)
    BY <2>1 DEF FreeObj
  <2>3. /\ used' \in Seq(Obj) /\ IsInjective(used')
        /\ ToSet(used') = ToSet(used) \ {o}
    BY <2>1, <2>2, RemoveOnce
  <2> QED BY <1>2, <2>1, <2>3
<1>5. /\ hostdevs' \in [Usb -> Seq(Num)] /\ IsInjective(hostdevs'[d])
      /\ ToSet(hostdevs'[d]) = ToSet(hostdevs[d]) \ {k}
      /\ \A e \in Usb \ {d} : hostdevs'[e] = hostdevs[e]
  <2>1. /\ hostdevs \in [Usb -> Seq(Num)] /\ IsInjective(hostdevs[d])
        /\ ToSet(hostdevs[d]) = {n \in Num : st[<<d, n>>] \in {"closed", "open"}}
    BY <1>1 DEF ObjInv, ObjectsOK
  <2>2. k \in ToSet(hostdevs[d]) /\ hostdevs[d] \in Seq(Num)
    BY <1>1, <2>1
  <2>3. /\ RemoveFirst(hostdevs[d], k) \in Seq(Num)
        /\ IsInjective(RemoveFirst(hostdevs[d], k))
        /\ ToSet(RemoveFirst(hostdevs[d], k)) = ToSet(hostdevs[d]) \ {k}
    BY <2>1, <2>2, RemoveOnce
  <2>4. hostdevs' = [hostdevs EXCEPT ![d] = RemoveFirst(hostdevs[d], k)]
    BY DEF FreeObj, d, k
  <2> QED BY <1>1, <2>1, <2>3, <2>4
<1>6. \A n \in Num : st'[<<d, n>>] # "open"
  <2>1. \A m, n \in Num : st[<<d, m>>] = "open" /\ st[<<d, n>>] = "open" => m = n
    BY <1>1 DEF ObjInv, ObjectsOK
  <2>2. st[<<d, k>>] = "open"
    BY <1>1
  <2> QED BY <1>1, <1>3, <2>1, <2>2
<1>7. ASSUME NEW e \in Usb
      PROVE  /\ ToSet(hostdevs'[e]) = {n \in Num : st'[<<e, n>>] \in {"closed", "open"}}
             /\ IsInjective(hostdevs'[e])
             /\ \A m, n \in Num : st'[<<e, m>>] = "open" /\ st'[<<e, n>>] = "open" => m = n
  <2>1. CASE e = d
    BY <1>1, <1>3, <1>5, <1>6, <2>1, ZenonT(30) DEF ObjInv, ObjectsOK
  <2>2. CASE e # d
    <3>1. hostdevs'[e] = hostdevs[e] /\ \A n \in Num : st'[<<e, n>>] = st[<<e, n>>]
      BY <1>3, <1>5, <2>2
    <3>2. /\ ToSet(hostdevs[e]) = {n \in Num : st[<<e, n>>] \in {"closed", "open"}}
          /\ IsInjective(hostdevs[e])
          /\ \A m, n \in Num : st[<<e, m>>] = "open" /\ st[<<e, n>>] = "open" => m = n
      BY DEF ObjInv, ObjectsOK
    <3> QED BY <3>1, <3>2
  <2> QED BY <2>1, <2>2
<1>8. ObjectsOK'
  BY <1>2, <1>4, <1>5, <1>7 DEF ObjInv, ObjectsOK
<1>9. OldestInv'
  BY <1>3, <1>5, <1>6 DEF ObjInv, OldestInv
<1>10. AddrInv'
  BY <1>2 DEF ObjInv, AddrInv
<1> QED BY <1>2, <1>8, <1>9, <1>10 DEF ObjInv

-----------------------------------------------------------------------------
(* What the VM has. *)

\* Nothing that goes wrong is put down to letting go of the input without a reason.
LEMMA ExitsKeeps ==
    ASSUME SwitchInv, NEW why \in {"open", "close", "stale", "bind", "freed"}, Exits(why),
           driver' \in {"host", "none"},
           why \in {"close", "stale"} =>
               cause \cap {"again", "twice", "early"} # {} \/ plugged # Usb,
           why = "freed" => toggler
    PROVE  SwitchInv'
<1>1. ObjInv' /\ \A d \in Usb : ~Live(d)'
  BY NoObjectsInv DEF Exits
<1>2. at' \in 1 .. Len(priv_devices') + 1
  <2>1. Len(priv_devices) \in Nat
    BY ListOnce DEF SwitchInv
  <2>2. at' = 1 /\ Len(priv_devices') = Len(priv_devices)
    BY DEF Exits, configVars
  <2> QED BY <2>1, <2>2
<1>3. InputTypeOK'
  BY <1>1, <1>2 DEF SwitchInv, InputTypeOK, ObjInv, Exits, NoObjects, configVars
<1>4. GoneInv'
  BY DEF Exits, NoObjects, GoneInv
<1>5. ~Single'
  BY DEF Exits, Single
<1>6. HoldInv'
  BY <1>4, <1>5 DEF HoldInv, OneInv, RestInv, TakeInv, GiveInv, ActiveInv, GrabInv
<1>7. CleanRelease'
  BY DEF Exits, CleanRelease, configVars
<1>8. SideInv'
  BY <1>5 DEF Exits, SideInv
<1> QED BY <1>1, <1>3, <1>6, <1>7, <1>8 DEF SwitchInv

LEMMA DiesKeeps ==
    ASSUME SwitchInv, NEW why \in {"open", "close", "stale", "bind", "freed"}, Dies(why),
           why \in {"close", "stale"} =>
               cause \cap {"again", "twice", "early"} # {} \/ plugged # Usb,
           why = "freed" => toggler
    PROVE  SwitchInv'
<1>1. Exits(why) /\ driver' \in {"host", "none"}
  BY DEF Dies
<1> QED BY <1>1, ExitsKeeps

\* A step of which SideInv sees nothing, or that leaves async_complete.
LEMMA SideSame ==
    ASSUME SideInv, UNCHANGED <<died, driver, toggler, clear>>, cause \subseteq cause',
           inside' = NoObj \/ UNCHANGED <<inside, task>>,
           Live(Kbd)' <=> Live(Kbd)
    PROVE  SideInv'
BY DEF SideInv, Single

\* A step between the loops, after which pud->dev of the same devices are live.
LEMMA RestKeeps ==
    ASSUME HoldInv, Idle, UNCHANGED <<priv_devices, died, task, at, dev, held, driver, gui_grab,
                                      activated, cause>>,
           \A e \in Usb, n \in Num :
               st'[<<e, n>>] \in {"closed", "open"} <=> st[<<e, n>>] \in {"closed", "open"},
           ObjectsOK
    PROVE  HoldInv'
<1>1. died' = "no" /\ task' = "none" /\ (Single' <=> Single) /\ (HasBus' <=> HasBus)
  BY DEF Idle, Single, HasBus
<1>2. \A d \in Usb : Live(d)' <=> Live(d)
  BY DEF Live, ObjectsOK
<1>3. GoneInv' /\ TakeInv' /\ GiveInv'
  BY <1>1 DEF GoneInv, TakeInv, GiveInv
<1>4. OneInv'
  BY <1>1 DEF HoldInv, OneInv
<1>5. RestInv'
  BY <1>1, <1>2 DEF HoldInv, RestInv, Idle
<1>6. ActiveInv'
  BY <1>1, <1>2 DEF HoldInv, ActiveInv, Idle
<1>7. GrabInv'
  BY <1>1 DEF HoldInv, GrabInv
<1> QED BY <1>3, <1>4, <1>5, <1>6, <1>7 DEF HoldInv

\* priv_connect_all begins.
LEMMA StartConnectKeeps ==
    ASSUME SwitchInv, Idle, StartConnect,
           UNCHANGED <<priv_devices, toggler, died, objVars, plugged, held, driver, gui_grab>>
    PROVE  /\ ObjInv' /\ HoldInv' /\ CleanRelease' /\ inside' \in Num \cup {NoObj}
           /\ clear' = clear => SideInv'
           /\ cause \subseteq cause' /\ cause' \subseteq {"again", "twice", "early", "refused"}
           /\ task' = "connect" /\ at' \in 1 .. Len(priv_devices') + 1
<1>1. UNCHANGED <<dev, st, addr, hostdevs, used, activated>>
  BY DEF objVars
<1>2. ObjInv' /\ \A d \in Usb : Live(d)' <=> Live(d)
  BY <1>1, ObjSame DEF SwitchInv
<1>3. died' = "no" /\ task' = "connect" /\ (Single' => Single /\ ~held)
  BY DEF Idle, Single, StartConnect
<1>4. \A x : ~Done(x)'
  BY LoopStart DEF StartConnect
<1>5. GoneInv' /\ RestInv' /\ GiveInv'
  BY <1>3 DEF GoneInv, RestInv, GiveInv
<1>6. OneInv'
  BY <1>1, <1>3 DEF SwitchInv, HoldInv, OneInv
<1>7. TakeInv'
  <2> SUFFICES ASSUME Single'
               PROVE  /\ ~held' /\ \A d \in Usb : ~Live(d)'
                      /\ driver' # "vm"
    BY <1>4 DEF TakeInv
  <2> QED BY <1>2, <1>3 DEF SwitchInv, HoldInv, RestInv, Idle
<1>8. ActiveInv'
  BY <1>1, <1>2, <1>3 DEF SwitchInv, HoldInv, ActiveInv, Idle
<1>9. GrabInv'
  BY <1>3 DEF GrabInv
<1>10. CleanRelease'
  BY <1>3 DEF CleanRelease
<1>11. at' \in 1 .. Len(priv_devices') + 1
  <2>1. Len(priv_devices) \in Nat
    BY ListOnce DEF SwitchInv
  <2> QED BY <2>1 DEF StartConnect
<1>12. cause \subseteq cause' /\ cause' \subseteq {"again", "twice", "early", "refused"}
  BY DEF StartConnect, SwitchInv, InputTypeOK
<1>13. clear' = clear => SideInv'
  <2>1. Kbd \in Usb /\ inside = NoObj
    BY DEF Usb, SwitchInv, SideInv, Idle
  <2>2. inside' = NoObj
    BY <2>1 DEF StartConnect
  <2> QED BY <1>2, <1>3, <2>1, <2>2 DEF SwitchInv, SideInv
<1>14. inside' \in Num \cup {NoObj}
  BY DEF StartConnect, SwitchInv, InputTypeOK
<1> QED BY <1>13, <1>14, <1>2, <1>3, <1>5, <1>6, <1>7, <1>8, <1>9, <1>10, <1>11, <1>12 DEF HoldInv

\* priv_disconnect_all begins.
LEMMA StartDisconnectKeeps ==
    ASSUME SwitchInv, Idle, NEW n \in Num \cup {NoObj}, StartDisconnect(n), n # NoObj => toggler,
           UNCHANGED <<priv_devices, toggler, died, objVars, plugged, held, driver, gui_grab>>
    PROVE  /\ ObjInv' /\ HoldInv' /\ CleanRelease' /\ inside' \in Num \cup {NoObj}
           /\ clear' = clear => SideInv'
           /\ cause \subseteq cause' /\ cause' \subseteq {"again", "twice", "early", "refused"}
           /\ task' = "disconnect" /\ at' \in 1 .. Len(priv_devices') + 1
<1>1. UNCHANGED <<dev, st, addr, hostdevs, used, activated>>
  BY DEF objVars
<1>2. ObjInv' /\ \A d \in Usb : Live(d)' <=> Live(d)
  BY <1>1, ObjSame DEF SwitchInv
<1>3. died' = "no" /\ task' = "disconnect" /\ (Single' <=> Single) /\ (HasBus' <=> HasBus)
  BY DEF Idle, Single, StartDisconnect, HasBus
<1>4. \A x : ~Done(x)'
  BY LoopStart DEF StartDisconnect
<1>5. GoneInv' /\ RestInv' /\ TakeInv' /\ ActiveInv'
  BY <1>3 DEF GoneInv, RestInv, TakeInv, ActiveInv
<1>6. OneInv'
  BY <1>1, <1>3 DEF SwitchInv, HoldInv, OneInv
<1>7. cause \subseteq cause' /\ cause' \subseteq {"again", "twice", "early", "refused"}
  BY DEF StartDisconnect, SwitchInv, InputTypeOK
<1>8. GiveInv'
  <2> SUFFICES ASSUME Single'
               PROVE  GiveInv'
    BY DEF GiveInv
  <2>1. (\A d \in Usb : Live(d) <=> held) /\ (driver = "vm" <=> held /\ HasBus)
    BY <1>3 DEF SwitchInv, HoldInv, RestInv, Idle
  <2>2. ~held' => "twice" \in cause' /\ \A d \in Usb : ~Live(d)'
    BY <1>2, <2>1 DEF StartDisconnect
  <2>3. "early" \notin cause' => \A d \in Usb : Live(d) => addr'[<<d, dev'[d]>>] # 0
    BY <1>1 DEF StartDisconnect
  <2>4. held' /\ "early" \notin cause' => \A d \in Usb : Live(d)' /\ addr'[<<d, dev'[d]>>] # 0
    BY <1>2, <2>1, <2>3
  <2>5. driver' = "vm" <=> held' /\ HasBus'
    BY <1>3, <2>1
  <2> QED BY <1>4, <2>2, <2>4, <2>5 DEF GiveInv
<1>9. GrabInv'
  BY <1>3, <1>7 DEF SwitchInv, HoldInv, GrabInv
<1>10. CleanRelease'
  BY <1>3 DEF CleanRelease
<1>11. at' \in 1 .. Len(priv_devices') + 1
  <2>1. Len(priv_devices) \in Nat
    BY ListOnce DEF SwitchInv
  <2> QED BY <2>1 DEF StartDisconnect
<1>13. clear' = clear => SideInv'
  <2>1. Kbd \in Usb /\ inside = NoObj
    BY DEF Usb, SwitchInv, SideInv, Idle
  <2>2. inside' # NoObj => toggler'
    BY <2>1 DEF StartDisconnect
  <2> QED BY <1>2, <1>3, <2>1, <2>2 DEF SwitchInv, SideInv
<1>14. inside' \in Num \cup {NoObj}
  BY DEF StartDisconnect
<1> QED BY <1>13, <1>14, <1>2, <1>3, <1>5, <1>6, <1>7, <1>8, <1>9, <1>10, <1>11 DEF HoldInv

\* A loop is under way only while QEMU runs.
LEMMA LoopRuns ==
    ASSUME SwitchInv, task # "none"
    PROVE  died = "no"
BY DEF SwitchInv, HoldInv, GoneInv

LEMMA ConnectUsbKeeps ==
    ASSUME SwitchInv, NEW d \in Usb, ConnectUsb(d)
    PROVE  SwitchInv'
<1>1. /\ ObjInv'
      /\ Live(d)' /\ \A e \in Usb \ {d} : dev'[e] = dev[e] /\ (Live(e)' <=> Live(e))
      /\ \A e \in Usb, n \in Num :
             st'[<<e, n>>] \in {"closed", "open"} =>
                 st[<<e, n>>] \in {"closed", "open"} \/ (e = d /\ n = dev'[d])
  BY ConnectUsbObj DEF SwitchInv
<1>2. /\ task = "connect" /\ at <= Len(priv_devices) /\ priv_devices[at] = d /\ at' = at + 1
      /\ UNCHANGED <<priv_devices, toggler, died, gui_grab, gui_fullscreen, gui_saved_grab, task,
                     inside, plugged, driver, held, keys, hid, is, work, worker, cause>>
      /\ activated' = activated \cup {d} /\ pki' \in {{}, pki}
      /\ clear' = IF d = Kbd THEN FALSE ELSE clear
  BY DEF ConnectUsb, configVars, guiVars, guestVars
<1>3. /\ at' \in 1 .. Len(priv_devices') + 1
      /\ ~Done(d) /\ \A x : Done(x)' <=> Done(x) \/ x = d
  BY <1>2, LoopStep DEF SwitchInv
<1>4. died' = "no" /\ task' = "connect" /\ (Single' <=> Single)
  BY <1>2, LoopRuns DEF Single
<1>5. InputTypeOK'
  <2>1. ObjectsOK' /\ activated' \subseteq Usb /\ pki' \subseteq Combo
    BY <1>1, <1>2 DEF SwitchInv, InputTypeOK, ObjInv
  <2>2. clear' \in BOOLEAN
    <3>1. CASE d = Kbd
      BY <1>2, <3>1
    <3>2. CASE d # Kbd
      BY <1>2, <3>2 DEF SwitchInv, InputTypeOK
    <3> QED BY <3>1, <3>2
  <2>3. at' \in 1 .. Len(priv_devices') + 1
    BY <1>3
  <2>4. UNCHANGED <<priv_devices, toggler, died, gui_grab, gui_fullscreen, gui_saved_grab, task,
                    inside, plugged, driver, held, keys, hid, is, work, worker, cause>>
    BY <1>2
  <2> QED BY <2>1, <2>2, <2>3, <2>4 DEF SwitchInv, InputTypeOK
<1>6. GoneInv' /\ RestInv' /\ GiveInv'
  BY <1>4 DEF GoneInv, RestInv, GiveInv
<1>7. Single => /\ ~held /\ (\A e \in Usb : Live(e) <=> Done(e)) /\ (driver = "vm" <=> Done(Bus))
                /\ \A e \in Usb : Live(e) => e \in activated
  BY <1>2 DEF SwitchInv, HoldInv, TakeInv, ActiveInv
<1>8. OneInv'
  <2> SUFFICES ASSUME Single, NEW e \in Usb, NEW n \in Num, st'[<<e, n>>] \in {"closed", "open"}
               PROVE  dev'[e] = n
    BY <1>4 DEF OneInv
  <2>1. CASE e = d /\ n = dev'[d]
    BY <2>1
  <2>2. CASE st[<<e, n>>] \in {"closed", "open"}
    <3>1. dev[e] = n /\ n # NoObj
      BY <2>2, InputAssumption DEF SwitchInv, HoldInv, OneInv, Num, NoObj
    <3>2. Live(e)
      BY <2>2, <3>1 DEF Live
    <3>3. e # d
      BY <1>3, <1>7, <3>2
    <3> QED BY <1>1, <3>1, <3>3
  <2> QED BY <1>1, <2>1, <2>2
<1>9. TakeInv'
  <2>1. Bus # d
    BY InputAssumption
  <2> QED BY <1>1, <1>2, <1>3, <1>4, <1>7, <2>1 DEF TakeInv
<1>10. ActiveInv'
  BY <1>1, <1>2, <1>4, <1>7 DEF ActiveInv
<1>11. GrabInv' /\ CleanRelease'
  BY <1>2, <1>4 DEF SwitchInv, HoldInv, GrabInv, CleanRelease
<1>12. SideInv'
  <2>1. CASE d = Kbd
    BY <1>2, <1>4, <2>1 DEF SwitchInv, SideInv
  <2>2. CASE d # Kbd
    BY <1>1, <1>2, <1>4, <2>2 DEF SwitchInv, SideInv, Usb
  <2> QED BY <2>1, <2>2
<1> QED BY <1>12, <1>1, <1>5, <1>6, <1>8, <1>9, <1>10, <1>11 DEF SwitchInv, HoldInv

LEMMA ConnectPciKeeps ==
    ASSUME SwitchInv, ConnectPci
    PROVE  SwitchInv'
<1>1. /\ task = "connect" /\ at <= Len(priv_devices) /\ priv_devices[at] = Bus /\ at' = at + 1
      /\ UNCHANGED <<priv_devices, toggler, died, gui_grab, gui_fullscreen, gui_saved_grab, task,
                     inside, plugged, held, keys, pki, hid, is, work, worker, cause, clear,
                     dev, st, addr, hostdevs, used, activated>>
      /\ driver' = "vm"
  BY DEF ConnectPci, configVars, guiVars, guestVars, kbdVars, objVars
<1>2. ObjInv' /\ \A d \in Usb : Live(d)' <=> Live(d)
  BY <1>1, ObjSame DEF SwitchInv
<1>3. /\ at' \in 1 .. Len(priv_devices') + 1
      /\ \A x : Done(x)' <=> Done(x) \/ x = Bus
  BY <1>1, LoopStep DEF SwitchInv
<1>4. died' = "no" /\ task' = "connect" /\ (Single' <=> Single)
  BY <1>1, LoopRuns DEF Single
<1>5. InputTypeOK'
  BY <1>1, <1>2, <1>3 DEF SwitchInv, InputTypeOK, ObjInv
<1>6. GoneInv' /\ RestInv' /\ GiveInv'
  BY <1>4 DEF GoneInv, RestInv, GiveInv
<1>7. OneInv'
  BY <1>1, <1>4 DEF SwitchInv, HoldInv, OneInv
<1>8. TakeInv'
  <2>1. Bus \notin Usb
    BY InputAssumption
  <2>2. Single => ~held /\ \A e \in Usb : Live(e) <=> Done(e)
    BY <1>1 DEF SwitchInv, HoldInv, TakeInv
  <2> QED BY <1>1, <1>2, <1>3, <1>4, <2>1, <2>2 DEF TakeInv
<1>9. ActiveInv'
  BY <1>1, <1>2, <1>4 DEF SwitchInv, HoldInv, ActiveInv
<1>10. GrabInv' /\ CleanRelease' /\ SideInv'
  BY <1>1, <1>2, <1>4 DEF SwitchInv, HoldInv, GrabInv, CleanRelease, SideInv, Usb
<1> QED BY <1>2, <1>5, <1>6, <1>7, <1>8, <1>9, <1>10 DEF SwitchInv, HoldInv

LEMMA GrabStartedKeeps ==
    ASSUME SwitchInv, NEW granted \in BOOLEAN, GrabStarted(granted)
    PROVE  SwitchInv'
<1>1. /\ task = "connect" /\ at > Len(priv_devices) /\ task' = "none" /\ at' = 1
      /\ UNCHANGED <<priv_devices, toggler, died, gui_fullscreen, gui_saved_grab,
                     inside, plugged, driver, keys, pki, hid, is, work, worker, clear,
                     dev, st, addr, hostdevs, used, activated>>
      /\ held' = TRUE /\ gui_grab' = (gui_grab \/ granted)
      /\ cause' = IF granted THEN cause ELSE cause \cup {"refused"}
  BY DEF GrabStarted, configVars, guestVars, kbdVars, objVars
<1>2. ObjInv' /\ \A d \in Usb : Live(d)' <=> Live(d)
  BY <1>1, ObjSame DEF SwitchInv
<1>3. (\A d \in Usb : Done(d)) /\ (Done(Bus) <=> HasBus) /\ (HasBus' <=> HasBus)
  BY <1>1, LoopEnd DEF SwitchInv, HasBus
<1>4. died' = "no" /\ (Single' <=> Single)
  BY <1>1, LoopRuns DEF Single
<1>5. InputTypeOK'
  <2>1. at' \in 1 .. Len(priv_devices') + 1
    BY <1>1, ListOnce DEF SwitchInv
  <2>2. gui_grab' \in BOOLEAN
    BY <1>1 DEF SwitchInv, InputTypeOK
  <2>3. cause' \subseteq {"again", "twice", "early", "refused"}
    BY <1>1 DEF SwitchInv, InputTypeOK
  <2> QED BY <1>1, <1>2, <2>1, <2>2, <2>3 DEF SwitchInv, InputTypeOK, ObjInv
<1>6. GoneInv' /\ TakeInv' /\ GiveInv'
  BY <1>1, <1>4 DEF GoneInv, TakeInv, GiveInv
<1>7. OneInv'
  BY <1>1, <1>4 DEF SwitchInv, HoldInv, OneInv
<1>8. RestInv'
  BY <1>1, <1>2, <1>3, <1>4 DEF SwitchInv, HoldInv, TakeInv, RestInv
<1>9. ActiveInv'
  BY <1>1, <1>2, <1>4 DEF SwitchInv, HoldInv, ActiveInv
<1>10. GrabInv'
  BY <1>1 DEF GrabInv
<1>11. CleanRelease' /\ SideInv'
  BY <1>1, <1>2, <1>4 DEF SwitchInv, CleanRelease, SideInv, Usb
<1> QED BY <1>2, <1>5, <1>6, <1>7, <1>8, <1>9, <1>10, <1>11 DEF SwitchInv, HoldInv

\* The object that is freed has the address of the device's own; it is its own if that
\* has an address and can be opened, for then it is open.
LEMMA VictimOpen ==
    ASSUME ObjInv, NEW d \in Usb, NEW i \in Victims(d)
    PROVE  /\ used[i] \in Obj /\ st[used[i]] = "open"
           /\ Live(d) /\ d \in plugged /\ addr[<<d, dev[d]>>] # 0 => used[i] = <<d, dev[d]>>
<1>1. used \in Seq(Obj) /\ ToSet(used) = {p \in Obj : st[p] = "open"}
  BY DEF ObjInv, ObjectsOK
<1>2. i \in 1 .. Len(used) /\ addr[used[i]] = addr[<<d, dev[d]>>]
  BY DEF Victims
<1>3. used[i] \in Obj /\ st[used[i]] = "open"
  <2>1. used[i] \in ToSet(used)
    BY <1>1, <1>2, SetOfSeq
  <2> QED BY <1>1, <2>1
<1>4. ASSUME Live(d), d \in plugged, addr[<<d, dev[d]>>] # 0
      PROVE  used[i] = <<d, dev[d]>>
  <2> DEFINE o == <<d, dev[d]>>
  <2>1. o \in Obj /\ o[1] = d /\ st[o] \in {"closed", "open"}
    BY <1>4 DEF Live, ObjInv, ObjectsOK, Obj
  <2>2. st[o] = "open"
    BY <1>4, <2>1 DEF ObjInv, AddrInv
  <2> QED BY <1>2, <1>3, <1>4, <2>1, <2>2 DEF ObjInv, AddrInv
<1> QED BY <1>3, <1>4

\* There is one then.
LEMMA VictimExists ==
    ASSUME ObjInv, NEW d \in Usb, Live(d), d \in plugged, addr[<<d, dev[d]>>] # 0
    PROVE  Victims(d) # {}
<1> DEFINE o == <<d, dev[d]>>
<1>1. o \in Obj /\ o[1] = d /\ st[o] \in {"closed", "open"}
  BY DEF Live, ObjInv, ObjectsOK, Obj
<1>2. st[o] = "open"
  BY <1>1 DEF ObjInv, AddrInv
<1>3. used \in Seq(Obj) /\ o \in ToSet(used)
  BY <1>1, <1>2 DEF ObjInv, ObjectsOK
<1>4. PICK i \in 1 .. Len(used) : used[i] = o
  BY <1>3, SetOfSeq
<1> QED BY <1>4 DEF Victims

LEMMA CloseUsbKeeps ==
    ASSUME SwitchInv, NEW d \in Usb, CloseUsb(d), keys' \subseteq Combo,
           work' \in {"idle", "pending", "corrupt"}, clear' \in BOOLEAN,
           clear' => clear \/ (d = Kbd /\ dev[d] \in Reporting)
    PROVE  SwitchInv'
<1>1. /\ task = "disconnect" /\ at <= Len(priv_devices) /\ priv_devices[at] = d /\ at' = at + 1
      /\ UNCHANGED <<priv_devices, toggler, died, gui_grab, gui_fullscreen, gui_saved_grab, task,
                     inside, dev, plugged, driver, held, worker, cause>>
  BY DEF CloseUsb, configVars, guiVars
<1>2. /\ at' \in 1 .. Len(priv_devices') + 1
      /\ ~Done(d) /\ \A x : Done(x)' <=> Done(x) \/ x = d
  BY <1>1, LoopStep DEF SwitchInv
<1>3. died' = "no" /\ task' = "disconnect" /\ (Single' <=> Single) /\ (HasBus' <=> HasBus)
  BY <1>1, LoopRuns DEF Single, HasBus
<1>4. GoneInv' /\ RestInv' /\ TakeInv' /\ ActiveInv'
  BY <1>3 DEF GoneInv, RestInv, TakeInv, ActiveInv
<1>5. GrabInv' /\ CleanRelease'
  BY <1>1, <1>3 DEF SwitchInv, HoldInv, GrabInv, CleanRelease
<1>6. Bus # d
  BY InputAssumption
<1>7. Single =>
          /\ ~held => "twice" \in cause /\ \A e \in Usb : ~Live(e)
          /\ driver = "vm" <=> held /\ HasBus /\ ~Done(Bus)
          /\ \/ \A e \in Usb : Done(e) => ~Live(e)
             \/ \E e \in Usb : ~Done(e) /\ dev[e] # NoObj /\ ~Live(e)
          /\ held /\ "early" \notin cause /\ plugged = Usb =>
                 \A e \in Usb : ~Done(e) => Live(e) /\ addr[<<e, dev[e]>>] # 0
  BY <1>1 DEF SwitchInv, HoldInv, GiveInv
<1>8. CASE dev[d] = NoObj
  <2>1. UNCHANGED <<st, addr, used, hostdevs, activated, pki, hid, is>>
    BY <1>8 DEF CloseUsb, Live
  <2>2. ObjInv' /\ (\A e \in Usb : Live(e)' <=> Live(e)) /\ ~Live(d)
    BY <1>1, <1>8, <2>1, ObjSame DEF SwitchInv, Live
  <2>3. InputTypeOK'
    BY <1>1, <1>2, <2>1, <2>2 DEF SwitchInv, InputTypeOK, ObjInv
  <2>4. OneInv'
    BY <1>1, <1>3, <2>1 DEF SwitchInv, HoldInv, OneInv
  <2>5. GiveInv'
    <3> SUFFICES ASSUME Single
                 PROVE  GiveInv'
      BY <1>3 DEF GiveInv
    <3>1. ~held' => "twice" \in cause' /\ \A e \in Usb : ~Live(e)'
      BY <1>1, <1>7, <2>2
    <3>2. driver' = "vm" <=> held' /\ HasBus' /\ ~Done(Bus)'
      BY <1>1, <1>2, <1>3, <1>6, <1>7
    <3>3. \/ \A e \in Usb : Done(e)' => ~Live(e)'
          \/ \E e \in Usb : ~Done(e)' /\ dev'[e] # NoObj /\ ~Live(e)'
      BY <1>1, <1>2, <1>7, <1>8, <2>2
    <3>4. held' /\ "early" \notin cause' /\ plugged' = Usb =>
              \A e \in Usb : ~Done(e)' => Live(e)' /\ addr'[<<e, dev'[e]>>] # 0
      BY <1>1, <1>2, <1>7, <2>1, <2>2
    <3> QED BY <3>1, <3>2, <3>3, <3>4 DEF GiveInv
  <2>6. SideInv'
    BY <1>1, <1>3, <2>2 DEF SwitchInv, SideInv, Usb
  <2> QED BY <1>4, <1>5, <2>2, <2>3, <2>4, <2>5, <2>6 DEF SwitchInv, HoldInv
<1>9. CASE dev[d] # NoObj
  <2>1. Live(d) /\ \E i \in Victims(d) : FreeObj(used[i])
    BY <1>9 DEF CloseUsb
  <2>2. PICK i \in Victims(d) : FreeObj(used[i])
    BY <2>1
  <2>3. PICK e \in Usb, k \in Num : <<e, k>> = used[i]
    <3>1. used[i] \in Obj
      BY VictimOpen DEF SwitchInv
    <3> QED BY <3>1 DEF Obj
  <2> DEFINE o == <<e, k>>
  <2>4. /\ o \in Obj /\ st[o] = "open" /\ FreeObj(o)
        /\ d \in plugged /\ addr[<<d, dev[d]>>] # 0 => o = <<d, dev[d]>>
    BY <2>1, <2>2, <2>3, VictimOpen DEF SwitchInv
  <2>5. /\ ObjInv' /\ st'[o] \in {"none", "freed"}
        /\ \A p \in Obj \ {o} : st'[p] = st[p] /\ addr'[p] = addr[p]
    BY <1>1, <2>4, FreeObjObj DEF SwitchInv
  <2>6. activated' \subseteq Usb /\ pki' \subseteq Combo /\ hid' \subseteq Combo /\ is' \subseteq Combo
    <3>1. activated \subseteq Usb /\ pki \subseteq Combo /\ hid \subseteq Combo /\ is \subseteq Combo
      BY DEF SwitchInv, InputTypeOK
    <3>2. activated' = activated \ {d} /\ pki' \in {{}, pki}
      BY <1>9 DEF CloseUsb
    <3>3. hid' \in {{}, hid} /\ is' \in {{}, is}
      BY <2>4 DEF FreeObj
    <3> QED BY <3>1, <3>2, <3>3
  <2>7. InputTypeOK'
    BY <1>1, <1>2, <2>5, <2>6 DEF SwitchInv, InputTypeOK, ObjInv
  <2>8. OneInv'
    <3> SUFFICES ASSUME Single, NEW f \in Usb, NEW n \in Num,
                        st'[<<f, n>>] \in {"closed", "open"}
                 PROVE  dev[f] = n
      BY <1>1, <1>3 DEF OneInv
    <3>1. <<f, n>> \in Obj
      BY DEF Obj
    <3>2. st[<<f, n>>] \in {"closed", "open"}
      BY <2>5, <3>1
    <3> QED BY <3>2 DEF SwitchInv, HoldInv, OneInv
  <2>9. GiveInv'
    <3> SUFFICES ASSUME Single
                 PROVE  GiveInv'
      BY <1>3 DEF GiveInv
    <3>1. dev[e] = k /\ Live(e) /\ dev[e] # NoObj
      <4>1. dev[e] = k
        BY <2>4 DEF SwitchInv, HoldInv, OneInv
      <4>2. k # NoObj
        BY InputAssumption DEF Num, NoObj
      <4> QED BY <2>4, <4>1, <4>2 DEF Live
    <3>2. ~Live(e)'
      BY <1>1, <2>5, <3>1 DEF Live
    <3>3. \A f \in Usb \ {e} :
              dev[f] # NoObj => <<f, dev[f]>> \in Obj /\ <<f, dev[f]>> # o
      BY DEF SwitchInv, ObjInv, ObjectsOK, Obj
    <3>4. \A f \in Usb \ {e} : /\ Live(f)' <=> Live(f)
                               /\ Live(f) => addr'[<<f, dev'[f]>>] = addr[<<f, dev[f]>>]
      BY <1>1, <2>5, <3>3 DEF Live
    <3>5. held
      BY <1>7, <2>1
    <3>6. driver' = "vm" <=> held' /\ HasBus' /\ ~Done(Bus)'
      BY <1>1, <1>2, <1>3, <1>6, <1>7
    <3>7. \/ \A f \in Usb : Done(f)' => ~Live(f)'
          \/ \E f \in Usb : ~Done(f)' /\ dev'[f] # NoObj /\ ~Live(f)'
      <4>1. CASE \E f \in Usb : ~Done(f) /\ dev[f] # NoObj /\ ~Live(f)
        <5> PICK f \in Usb : ~Done(f) /\ dev[f] # NoObj /\ ~Live(f)
          BY <4>1
        <5>1. f # d /\ f # e
          BY <2>1, <3>1
        <5> QED BY <1>1, <1>2, <3>4, <5>1
      <4>2. CASE \A f \in Usb : Done(f) => ~Live(f)
        <5>1. ~Done(e)
          BY <3>1, <4>2
        <5>2. CASE e = d
          <6> SUFFICES ASSUME NEW f \in Usb, Done(f)'
                       PROVE  ~Live(f)'
            OBVIOUS
          <6>1. CASE f = d
            BY <3>2, <5>2, <6>1
          <6>2. CASE f # d
            BY <1>2, <3>4, <4>2, <5>2, <6>2
          <6> QED BY <6>1, <6>2
        <5>3. CASE e # d
          <6>1. ~Done(e)' /\ dev'[e] # NoObj
            BY <1>1, <1>2, <3>1, <5>1, <5>3
          <6> QED BY <3>2, <6>1
        <5> QED BY <5>2, <5>3
      <4> QED BY <1>7, <4>1, <4>2
    <3>8. held' /\ "early" \notin cause' /\ plugged' = Usb =>
              \A f \in Usb : ~Done(f)' => Live(f)' /\ addr'[<<f, dev'[f]>>] # 0
      <4> SUFFICES ASSUME "early" \notin cause, plugged = Usb, NEW f \in Usb, ~Done(f)'
                   PROVE  Live(f)' /\ addr'[<<f, dev'[f]>>] # 0
        BY <1>1
      <4>1. Live(d) /\ addr[<<d, dev[d]>>] # 0
        BY <1>2, <1>7, <3>5
      <4>2. e = d
        BY <2>4, <4>1
      <4>3. f # e /\ Live(f) /\ addr[<<f, dev[f]>>] # 0
        BY <1>2, <1>7, <3>5, <4>2
      <4> QED BY <3>4, <4>3
    <3> QED BY <1>1, <3>5, <3>6, <3>7, <3>8 DEF GiveInv
  <2>10. SideInv'
    <3> SUFFICES ASSUME Single, clear'
                 PROVE  ~Live(Kbd)'
      BY <1>1, <1>3 DEF SwitchInv, SideInv
    <3>1. dev[Kbd] # NoObj => <<Kbd, dev[Kbd]>> \in Obj
      BY DEF SwitchInv, ObjInv, ObjectsOK, Obj, Usb
    <3>2. CASE clear
      BY <1>1, <2>5, <3>1, <3>2 DEF SwitchInv, SideInv, Live
    <3>3. CASE d = Kbd /\ dev[d] \in Reporting
      <4>1. st[<<d, dev[d]>>] = "open" /\ addr[<<d, dev[d]>>] # 0
        BY <3>3 DEF Reporting
      <4>2. o = <<d, dev[d]>>
        BY <1>9, <2>2, <2>3, <2>4, <3>1, <3>3, <4>1 DEF SwitchInv, ObjInv, AddrInv, Victims
      <4> QED BY <1>1, <2>5, <3>3, <4>2 DEF Live
    <3> QED BY <3>2, <3>3
  <2> QED BY <1>4, <1>5, <2>5, <2>7, <2>8, <2>9, <2>10 DEF SwitchInv, HoldInv
<1> QED BY <1>8, <1>9

\* The device has no open object with its address, or is stale: one of the reasons.

LEMMA DisconnectUsbKeeps ==
    ASSUME SwitchInv, NEW d \in Usb, DisconnectUsb(d)
    PROVE  SwitchInv'
<1>1. /\ CloseUsb(d) /\ keys' \subseteq Combo /\ clear' \in BOOLEAN /\ (clear' => clear)
      /\ work' \in {"idle", "pending", "corrupt"}
  BY DEF DisconnectUsb, SwitchInv, InputTypeOK
<1> QED BY <1>1, CloseUsbKeeps

LEMMA DisconnectKbdLateKeeps ==
    ASSUME SwitchInv, NEW c \in Combo, DisconnectKbdLate(c)
    PROVE  SwitchInv'
<1>1. Kbd \in Usb /\ CloseUsb(Kbd) /\ dev[Kbd] \in Reporting
  BY DEF DisconnectKbdLate, Usb
<1>2. keys' \subseteq Combo /\ clear' \in BOOLEAN
  BY DEF DisconnectKbdLate, Toggled, SwitchInv, InputTypeOK
<1>3. work' \in {"idle", "pending", "corrupt"}
  BY DEF DisconnectKbdLate, ScheduleToggle, SwitchInv, InputTypeOK
<1> QED BY <1>1, <1>2, <1>3, CloseUsbKeeps

LEMMA DisconnectUsbDies ==
    ASSUME SwitchInv, NEW d \in Usb, DisconnectUsbFails(d) \/ DisconnectUsbStale(d)
    PROVE  SwitchInv'
<1>1. /\ task = "disconnect" /\ at <= Len(priv_devices) /\ priv_devices[at] = d
      /\ dev[d] # NoObj /\ (Live(d) => Victims(d) = {})
  BY DEF DisconnectUsbFails, DisconnectUsbStale, Live
<1>2. ~Done(d) /\ died = "no"
  BY <1>1, LoopAt, LoopRuns DEF SwitchInv
<1>3. cause \cap {"again", "twice", "early"} # {} \/ plugged # Usb
  <2> SUFFICES ASSUME Single, "twice" \notin cause, "early" \notin cause, plugged = Usb
               PROVE  FALSE
    BY <1>2 DEF Single
  <2>1. Live(d) /\ addr[<<d, dev[d]>>] # 0
    BY <1>1, <1>2 DEF SwitchInv, HoldInv, GiveInv
  <2> QED BY <1>1, <2>1, VictimExists DEF SwitchInv
<1>4. CASE Dies("close")
  BY <1>3, <1>4, DiesKeeps
<1>5. CASE Dies("stale")
  BY <1>3, <1>5, DiesKeeps
<1> QED BY <1>4, <1>5 DEF DisconnectUsbFails, DisconnectUsbStale

LEMMA DisconnectPciKeeps ==
    ASSUME SwitchInv, DisconnectPci
    PROVE  SwitchInv'
<1>1. /\ task = "disconnect" /\ at <= Len(priv_devices) /\ priv_devices[at] = Bus /\ at' = at + 1
      /\ UNCHANGED <<priv_devices, toggler, died, gui_grab, gui_fullscreen, gui_saved_grab, task,
                     inside, plugged, held, keys, pki, hid, is, work, worker, cause, clear,
                     dev, st, addr, hostdevs, used, activated>>
      /\ driver' = "host"
  BY DEF DisconnectPci, configVars, guiVars, guestVars, kbdVars, objVars
<1>2. ObjInv' /\ \A d \in Usb : Live(d)' <=> Live(d)
  BY <1>1, ObjSame DEF SwitchInv
<1>3. /\ at' \in 1 .. Len(priv_devices') + 1
      /\ \A x : Done(x)' <=> Done(x) \/ x = Bus
  BY <1>1, LoopStep DEF SwitchInv
<1>4. died' = "no" /\ task' = "disconnect" /\ (Single' <=> Single)
  BY <1>1, LoopRuns DEF Single
<1>5. InputTypeOK'
  BY <1>1, <1>2, <1>3 DEF SwitchInv, InputTypeOK, ObjInv
<1>6. GoneInv' /\ RestInv' /\ TakeInv' /\ ActiveInv'
  BY <1>4 DEF GoneInv, RestInv, TakeInv, ActiveInv
<1>7. OneInv'
  BY <1>1, <1>4 DEF SwitchInv, HoldInv, OneInv
<1>8. GiveInv'
  <2>1. \A d \in Usb : Done(d)' <=> Done(d)
    BY <1>3, InputAssumption
  <2>2. Done(Bus)' /\ driver' # "vm"
    BY <1>1, <1>3
  <2> QED BY <1>1, <1>2, <1>4, <2>1, <2>2 DEF SwitchInv, HoldInv, GiveInv
<1>9. GrabInv' /\ CleanRelease' /\ SideInv'
  BY <1>1, <1>2, <1>4 DEF SwitchInv, HoldInv, GrabInv, CleanRelease, SideInv, Usb
<1> QED BY <1>2, <1>5, <1>6, <1>7, <1>8, <1>9 DEF SwitchInv, HoldInv

\* The controller is not the VM's only when the devices were disconnected before.
LEMMA DisconnectPciDies ==
    ASSUME SwitchInv, DisconnectPciFails
    PROVE  SwitchInv'
<1>1. task = "disconnect" /\ at <= Len(priv_devices) /\ priv_devices[at] = Bus
  BY DEF DisconnectPciFails
<1>2. ~Done(Bus) /\ died = "no" /\ HasBus
  <2>1. at \in 1 .. Len(priv_devices)
    BY <1>1, ListOnce DEF SwitchInv, InputTypeOK
  <2> QED BY <1>1, <2>1, ListOnce, LoopAt, LoopRuns DEF SwitchInv, HasBus
<1>3. driver # "vm" => cause \cap {"again", "twice", "early"} # {}
  <2> SUFFICES ASSUME Single, driver # "vm"
               PROVE  "twice" \in cause
    BY <1>2 DEF Single
  <2> QED BY <1>1, <1>2 DEF SwitchInv, HoldInv, GiveInv
<1>4. CASE driver = "vm"
  BY <1>4, DiesKeeps DEF DisconnectPciFails
<1>5. CASE driver # "vm"
  BY <1>3, <1>5, DiesKeeps DEF DisconnectPciFails
<1> QED BY <1>4, <1>5

LEMMA GrabEndedKeeps ==
    ASSUME SwitchInv, GrabEnded
    PROVE  SwitchInv'
<1>1. /\ task = "disconnect" /\ at > Len(priv_devices) /\ task' = "none" /\ at' = 1
      /\ UNCHANGED <<priv_devices, toggler, died, gui_fullscreen, gui_saved_grab,
                     plugged, driver, keys, pki, hid, is, work, worker, clear,
                     dev, st, addr, hostdevs, used, activated>>
      /\ held' = FALSE /\ gui_grab' = FALSE /\ inside' = NoObj
      /\ cause' = cause \ {"refused", "twice", "early"}
  BY DEF GrabEnded, configVars, guestVars, kbdVars, objVars
<1>2. ObjInv' /\ \A d \in Usb : Live(d)' <=> Live(d)
  BY <1>1, ObjSame DEF SwitchInv
<1>3. (\A d \in Usb : Done(d)) /\ (Done(Bus) <=> HasBus)
  BY <1>1, LoopEnd DEF SwitchInv
<1>4. died' = "no" /\ (Single' <=> Single)
  BY <1>1, LoopRuns DEF Single
<1>5. InputTypeOK'
  <2>1. at' \in 1 .. Len(priv_devices') + 1
    BY <1>1, ListOnce DEF SwitchInv
  <2>2. cause' \subseteq {"again", "twice", "early", "refused"}
    BY <1>1 DEF SwitchInv, InputTypeOK
  <2> QED BY <1>1, <1>2, <2>1, <2>2, ZenonT(30) DEF SwitchInv, InputTypeOK, ObjInv
<1>6. GoneInv' /\ TakeInv' /\ GiveInv' /\ GrabInv'
  BY <1>1, <1>4 DEF GoneInv, TakeInv, GiveInv, GrabInv
<1>7. OneInv'
  BY <1>1, <1>4 DEF SwitchInv, HoldInv, OneInv
<1>8. Single => (\A d \in Usb : ~Live(d)) /\ driver # "vm"
  BY <1>1, <1>3 DEF SwitchInv, HoldInv, GiveInv
<1>9. RestInv' /\ ActiveInv'
  BY <1>1, <1>2, <1>4, <1>8 DEF RestInv, ActiveInv
<1>10. CleanRelease' /\ SideInv'
  BY <1>1, <1>2, <1>4 DEF SwitchInv, CleanRelease, SideInv, Usb
<1> QED BY <1>2, <1>5, <1>6, <1>7, <1>9, <1>10 DEF SwitchInv, HoldInv

-----------------------------------------------------------------------------
(* The steps between the loops. *)

\* What a step between the loops leaves to be shown when it starts none.
LEMMA RestStep ==
    ASSUME SwitchInv, Idle, InputTypeOK', ObjInv', SideInv',
           UNCHANGED <<priv_devices, died, task, at, dev, held, driver, gui_grab,
                       activated, cause>>,
           \A e \in Usb, n \in Num :
               st'[<<e, n>>] \in {"closed", "open"} <=> st[<<e, n>>] \in {"closed", "open"}
    PROVE  SwitchInv'
<1>1. HoldInv'
  BY RestKeeps DEF SwitchInv, ObjInv
<1>2. CleanRelease'
  BY DEF Idle, CleanRelease
<1> QED BY <1>1, <1>2 DEF SwitchInv

LEMMA AutoCheckKeeps ==
    ASSUME SwitchInv, NEW d \in Usb, AutoCheck(d)
    PROVE  SwitchInv'
<1>1. /\ ObjInv'
      /\ \A e \in Usb, n \in Num :
             st'[<<e, n>>] \in {"closed", "open"} <=> st[<<e, n>>] \in {"closed", "open"}
  BY AutoCheckObj DEF SwitchInv
<1>2. /\ Idle
      /\ UNCHANGED <<priv_devices, toggler, died, gui_grab, gui_fullscreen, gui_saved_grab, task, at, inside,
                     dev, held, activated, plugged, driver, keys, pki, hid, is, work, worker, cause,
                     clear>>
  BY DEF AutoCheck, configVars, guiVars, loopVars, kbdVars, guestVars
<1>3. InputTypeOK'
  BY <1>1, <1>2 DEF SwitchInv, InputTypeOK, ObjInv
<1>4. SideInv'
  <2>1. Live(Kbd)' <=> Live(Kbd)
    BY <1>1, <1>2 DEF Live, SwitchInv, ObjInv, ObjectsOK, Usb
  <2> QED BY <1>2, <2>1, SideSame DEF SwitchInv
<1> QED BY <1>1, <1>2, <1>3, <1>4, RestStep

LEMMA EnumerateKeeps ==
    ASSUME SwitchInv, NEW o \in Obj, Enumerate(o)
    PROVE  SwitchInv'
<1>1. ObjInv' /\ UNCHANGED <<dev, st>>
  BY EnumerateObj DEF SwitchInv
<1>2. /\ Idle
      /\ UNCHANGED <<priv_devices, toggler, died, gui_grab, gui_fullscreen, gui_saved_grab, task, at, inside,
                     held, activated, plugged, driver, keys, pki, work, worker, cause, clear>>
      /\ hid' \in {{}, hid} /\ is' \in {{}, is}
  BY DEF Enumerate, configVars, guiVars, loopVars, guestVars
<1>3. InputTypeOK'
  BY <1>1, <1>2 DEF SwitchInv, InputTypeOK, ObjInv
<1>4. SideInv'
  <2>1. Live(Kbd)' <=> Live(Kbd)
    BY <1>1, <1>2 DEF Live, SwitchInv, ObjInv, ObjectsOK, Usb
  <2> QED BY <1>2, <2>1, SideSame DEF SwitchInv
<1> QED BY <1>1, <1>2, <1>3, <1>4, RestStep

LEMMA UnplugKeeps ==
    ASSUME SwitchInv, NEW d \in Usb, Unplug(d)
    PROVE  SwitchInv'
<1>1. /\ ObjInv'
      /\ \A e \in Usb, n \in Num :
             st'[<<e, n>>] \in {"closed", "open"} <=> st[<<e, n>>] \in {"closed", "open"}
  BY UnplugObj DEF SwitchInv
<1>2. /\ Idle
      /\ UNCHANGED <<priv_devices, toggler, died, gui_grab, gui_fullscreen, gui_saved_grab, task, at, inside,
                     dev, held, activated, driver, keys, pki, work, worker, cause, clear>>
      /\ hid' \in {{}, hid} /\ is' \in {{}, is} /\ plugged' \subseteq plugged
  BY DEF Unplug, configVars, guiVars, loopVars, guestVars
<1>3. InputTypeOK'
  BY <1>1, <1>2 DEF SwitchInv, InputTypeOK, ObjInv
<1>4. SideInv'
  <2>1. Live(Kbd)' <=> Live(Kbd)
    BY <1>1, <1>2 DEF Live, SwitchInv, ObjInv, ObjectsOK, Usb
  <2> QED BY <1>2, <2>1, SideSame DEF SwitchInv
<1> QED BY <1>1, <1>2, <1>3, <1>4, RestStep

LEMMA DoToggleKeeps ==
    ASSUME SwitchInv, DoToggle
    PROVE  SwitchInv'
<1>1. /\ UNCHANGED <<priv_devices, toggler, died, gui_grab, gui_fullscreen, gui_saved_grab, task, at, inside,
                     dev, st, addr, hostdevs, used, held, activated, plugged, driver, keys, pki, hid,
                     cause, clear>>
      /\ work' \in {"idle", "corrupt"} /\ worker' = "first" /\ is' = {}
  BY DEF DoToggle, configVars, guiVars, loopVars, objVars
<1>2. ObjInv' /\ \A d \in Usb : Live(d)' <=> Live(d)
  BY <1>1, ObjSame DEF SwitchInv
<1>3. InputTypeOK'
  BY <1>1, <1>2 DEF SwitchInv, InputTypeOK, ObjInv
<1>4. HoldInv'
  BY <1>1, <1>2 DEF SwitchInv, HoldInv, GoneInv, Single, OneInv, RestInv, TakeInv, GiveInv,
                    ActiveInv, GrabInv, Done, HasBus
<1>5. CleanRelease' /\ SideInv'
  BY <1>1, <1>2, SideSame DEF SwitchInv, CleanRelease, Usb
<1> QED BY <1>2, <1>3, <1>4, <1>5 DEF SwitchInv

LEMMA UserGrabKeeps ==
    ASSUME SwitchInv, UserGrab
    PROVE  SwitchInv'
<1>1. /\ Idle /\ StartConnect
      /\ UNCHANGED <<priv_devices, toggler, died, objVars, plugged, held, driver, gui_grab,
                     gui_fullscreen, gui_saved_grab, activated, keys, pki, hid, is, work, worker,
                     clear>>
  BY DEF UserGrab, configVars, guiVars, kbdVars, guestVars, objVars
<1>2. /\ ObjInv' /\ HoldInv' /\ CleanRelease' /\ inside' \in Num \cup {NoObj}
      /\ SideInv'
      /\ cause \subseteq cause' /\ cause' \subseteq {"again", "twice", "early", "refused"}
      /\ task' = "connect" /\ at' \in 1 .. Len(priv_devices') + 1
  BY <1>1, StartConnectKeeps
<1>3. InputTypeOK'
  BY <1>1, <1>2 DEF SwitchInv, InputTypeOK, ObjInv
<1> QED BY <1>2, <1>3 DEF SwitchInv

LEMMA UserReleaseKeeps ==
    ASSUME SwitchInv, UserRelease
    PROVE  SwitchInv'
<1>1. /\ Idle /\ StartDisconnect(NoObj)
      /\ UNCHANGED <<priv_devices, toggler, died, objVars, plugged, held, driver, gui_grab,
                     gui_fullscreen, gui_saved_grab, activated, keys, pki, hid, is, work, worker,
                     clear>>
  BY DEF UserRelease, configVars, guiVars, kbdVars, guestVars, objVars
<1>2. /\ ObjInv' /\ HoldInv' /\ CleanRelease' /\ inside' \in Num \cup {NoObj}
      /\ SideInv'
      /\ cause \subseteq cause' /\ cause' \subseteq {"again", "twice", "early", "refused"}
      /\ task' = "disconnect" /\ at' \in 1 .. Len(priv_devices') + 1
  BY <1>1, StartDisconnectKeeps
<1>3. InputTypeOK'
  BY <1>1, <1>2 DEF SwitchInv, InputTypeOK, ObjInv
<1> QED BY <1>2, <1>3 DEF SwitchInv

LEMMA FullScreenKeeps ==
    ASSUME SwitchInv, FullScreen
    PROVE  SwitchInv'
<1>1. /\ Idle
      /\ UNCHANGED <<priv_devices, toggler, died, objVars, plugged, held, driver, gui_grab,
                     activated, keys, pki, hid, is, work, worker, clear>>
  BY DEF FullScreen, configVars, kbdVars, guestVars, objVars
<1>2. gui_fullscreen' \in BOOLEAN /\ gui_saved_grab' \in BOOLEAN
  BY DEF FullScreen, SwitchInv, InputTypeOK
<1>3. CASE StartConnect
  <2>1. /\ ObjInv' /\ HoldInv' /\ CleanRelease' /\ inside' \in Num \cup {NoObj}
        /\ SideInv'
        /\ cause \subseteq cause' /\ cause' \subseteq {"again", "twice", "early", "refused"}
        /\ task' = "connect" /\ at' \in 1 .. Len(priv_devices') + 1
    BY <1>1, <1>3, StartConnectKeeps
  <2>2. InputTypeOK'
    BY <1>1, <1>2, <2>1 DEF SwitchInv, InputTypeOK, ObjInv
  <2> QED BY <2>1, <2>2 DEF SwitchInv
<1>4. CASE StartDisconnect(NoObj)
  <2>1. /\ ObjInv' /\ HoldInv' /\ CleanRelease' /\ inside' \in Num \cup {NoObj}
        /\ SideInv'
        /\ cause \subseteq cause' /\ cause' \subseteq {"again", "twice", "early", "refused"}
        /\ task' = "disconnect" /\ at' \in 1 .. Len(priv_devices') + 1
    BY <1>1, <1>4, StartDisconnectKeeps
  <2>2. InputTypeOK'
    BY <1>1, <1>2, <2>1 DEF SwitchInv, InputTypeOK, ObjInv
  <2> QED BY <2>1, <2>2 DEF SwitchInv
<1>5. CASE UNCHANGED <<loopVars, cause>>
  <2>1. UNCHANGED <<task, at, inside, dev, st, addr, hostdevs, used, cause>>
    BY <1>1, <1>5 DEF loopVars, objVars
  <2>2. ObjInv'
    BY <1>1, <2>1, ObjSame DEF SwitchInv
  <2>3. InputTypeOK'
    BY <1>1, <1>2, <2>1, <2>2 DEF SwitchInv, InputTypeOK, ObjInv
  <2>4. SideInv'
    BY <1>1, <2>1, SideSame DEF SwitchInv, Live
  <2> QED BY <1>1, <2>1, <2>2, <2>3, <2>4, RestStep
<1> QED BY <1>3, <1>4, <1>5 DEF FullScreen

\* A report comes from an object that the VM has, so the keyboard is encrypted.
LEMMA ReportEncrypted ==
    ASSUME SwitchInv, Idle, Reporting # {}, "again" \notin cause
    PROVE  Kbd \in activated
<1>1. PICK n \in Num : st[<<Kbd, n>>] = "open"
  BY DEF Reporting
<1>2. Kbd \in Usb /\ n # NoObj
  BY InputAssumption DEF Usb, Num, NoObj
<1>3. Single
  BY DEF Single, Idle
<1>4. dev[Kbd] = n
  BY <1>1, <1>2, <1>3 DEF SwitchInv, HoldInv, OneInv
<1>5. Live(Kbd)
  BY <1>1, <1>2, <1>4 DEF Live
<1> QED BY <1>2, <1>3, <1>5 DEF SwitchInv, HoldInv, ActiveInv, Idle

LEMMA KeyKeeps ==
    ASSUME SwitchInv, NEW c \in Combo, Key(c)
    PROVE  SwitchInv'
<1> DEFINE down == Toggled(c)
<1>1. /\ Idle
      /\ UNCHANGED <<priv_devices, toggler, died, objVars, plugged, held, driver, gui_grab,
                     gui_fullscreen, gui_saved_grab, activated, worker>>
      /\ keys' = down
  BY DEF Key, configVars, guiVars, objVars
<1>2. down \subseteq Combo
  BY DEF SwitchInv, InputTypeOK, Toggled
<1> HIDE DEF down
<1>3. CASE UNCHANGED <<loopVars, pki, hid, is, work, cause, clear>>
  <2>1. UNCHANGED <<task, at, inside, dev, st, addr, hostdevs, used>>
    BY <1>1, <1>3 DEF loopVars, objVars
  <2>2. ObjInv'
    BY <1>1, <2>1, ObjSame DEF SwitchInv
  <2>3. InputTypeOK'
    BY <1>1, <1>2, <1>3, <2>1, <2>2 DEF SwitchInv, InputTypeOK, ObjInv
  <2>4. SideInv'
    BY <1>1, <1>3, <2>1, SideSame DEF SwitchInv, Live
  <2> QED BY <1>1, <1>3, <2>1, <2>2, <2>3, <2>4, RestStep
<1>4. CASE /\ Reporting # {} /\ pki' = down /\ toggler
           /\ \E n \in Reporting : StartDisconnect(n)
           /\ clear' = (clear \/ Kbd \notin activated)
           /\ UNCHANGED <<hid, is, work>>
  <2>1. /\ ObjInv' /\ HoldInv' /\ CleanRelease' /\ inside' \in Num \cup {NoObj}
        /\ clear' = clear => SideInv'
        /\ cause \subseteq cause' /\ cause' \subseteq {"again", "twice", "early", "refused"}
        /\ task' = "disconnect" /\ at' \in 1 .. Len(priv_devices') + 1
    <3> PICK n \in Num : StartDisconnect(n)
      BY <1>4 DEF Reporting
    <3> QED BY <1>1, <1>4, StartDisconnectKeeps
  <2>2. SideInv'
    <3>1. CASE Kbd \in activated
      BY <1>4, <2>1, <3>1 DEF SwitchInv, InputTypeOK
    <3>2. CASE Kbd \notin activated
      <4>1. "again" \in cause
        BY <1>1, <1>4, <3>2, ReportEncrypted
      <4>2. ~Single'
        BY <2>1, <4>1 DEF Single
      <4> QED BY <1>1, <1>4, <2>1, <4>2 DEF SwitchInv, SideInv
    <3> QED BY <3>1, <3>2
  <2>3. clear' \in BOOLEAN
    BY <1>4
  <2>4. InputTypeOK'
    BY <1>1, <1>2, <1>4, <2>1, <2>3 DEF SwitchInv, InputTypeOK, ObjInv
  <2> QED BY <2>1, <2>2, <2>4 DEF SwitchInv
<1>5. CASE /\ Reporting # {} /\ pki' = (IF toggler THEN down ELSE pki) /\ hid' = down
           /\ SwitcherSees(down)
           /\ clear' = (clear \/ Kbd \notin activated)
           /\ UNCHANGED <<loopVars, cause>>
  <2>1. UNCHANGED <<task, at, inside, dev, st, addr, hostdevs, used, cause>>
    BY <1>1, <1>5 DEF loopVars, objVars
  <2>2. ObjInv'
    BY <1>1, <2>1, ObjSame DEF SwitchInv
  <2>3. SideInv'
    <3>1. CASE Kbd \in activated
      <4>1. clear' = clear
        BY <1>5, <3>1 DEF SwitchInv, InputTypeOK
      <4> QED BY <1>1, <2>1, <4>1, SideSame DEF SwitchInv, Live
    <3>2. CASE Kbd \notin activated
      <4>1. "again" \in cause'
        BY <1>1, <1>5, <2>1, <3>2, ReportEncrypted
      <4> QED BY <1>1, <2>1, <4>1 DEF SwitchInv, SideInv, Single
    <3> QED BY <3>1, <3>2
  <2>4. clear' \in BOOLEAN
    BY <1>5
  <2>5. is' \subseteq Combo
    BY <1>2, <1>5 DEF SwitcherSees, SwitcherKnows, SwitchInv, InputTypeOK
  <2>6. work' \in {"idle", "pending", "corrupt"}
    BY <1>5 DEF SwitcherSees, ScheduleToggle, SwitchInv, InputTypeOK
  <2>7. pki' \subseteq Combo
    BY <1>2, <1>5 DEF SwitchInv, InputTypeOK
  <2>8. InputTypeOK'
    BY <1>1, <1>2, <1>5, <2>1, <2>2, <2>4, <2>5, <2>6, <2>7 DEF SwitchInv, InputTypeOK, ObjInv
  <2> QED BY <1>1, <2>1, <2>2, <2>3, <2>8, RestStep
<1> QED BY <1>3, <1>4, <1>5 DEF Key, down

LEMMA HypercallKeeps ==
    ASSUME SwitchInv, NEW a0, Hypercall(a0)
    PROVE  SwitchInv'
<1>1. /\ Idle
      /\ UNCHANGED <<priv_devices, toggler, died, objVars, plugged, held, driver, gui_grab,
                     gui_fullscreen, gui_saved_grab, activated, keys, pki, hid, is, work, clear>>
      /\ worker' \in {"second", "idle"}
  BY DEF Hypercall, configVars, guiVars, kbdVars, objVars
<1>2. CASE StartDisconnect(NoObj)
  <2>1. /\ ObjInv' /\ HoldInv' /\ CleanRelease' /\ inside' \in Num \cup {NoObj}
        /\ SideInv'
        /\ cause \subseteq cause' /\ cause' \subseteq {"again", "twice", "early", "refused"}
        /\ task' = "disconnect" /\ at' \in 1 .. Len(priv_devices') + 1
    BY <1>1, <1>2, StartDisconnectKeeps
  <2>2. InputTypeOK'
    BY <1>1, <2>1 DEF SwitchInv, InputTypeOK, ObjInv
  <2> QED BY <2>1, <2>2 DEF SwitchInv
<1>3. CASE UNCHANGED <<loopVars, cause>>
  <2>1. UNCHANGED <<task, at, inside, dev, st, addr, hostdevs, used, cause>>
    BY <1>1, <1>3 DEF loopVars, objVars
  <2>2. ObjInv'
    BY <1>1, <2>1, ObjSame DEF SwitchInv
  <2>3. InputTypeOK'
    BY <1>1, <2>1, <2>2 DEF SwitchInv, InputTypeOK, ObjInv
  <2>4. SideInv'
    BY <1>1, <2>1, SideSame DEF SwitchInv, Live
  <2> QED BY <1>1, <2>1, <2>2, <2>3, <2>4, RestStep
<1> QED BY <1>2, <1>3 DEF Hypercall, KvmToggle

LEMMA RestartKeeps ==
    ASSUME SwitchInv, Restart
    PROVE  SwitchInv'
<1>1. /\ died # "no" /\ died' = "no" /\ driver' = "host" /\ plugged' = Usb
      /\ cause' = {}
      /\ UNCHANGED <<clear, inside, priv_devices, toggler, gui_grab, gui_fullscreen, gui_saved_grab, task, at,
                     dev, st, addr, hostdevs, used, held, activated, keys, pki, hid, is, work,
                     worker>>
  BY DEF Restart, configVars, guiVars, loopVars, objVars, kbdVars, guestVars
<1>2. /\ task = "none" /\ ~held /\ (\A d \in Usb : dev[d] = NoObj)
      /\ \A o \in Obj : st[o] = "none"
  BY <1>1 DEF SwitchInv, HoldInv, GoneInv
<1>3. \A d \in Usb, n \in Num : st'[<<d, n>>] = "none"
  BY <1>1, <1>2 DEF Obj
<1>4. ObjInv'
  <2>1. ObjectsOK' /\ OldestInv'
    BY <1>1 DEF SwitchInv, ObjInv, ObjectsOK, OldestInv
  <2>2. AddrInv'
    BY <1>1, <1>2 DEF AddrInv
  <2> QED BY <2>1, <2>2 DEF ObjInv
<1>5. \A d \in Usb : ~Live(d)'
  BY <1>1, <1>2 DEF Live
<1>6. InputTypeOK'
  BY <1>1, <1>4, ZenonT(30) DEF SwitchInv, InputTypeOK, ObjInv
<1>7. HoldInv'
  BY <1>1, <1>2, <1>3, <1>5 DEF HoldInv, GoneInv, OneInv, RestInv, TakeInv, GiveInv, ActiveInv,
                                GrabInv
<1>8. CleanRelease' /\ SideInv'
  BY <1>1, <1>2, <1>5 DEF SwitchInv, CleanRelease, SideInv, Usb
<1> QED BY <1>4, <1>6, <1>7, <1>8 DEF SwitchInv

-----------------------------------------------------------------------------
LEMMA SwitchInit == InputInit => SwitchInv
<1> SUFFICES ASSUME InputInit
             PROVE  SwitchInv
  OBVIOUS
<1>1. ToSet(used) = {} /\ \A d \in Usb : ToSet(hostdevs[d]) = {}
  <2>1. ToSet(<<>>) = {}
    BY DEF ToSet
  <2> QED BY <2>1 DEF InputInit
<1>2. IsInjective(used) /\ \A d \in Usb : IsInjective(hostdevs[d])
  BY DEF InputInit, IsInjective
<1>3. (\A o \in Obj : st[o] = "none") /\ \A d \in Usb : dev[d] = NoObj
  BY DEF InputInit
<1>4. \A d \in Usb, n \in Num : st[<<d, n>>] = "none"
  BY <1>3 DEF Obj
<1>5. ObjectsOK
  BY <1>1, <1>2, <1>3, <1>4 DEF InputInit, ObjectsOK, NoObj
<1>6. ObjInv /\ \A d \in Usb : ~Live(d)
  BY <1>3, <1>4, <1>5 DEF ObjInv, OldestInv, AddrInv, Live
<1>7. InputTypeOK
  <2>1. at \in 1 .. Len(priv_devices) + 1
    <3>1. priv_devices \in Seq({Kbd, Mouse, Bus})
      BY InputAssumption DEF InputInit
    <3> QED BY <3>1 DEF InputInit
  <2> QED BY <1>5, <2>1 DEF InputInit, InputTypeOK
<1>8. HoldInv
  BY <1>3, <1>4, <1>6 DEF InputInit, HoldInv, GoneInv, OneInv, RestInv, TakeInv, GiveInv,
                          ActiveInv, GrabInv
<1>9. CleanRelease /\ SideInv
  BY DEF InputInit, CleanRelease, SideInv
<1> QED BY <1>6, <1>7, <1>8, <1>9 DEF SwitchInv

LEMMA LoopKeeps ==
    ASSUME SwitchInv, Loop
    PROVE  SwitchInv'
<1>1. CASE \E d \in Usb : ConnectUsb(d) \/ DisconnectUsb(d)
  BY <1>1, ConnectUsbKeeps, DisconnectUsbKeeps
<1>2. CASE \E d \in Usb : ConnectUsbFails(d)
  BY <1>2, DiesKeeps DEF ConnectUsbFails
<1>3. CASE \E d \in Usb : DisconnectUsbFails(d) \/ DisconnectUsbStale(d)
  BY <1>3, DisconnectUsbDies
<1>4. CASE ConnectPci
  BY <1>4, ConnectPciKeeps
<1>5. CASE ConnectPciFails
  BY <1>5, ExitsKeeps DEF ConnectPciFails
<1>6. CASE DisconnectPci
  BY <1>6, DisconnectPciKeeps
<1>7. CASE DisconnectPciFails
  BY <1>7, DisconnectPciDies
<1>8. CASE \E granted \in BOOLEAN : GrabStarted(granted)
  BY <1>8, GrabStartedKeeps
<1>9. CASE GrabEnded
  BY <1>9, GrabEndedKeeps
<1>10. CASE \E c \in Combo : DisconnectKbdLate(c)
  BY <1>10, DisconnectKbdLateKeeps
<1>11. CASE ReapFreed
  <2>1. toggler /\ Dies("freed")
    BY <1>11 DEF SwitchInv, SideInv, ReapFreed
  <2> QED BY <2>1, DiesKeeps
<1> QED BY <1>1, <1>2, <1>3, <1>4, <1>5, <1>6, <1>7, <1>8, <1>9, <1>10, <1>11 DEF Loop

LEMMA SwitchNext == SwitchInv /\ [InputNext]_inputVars => SwitchInv'
<1> SUFFICES ASSUME SwitchInv, [InputNext]_inputVars
             PROVE  SwitchInv'
  OBVIOUS
<1>1. CASE Loop
  BY <1>1, LoopKeeps
<1>2. CASE \E d \in Usb : AutoCheck(d) \/ Unplug(d)
  BY <1>2, AutoCheckKeeps, UnplugKeeps
<1>3. CASE \E o \in Obj : Enumerate(o)
  BY <1>3, EnumerateKeeps
<1>4. CASE UserGrab \/ UserRelease \/ FullScreen
  BY <1>4, UserGrabKeeps, UserReleaseKeeps, FullScreenKeeps
<1>5. CASE \E c \in Combo : Key(c)
  BY <1>5, KeyKeeps
<1>6. CASE DoToggle \/ \E a0 \in {0, 3} : Hypercall(a0)
  BY <1>6, DoToggleKeeps, HypercallKeeps
<1>7. CASE Restart
  BY <1>7, RestartKeeps
<1>8. CASE UNCHANGED inputVars
  <2>1. UNCHANGED <<priv_devices, toggler, died, gui_grab, gui_fullscreen, gui_saved_grab, task, at, inside,
                    dev, st, addr, hostdevs, used, activated, plugged, driver, keys, pki, hid, is,
                    work, worker, held, cause, clear>>
    BY <1>8 DEF inputVars, configVars, guiVars, loopVars, objVars, kbdVars, guestVars
  <2>2. ObjInv' /\ \A d \in Usb : Live(d)' <=> Live(d)
    BY <2>1, ObjSame DEF SwitchInv
  <2>3. InputTypeOK'
    BY <2>1, <2>2 DEF SwitchInv, InputTypeOK, ObjInv
  <2>4. HoldInv'
    BY <2>1, <2>2 DEF SwitchInv, HoldInv, GoneInv, Single, OneInv, RestInv, TakeInv, GiveInv,
                      ActiveInv, GrabInv, Done, HasBus
  <2>5. CleanRelease' /\ SideInv'
    BY <2>1, <2>2, SideSame DEF SwitchInv, CleanRelease, Usb
  <2> QED BY <2>2, <2>3, <2>4, <2>5 DEF SwitchInv
<1> QED BY <1>1, <1>2, <1>3, <1>4, <1>5, <1>6, <1>7, <1>8 DEF InputNext

\* Which devices the VM has, during a loop over them and between two, and the
\* objects that stand for them, whatever the order of the devices on the command line.
THEOREM SwitchInvariant == InputSpec => []SwitchInv
BY SwitchInit, SwitchNext, PTL DEF InputSpec

\* Type correctness: the lists of usb-linux.c and hw/usb-bus.c have the objects that
\* are not freed and the open ones, each once, and a device has one open object at most.
THEOREM InputTypeCorrect == InputSpec => []InputTypeOK
<1>1. SwitchInv => InputTypeOK
  BY DEF SwitchInv
<1> QED BY <1>1, SwitchInvariant, PTL

\* Letting go ends QEMU only for one of the known reasons: the devices were connected
\* or disconnected twice in a row, let go of before the guest had addressed them, or
\* unplugged; or a toggler let go, in async_complete of the object that it freed.
THEOREM ReleaseIsClean == InputSpec => []CleanRelease
<1>1. SwitchInv => CleanRelease
  BY DEF SwitchInv
<1> QED BY <1>1, SwitchInvariant, PTL

\* A window that does not grab the input leaves the devices to the host, unless SDL
\* refused the grab or the devices were connected twice in a row.
THEOREM DevicesComeBack == InputSpec => []DevicesReturn
<1>1. SwitchInv => DevicesReturn
  <2> SUFFICES ASSUME SwitchInv, Idle, ~gui_grab, cause \cap {"again", "refused"} = {}
               PROVE  used = <<>> /\ driver = "host"
    BY DEF DevicesReturn
  <2>1. Single /\ task = "none" /\ "refused" \notin cause
    BY DEF Idle, Single
  <2>2. ~held
    BY <2>1 DEF SwitchInv, HoldInv, GrabInv
  <2>3. (\A d \in Usb : ~Live(d)) /\ driver # "vm"
    BY <2>1, <2>2 DEF SwitchInv, HoldInv, RestInv
  <2>4. driver = "host"
    BY <2>3 DEF SwitchInv, InputTypeOK, SideInv, Idle
  <2>5. \A d \in Usb, n \in Num : st[<<d, n>>] # "open"
    <3> SUFFICES ASSUME NEW d \in Usb, NEW n \in Num, st[<<d, n>>] = "open"
                 PROVE  Live(d)
      BY <2>3
    <3>1. dev[d] = n /\ n # NoObj
      BY <2>1, InputAssumption DEF SwitchInv, HoldInv, OneInv, Num, NoObj
    <3> QED BY <3>1 DEF Live
  <2>6. used \in Seq(Obj) /\ ToSet(used) = {}
    BY <2>5 DEF SwitchInv, ObjInv, ObjectsOK, Obj
  <2> QED BY <2>4, <2>6, SetOfSeq
<1> QED BY <1>1, SwitchInvariant, PTL

\* While the VM has the keyboard its reports reach the guest encrypted, unless the
\* devices were connected twice in a row: one in the clear is the last.
THEOREM KeysNeverInClear == InputSpec => []NeverInClear
<1>1. SwitchInv => NeverInClear
  <2> SUFFICES ASSUME SwitchInv, clear, Reporting # {}, "again" \notin cause
               PROVE  FALSE
    BY DEF NeverInClear
  <2>1. PICK n \in Num : st[<<Kbd, n>>] = "open"
    BY DEF Reporting
  <2>2. Kbd \in Usb /\ n # NoObj /\ <<Kbd, n>> \in Obj
    BY InputAssumption DEF Usb, Num, NoObj, Obj
  <2>3. Single
    BY <2>1, <2>2 DEF Single, SwitchInv, HoldInv, GoneInv
  <2>4. dev[Kbd] = n
    BY <2>1, <2>2, <2>3 DEF SwitchInv, HoldInv, OneInv
  <2>5. Live(Kbd)
    BY <2>1, <2>2, <2>4 DEF Live
  <2> QED BY <2>3, <2>5 DEF SwitchInv, SideInv
<1> QED BY <1>1, SwitchInvariant, PTL

\* usb_dev_disconnect lets go of its own device and of no other, although
\* usb_device_delete_addr goes by the address, unless the devices were connected twice
\* in a row, let go of before the guest had addressed them, or unplugged.
OwnDevice ==
    Single /\ "early" \notin cause /\ plugged = Usb =>
        \A d \in Usb : CloseUsb(d) =>
            ~Live(d)' /\ \A o \in Obj : o[1] # d => st'[o] = st[o]

\* The device with the address is the one to be disconnected: the guest has given all
\* of them one, and no other that is open has it.
THEOREM ReleasesOwnDevice == InputSpec => [][OwnDevice]_inputVars
<1>1. SwitchInv => OwnDevice
  <2> SUFFICES ASSUME SwitchInv, Single, "early" \notin cause, plugged = Usb,
                      NEW d \in Usb, CloseUsb(d)
               PROVE  ~Live(d)' /\ \A o \in Obj : o[1] # d => st'[o] = st[o]
    BY DEF OwnDevice
  <2>1. /\ task = "disconnect" /\ at <= Len(priv_devices) /\ priv_devices[at] = d
        /\ UNCHANGED <<dev, plugged>>
    BY DEF CloseUsb
  <2>2. CASE dev[d] = NoObj
    BY <2>1, <2>2 DEF CloseUsb, Live
  <2>3. CASE dev[d] # NoObj
    <3>1. Live(d) /\ \E i \in Victims(d) : FreeObj(used[i])
      BY <2>3 DEF CloseUsb
    <3>2. ~Done(d)
      BY <2>1, LoopAt DEF SwitchInv
    <3>3. addr[<<d, dev[d]>>] # 0
      BY <2>1, <3>1, <3>2 DEF SwitchInv, HoldInv, GiveInv
    <3>4. <<d, dev[d]>> \in Obj /\ st[<<d, dev[d]>>] = "open" /\ FreeObj(<<d, dev[d]>>)
      <4> PICK i \in Victims(d) : FreeObj(used[i])
        BY <3>1
      <4>1. used[i] \in Obj /\ st[used[i]] = "open" /\ used[i] = <<d, dev[d]>>
        BY <3>1, <3>3, VictimOpen DEF SwitchInv
      <4> QED BY <4>1
    <3>5. PICK k \in Num : dev[d] = k
      BY <2>3 DEF SwitchInv, ObjInv, ObjectsOK
    <3>6. /\ st'[<<d, k>>] \in {"none", "freed"}
          /\ \A p \in Obj \ {<<d, k>>} : st'[p] = st[p]
      BY <2>1, <3>4, <3>5, FreeObjObj DEF SwitchInv
    <3> QED BY <2>1, <3>5, <3>6 DEF Live
  <2> QED BY <2>2, <2>3
<1>2. SwitchInv /\ [InputNext]_inputVars => [OwnDevice]_inputVars
  BY <1>1
<1> QED BY <1>2, SwitchInvariant, PTL DEF InputSpec
=============================================================================
