--------------------------- MODULE PrivSwapProofs ----------------------------
(***************************************************************************)
(* Proofs about PrivSwap, for any number of processes, slots, versions and *)
(* generations.  SwapInv is inductive: one lemma per action, one step per  *)
(* conjunct.                                                               *)
(***************************************************************************)
EXTENDS PrivSwap, TLAPS

\* Where a page can be: a slot is held by the pte or by the frame in the swap
\* cache, no two pages share one, and I/O is under way only for a cached frame.
PlaceInv ==
    \A p \in Proc :
        /\ run[p] = "run" <=> pte[p] # "none"
        /\ cache[p] \/ pte[p] = "swap" <=> slot[p] # NULL
        /\ reading[p] => cache[p] /\ pte[p] # "present" /\ ~dirty[p]
        /\ wb[p] # "no" => cache[p] /\ ~reading[p]
        /\ writable[p] => pte[p] = "present"
        /\ pte[p] = "swap" /\ ~cache[p] => ~dirty[p]
        /\ \A q \in Proc : slot[p] # NULL /\ slot[p] = slot[q] => p = q

\* An entry is that of the page in the slot, and of its present process.
EntryInv ==
    /\ \A s \in Slot : entry[s] # NULL =>
           /\ entry[s].own \in Private
           /\ slot[entry[s].own] = s /\ entry[s].gen = gen[entry[s].own]
    /\ \A p \in Proc :
           /\ wb[p] = "cipher" => entry[slot[p]] # NULL
           /\ wb[p] = "plain" => entry[slot[p]] = NULL

\* The slot of p holds what p wrote last, in the form that its entry stands for.
Current(p) ==
    LET d == disk[slot[p]]
    IN  /\ d # NULL
        /\ d.own = p /\ d.gen = gen[p] /\ d.ver = ver[p]
        /\ d.form = IF entry[slot[p]] = NULL THEN "plain" ELSE "cipher"

\* Until its context is put, the last version is in the frame, being written, or
\* in the slot.
ContentInv ==
    \A p \in Proc :
        /\ pte[p] = "present" => mem[p] = ver[p]
        /\ reading[p] => disk[slot[p]] # NULL
        /\ run[p] # "gone" =>
               /\ cache[p] /\ ~reading[p] => mem[p] = ver[p]
               /\ wb[p] # "no" /\ ~dirty[p] => wbver[p] = ver[p]
               /\ wb[p] = "no" /\ slot[p] # NULL /\ ~dirty[p] => Current(p)

\* A page that can still be written as it is, is excused or has its scratch page.
ExcuseInv ==
    /\ \A p \in Private : slot[p] # NULL /\ (dirty[p] \/ writable[p]) =>
           \/ p \in excused
           \/ wb[p] = "no" /\ entry[slot[p]] # NULL /\ entry[slot[p]].fresh
    /\ ClearOnlyIfExcused

SwapInv == SwapTypeOK /\ PlaceInv /\ EntryInv /\ ContentInv /\ ExcuseInv

-----------------------------------------------------------------------------
\* The records that add_to_priv and the end of a write make are records, not NULL.
LEMMA NewEntry ==
    ASSUME NEW p \in Proc, NEW g \in 1 .. MaxGen, NEW f \in BOOLEAN
    PROVE  LET e == [own |-> p, gen |-> g, fresh |-> f] IN e \in Swapped /\ e # NULL
<1>1. [own |-> p, gen |-> g, fresh |-> f] \in Swapped
  BY DEF Swapped
<1> QED BY <1>1, NullAssumption

LEMMA NewStored ==
    ASSUME NEW p \in Proc, NEW g \in 1 .. MaxGen, NEW v \in Version,
           NEW f \in {"plain", "cipher"}
    PROVE  LET d == [own |-> p, gen |-> g, ver |-> v, form |-> f] IN d \in Stored /\ d # NULL
<1>1. [own |-> p, gen |-> g, ver |-> v, form |-> f] \in Stored
  BY DEF Stored
<1> QED BY <1>1, NullAssumption

LEMMA SpentEntry ==
    ASSUME NEW e \in Swapped
    PROVE  [e EXCEPT !.fresh = FALSE] \in Swapped /\ [e EXCEPT !.fresh = FALSE] # NULL
<1>1. [e EXCEPT !.fresh = FALSE] \in Swapped
  BY DEF Swapped
<1> QED BY <1>1, NullAssumption

\* At the start nothing is swapped out.
LEMMA InitInv == SwapInit => SwapInv
<1> SUFFICES ASSUME SwapInit PROVE SwapInv
  OBVIOUS
<1> USE SwapAssumption, NullAssumption DEF SwapInit
<1>1. SwapTypeOK
  <2>1. 1 \in 1 .. MaxGen /\ 0 \in Version /\ 0 \in 0 .. MaxVer
    BY DEF Version
  <2>2. halted \in BOOLEAN
    OBVIOUS
  <2> QED BY <2>1, <2>2 DEF SwapTypeOK
<1>2. PlaceInv /\ EntryInv
  BY DEF PlaceInv, EntryInv
<1>3. ContentInv /\ ExcuseInv
  BY DEF ContentInv, ExcuseInv, ClearOnlyIfExcused
<1> QED BY <1>1, <1>2, <1>3 DEF SwapInv

\* A write gives up a slot the page no longer agrees with, or is excused.
LEMMA WriteInv ==
    ASSUME NEW p \in Proc,
           SwapInv, Write(p)
    PROVE  SwapInv'
<1> USE SwapAssumption, NullAssumption
<1> USE DEF SwapInv, SwapTypeOK, Write
<1> USE DEF GiveUpSlot, KeepSlot, Without, Excuse, ownVars, pageVars
<1>1. SwapTypeOK'
  <2>1. entry' \in [Slot -> Swapped \cup {NULL}] /\ disk' \in [Slot -> Stored \cup {NULL}]
    BY DEF Version, Stored, Swapped, PlaceInv, EntryInv, ContentInv
  <2>2. excused' \subseteq Proc
    OBVIOUS
  <2>3. /\ cache' \in [Proc -> BOOLEAN] /\ writable' \in [Proc -> BOOLEAN]
        /\ dirty' \in [Proc -> BOOLEAN] /\ reading' \in [Proc -> BOOLEAN]
        /\ halted' \in BOOLEAN
    OBVIOUS
  <2>4. mem' \in [Proc -> Version] /\ wbver' \in [Proc -> Version] /\ ver' \in [Proc -> 0 .. MaxVer]
    BY DEF Version, Junk, Stored, Swapped, PlaceInv, ContentInv
  <2> QED BY <2>1, <2>2, <2>3, <2>4
<1>2. PlaceInv'
  BY DEF PlaceInv
<1>3. EntryInv'
  BY DEF EntryInv, PlaceInv, Swapped
<1>4. ContentInv'
  BY DEF ContentInv, Current, EntryInv, PlaceInv, Stored, Swapped
<1>5. ExcuseInv'
  BY DEF ExcuseInv, ClearOnlyIfExcused, EntryInv, PlaceInv, Stored, Swapped
<1> QED BY <1>1, <1>2, <1>3, <1>4, <1>5

\* A fault maps the frame in the swap cache.
LEMMA FaultInv ==
    ASSUME NEW p \in Proc, NEW write \in BOOLEAN, NEW vm_swap_full \in BOOLEAN,
           SwapInv, Fault(p, write, vm_swap_full)
    PROVE  SwapInv'
<1> USE SwapAssumption, NullAssumption
<1> USE DEF SwapInv, SwapTypeOK, Fault
<1> USE DEF GiveUpSlot, KeepSlot, Without, Excuse, ownVars, pageVars
<1>1. SwapTypeOK'
  <2>1. entry' \in [Slot -> Swapped \cup {NULL}] /\ disk' \in [Slot -> Stored \cup {NULL}]
    BY DEF Version, Stored, Swapped, PlaceInv, EntryInv, ContentInv
  <2>2. excused' \subseteq Proc
    OBVIOUS
  <2>3. /\ cache' \in [Proc -> BOOLEAN] /\ writable' \in [Proc -> BOOLEAN]
        /\ dirty' \in [Proc -> BOOLEAN] /\ reading' \in [Proc -> BOOLEAN]
        /\ halted' \in BOOLEAN
    OBVIOUS
  <2>4. mem' \in [Proc -> Version] /\ wbver' \in [Proc -> Version] /\ ver' \in [Proc -> 0 .. MaxVer]
    BY DEF Version, Junk, Stored, Swapped, PlaceInv, ContentInv
  <2> QED BY <2>1, <2>2, <2>3, <2>4
<1>2. PlaceInv'
  BY DEF PlaceInv
<1>3. EntryInv'
  BY SMTT(30) DEF EntryInv, PlaceInv, Swapped
<1>4. ContentInv'
  BY DEF ContentInv, Current, EntryInv, PlaceInv, Stored, Swapped
<1>5. ExcuseInv'
  BY DEF ExcuseInv, ClearOnlyIfExcused, EntryInv, PlaceInv, Stored, Swapped
<1> QED BY <1>1, <1>2, <1>3, <1>4, <1>5

\* A page is read only when its slot is current.
LEMMA ReadPageInv ==
    ASSUME NEW p \in Proc,
           SwapInv, ReadPage(p)
    PROVE  SwapInv'
<1> USE SwapAssumption, NullAssumption
<1> USE DEF SwapInv, SwapTypeOK, ReadPage
<1> USE DEF GiveUpSlot, KeepSlot, Without, Excuse, ownVars, pageVars
<1>1. SwapTypeOK'
  BY DEF Version, Junk, Stored, Swapped, PlaceInv, EntryInv, ContentInv
<1>2. PlaceInv'
  BY DEF PlaceInv
<1>3. EntryInv'
  BY DEF EntryInv, PlaceInv, Swapped
<1>4. ContentInv'
  BY DEF ContentInv, Current, EntryInv, PlaceInv, Stored, Swapped
<1>5. ExcuseInv'
  BY DEF ExcuseInv, ClearOnlyIfExcused, EntryInv, PlaceInv, Stored, Swapped
<1> QED BY <1>1, <1>2, <1>3, <1>4, <1>5

\* What is read is decrypted with the key it was encrypted with.
LEMMA ReadDoneInv ==
    ASSUME NEW p \in Proc,
           SwapInv, ReadDone(p)
    PROVE  SwapInv'
<1> USE SwapAssumption, NullAssumption
<1> USE DEF SwapInv, SwapTypeOK, ReadDone, Decrypted, Keyed
<1> USE DEF GiveUpSlot, KeepSlot, Without, Excuse, ownVars, pageVars
<1>1. SwapTypeOK'
  BY DEF Version, Junk, Stored, Swapped, PlaceInv, EntryInv, ContentInv
<1>2. PlaceInv'
  BY DEF PlaceInv
<1>3. EntryInv'
  BY DEF EntryInv, PlaceInv, Swapped
<1>4. ContentInv'
  BY DEF ContentInv, Current, EntryInv, PlaceInv, Stored, Swapped
<1>5. ExcuseInv'
  BY DEF ExcuseInv, ClearOnlyIfExcused, EntryInv, PlaceInv, Stored, Swapped
<1> QED BY <1>1, <1>2, <1>3, <1>4, <1>5

\* A new slot had no entry.
LEMMA AddToSwapInv ==
    ASSUME NEW p \in Proc, NEW s \in Slot, NEW outcome \in Outcome,
           NEW vm_swap_full \in BOOLEAN,
           SwapInv, AddToSwap(p, s, outcome, vm_swap_full)
    PROVE  SwapInv'
<1> USE SwapAssumption, NullAssumption
<1> USE DEF SwapInv, SwapTypeOK, AddToSwap, InUse
<1> USE DEF GiveUpSlot, KeepSlot, Without, Excuse, ownVars, pageVars
<1>a. LET e == [own |-> p, gen |-> gen[p], fresh |-> TRUE]
      IN  e \in Swapped /\ e # NULL
  BY NewEntry
<1>1. SwapTypeOK'
  <2>1. entry' \in [Slot -> Swapped \cup {NULL}] /\ disk' \in [Slot -> Stored \cup {NULL}]
    <3>1. entry' = entry \/ entry' = [entry EXCEPT ![s] = [own |-> p, gen |-> gen[p], fresh |-> TRUE]]
      BY Zenon
    <3>2. entry' \in [Slot -> Swapped \cup {NULL}]
      <4> DEFINE e == [own |-> p, gen |-> gen[p], fresh |-> TRUE]
      <4>1. e \in Swapped
        BY <1>a
      <4> HIDE DEF e
      <4>2. [entry EXCEPT ![s] = e] \in [Slot -> Swapped \cup {NULL}]
        BY <4>1
      <4> QED BY <3>1, <4>2 DEF e
    <3> QED BY <3>2
  <2>2. excused' \subseteq Proc
    OBVIOUS
  <2>3. /\ cache' \in [Proc -> BOOLEAN] /\ writable' \in [Proc -> BOOLEAN]
        /\ dirty' \in [Proc -> BOOLEAN] /\ reading' \in [Proc -> BOOLEAN]
        /\ halted' \in BOOLEAN
    OBVIOUS
  <2>4. mem' \in [Proc -> Version] /\ wbver' \in [Proc -> Version] /\ ver' \in [Proc -> 0 .. MaxVer]
    BY DEF Version, Junk, Stored, Swapped, PlaceInv, ContentInv
  <2> QED BY <2>1, <2>2, <2>3, <2>4
<1>2. PlaceInv'
  BY DEF PlaceInv
<1>3. EntryInv'
  BY SMTT(30) DEF EntryInv, PlaceInv, Swapped
<1>4. ContentInv'
  BY DEF ContentInv, Current, EntryInv, PlaceInv, Stored, Swapped
<1>5. ExcuseInv'
  BY <1>a DEF ExcuseInv, ClearOnlyIfExcused, EntryInv, PlaceInv, Stored, Swapped
<1> QED BY <1>1, <1>2, <1>3, <1>4, <1>5

\* The pte becomes a swap entry.
LEMMA UnmapInv ==
    ASSUME NEW p \in Proc,
           SwapInv, Unmap(p)
    PROVE  SwapInv'
<1> USE SwapAssumption, NullAssumption
<1> USE DEF SwapInv, SwapTypeOK, Unmap
<1> USE DEF GiveUpSlot, KeepSlot, Without, Excuse, ownVars, pageVars
<1>1. SwapTypeOK'
  BY DEF Version, Junk, Stored, Swapped, PlaceInv, EntryInv, ContentInv
<1>2. PlaceInv'
  BY DEF PlaceInv
<1>3. EntryInv'
  BY DEF EntryInv, PlaceInv, Swapped
<1>4. ContentInv'
  BY DEF ContentInv, Current, EntryInv, PlaceInv, Stored, Swapped
<1>5. ExcuseInv'
  BY DEF ExcuseInv, ClearOnlyIfExcused, EntryInv, PlaceInv, Stored, Swapped
<1> QED BY <1>1, <1>2, <1>3, <1>4, <1>5

\* An entry without its scratch page is given up with the encryption.
LEMMA WritePageInv ==
    ASSUME NEW p \in Proc,
           SwapInv, WritePage(p)
    PROVE  SwapInv'
<1> USE SwapAssumption, NullAssumption
<1> USE DEF SwapInv, SwapTypeOK, WritePage, Reclaimable
<1> USE DEF GiveUpSlot, KeepSlot, Without, Excuse, ownVars, pageVars
<1>1. SwapTypeOK'
  <2>1. entry' \in [Slot -> Swapped \cup {NULL}] /\ disk' \in [Slot -> Stored \cup {NULL}]
    BY DEF Version, Stored, Swapped, PlaceInv, EntryInv, ContentInv
  <2>2. excused' \subseteq Proc
    OBVIOUS
  <2>3. /\ cache' \in [Proc -> BOOLEAN] /\ writable' \in [Proc -> BOOLEAN]
        /\ dirty' \in [Proc -> BOOLEAN] /\ reading' \in [Proc -> BOOLEAN]
        /\ halted' \in BOOLEAN
    OBVIOUS
  <2>4. mem' \in [Proc -> Version] /\ wbver' \in [Proc -> Version] /\ ver' \in [Proc -> 0 .. MaxVer]
    BY DEF Version, Junk, Stored, Swapped, PlaceInv, ContentInv
  <2> QED BY <2>1, <2>2, <2>3, <2>4
<1>2. PlaceInv'
  BY DEF PlaceInv
<1>3. EntryInv'
  BY SMTT(30) DEF EntryInv, PlaceInv, Swapped
<1>4. ContentInv'
  BY DEF ContentInv, Current, EntryInv, PlaceInv, Stored, Swapped
<1>5. ExcuseInv'
  BY DEF ExcuseInv, ClearOnlyIfExcused, EntryInv, PlaceInv, Stored, Swapped
<1> QED BY <1>1, <1>2, <1>3, <1>4, <1>5

\* What was written is current, or the page is dirty.
LEMMA WriteDoneInv ==
    ASSUME NEW p \in Proc, NEW uptodate \in BOOLEAN, NEW v \in Version,
           SwapInv, WriteDone(p, uptodate, v)
    PROVE  SwapInv'
<1> USE SwapAssumption, NullAssumption
<1> USE DEF SwapInv, SwapTypeOK, WriteDone
<1> USE DEF GiveUpSlot, KeepSlot, Without, Excuse, ownVars, pageVars
<1>d. wb[p] \in {"plain", "cipher"}
  OBVIOUS
<1>a. LET d == [own |-> p, gen |-> gen[p], ver |-> v, form |-> wb[p]]
      IN  d \in Stored /\ d # NULL
  BY <1>d, NewStored
<1>c. slot[p] \in Slot
  BY DEF PlaceInv
<1>b. LET e == entry[slot[p]]
      IN  e # NULL => /\ [e EXCEPT !.fresh = FALSE] \in Swapped
                      /\ [e EXCEPT !.fresh = FALSE] # NULL
  BY <1>c, SpentEntry
<1>1. SwapTypeOK'
  <2>1. entry' \in [Slot -> Swapped \cup {NULL}] /\ disk' \in [Slot -> Stored \cup {NULL}]
    BY <1>a, <1>b, <1>c
  <2>2. excused' \subseteq Proc
    OBVIOUS
  <2>3. /\ cache' \in [Proc -> BOOLEAN] /\ writable' \in [Proc -> BOOLEAN]
        /\ dirty' \in [Proc -> BOOLEAN] /\ reading' \in [Proc -> BOOLEAN]
        /\ halted' \in BOOLEAN
    OBVIOUS
  <2>4. mem' \in [Proc -> Version] /\ wbver' \in [Proc -> Version] /\ ver' \in [Proc -> 0 .. MaxVer]
    BY DEF Version, Junk, Stored, Swapped, PlaceInv, ContentInv
  <2> QED BY <2>1, <2>2, <2>3, <2>4
<1>2. PlaceInv'
  BY DEF PlaceInv
<1>3. EntryInv'
  BY DEF EntryInv, PlaceInv, Swapped
<1>4. ContentInv'
  BY <1>a, <1>b, <1>c DEF ContentInv, Current, EntryInv, PlaceInv, Stored, Swapped
<1>5. ExcuseInv'
  BY <1>a, <1>b, <1>c DEF ExcuseInv, ClearOnlyIfExcused, EntryInv, PlaceInv, Stored, Swapped
<1> QED BY <1>1, <1>2, <1>3, <1>4, <1>5

\* Only a clean frame is dropped.
LEMMA RemoveMappingInv ==
    ASSUME NEW p \in Proc,
           SwapInv, RemoveMapping(p)
    PROVE  SwapInv'
<1> USE SwapAssumption, NullAssumption
<1> USE DEF SwapInv, SwapTypeOK, RemoveMapping, Reclaimable
<1> USE DEF GiveUpSlot, KeepSlot, Without, Excuse, ownVars, pageVars
<1>1. SwapTypeOK'
  <2>1. entry' \in [Slot -> Swapped \cup {NULL}] /\ disk' \in [Slot -> Stored \cup {NULL}]
    BY DEF Version, Stored, Swapped, PlaceInv, EntryInv, ContentInv
  <2>2. excused' \subseteq Proc
    OBVIOUS
  <2>3. /\ cache' \in [Proc -> BOOLEAN] /\ writable' \in [Proc -> BOOLEAN]
        /\ dirty' \in [Proc -> BOOLEAN] /\ reading' \in [Proc -> BOOLEAN]
        /\ halted' \in BOOLEAN
    OBVIOUS
  <2>4. mem' \in [Proc -> Version] /\ wbver' \in [Proc -> Version] /\ ver' \in [Proc -> 0 .. MaxVer]
    BY DEF Version, Junk, Stored, Swapped, PlaceInv, ContentInv
  <2> QED BY <2>1, <2>2, <2>3, <2>4
<1>2. PlaceInv'
  BY DEF PlaceInv
<1>3. EntryInv'
  BY SMTT(60) DEF EntryInv, PlaceInv, Swapped
<1>4. ContentInv'
  BY DEF ContentInv, Current, EntryInv, PlaceInv, Stored, Swapped
<1>5. ExcuseInv'
  BY DEF ExcuseInv, ClearOnlyIfExcused, EntryInv, PlaceInv, Stored, Swapped
<1> QED BY <1>1, <1>2, <1>3, <1>4, <1>5

\* Exit frees the slot, or leaves it to the frame that is busy.
LEMMA ZapInv ==
    ASSUME NEW p \in Proc, NEW busy \in BOOLEAN,
           SwapInv, Zap(p, busy)
    PROVE  SwapInv'
<1> USE SwapAssumption, NullAssumption
<1> USE DEF SwapInv, SwapTypeOK, Zap
<1> USE DEF GiveUpSlot, KeepSlot, Without, Excuse, ownVars, pageVars
<1>1. SwapTypeOK'
  <2>1. entry' \in [Slot -> Swapped \cup {NULL}] /\ disk' \in [Slot -> Stored \cup {NULL}]
    BY DEF Version, Stored, Swapped, PlaceInv, EntryInv, ContentInv
  <2>2. excused' \subseteq Proc
    OBVIOUS
  <2>3. /\ cache' \in [Proc -> BOOLEAN] /\ writable' \in [Proc -> BOOLEAN]
        /\ dirty' \in [Proc -> BOOLEAN] /\ reading' \in [Proc -> BOOLEAN]
        /\ halted' \in BOOLEAN
    BY ZenonT(30)
  <2>4. mem' \in [Proc -> Version] /\ wbver' \in [Proc -> Version] /\ ver' \in [Proc -> 0 .. MaxVer]
    BY DEF Version, Junk, Stored, Swapped, PlaceInv, ContentInv
  <2> QED BY <2>1, <2>2, <2>3, <2>4
<1>2. PlaceInv'
  BY DEF PlaceInv
<1>3. EntryInv'
  BY SMTT(60) DEF EntryInv, PlaceInv, Swapped
<1>4. ContentInv'
  BY DEF ContentInv, Current, EntryInv, PlaceInv, Stored, Swapped
<1>5. ExcuseInv'
  BY DEF ExcuseInv, ClearOnlyIfExcused, EntryInv, PlaceInv, Stored, Swapped
<1> QED BY <1>1, <1>2, <1>3, <1>4, <1>5

\* The key goes; nothing is read back after that.
LEMMA CtxPutInv ==
    ASSUME NEW p \in Proc,
           SwapInv, CtxPut(p)
    PROVE  SwapInv'
<1> USE SwapAssumption, NullAssumption
<1> USE DEF SwapInv, SwapTypeOK, CtxPut
<1> USE DEF GiveUpSlot, KeepSlot, Without, Excuse, ownVars, pageVars
<1>1. SwapTypeOK'
  BY DEF Version, Junk, Stored, Swapped, PlaceInv, EntryInv, ContentInv
<1>2. PlaceInv'
  BY DEF PlaceInv
<1>3. EntryInv'
  BY DEF EntryInv, PlaceInv, Swapped
<1>4. ContentInv'
  BY DEF ContentInv, Current, EntryInv, PlaceInv, Stored, Swapped
<1>5. ExcuseInv'
  BY DEF ExcuseInv, ClearOnlyIfExcused, EntryInv, PlaceInv, Stored, Swapped
<1> QED BY <1>1, <1>2, <1>3, <1>4, <1>5

\* A new process has no slot.
LEMMA StartInv ==
    ASSUME NEW p \in Proc,
           SwapInv, Start(p)
    PROVE  SwapInv'
<1> USE SwapAssumption, NullAssumption
<1> USE DEF SwapInv, SwapTypeOK, Start
<1> USE DEF GiveUpSlot, KeepSlot, Without, Excuse, ownVars, pageVars
<1>1. SwapTypeOK'
  BY DEF Version, Junk, Stored, Swapped, PlaceInv, EntryInv, ContentInv
<1>2. PlaceInv'
  BY DEF PlaceInv
<1>3. EntryInv'
  BY DEF EntryInv, PlaceInv, Swapped
<1>4. ContentInv'
  BY DEF ContentInv, Current, EntryInv, PlaceInv, Stored, Swapped
<1>5. ExcuseInv'
  BY DEF ExcuseInv, ClearOnlyIfExcused, EntryInv, PlaceInv, Stored, Swapped
<1> QED BY <1>1, <1>2, <1>3, <1>4, <1>5

\* Every step preserves the invariant.
LEMMA NextInv == SwapInv /\ [SwapNext]_swapVars => SwapInv'
<1> SUFFICES ASSUME SwapInv, [SwapNext]_swapVars PROVE SwapInv'
  OBVIOUS
<1>1. CASE UNCHANGED swapVars
  BY <1>1 DEF swapVars, ownVars, pageVars, SwapInv, SwapTypeOK, PlaceInv, EntryInv,
              ContentInv, Current, ExcuseInv, ClearOnlyIfExcused
<1>2. CASE SwapNext
  BY <1>2, WriteInv, FaultInv, ReadPageInv, ReadDoneInv, AddToSwapInv, UnmapInv,
     WritePageInv, WriteDoneInv, RemoveMappingInv, ZapInv, CtxPutInv, StartInv
     DEF SwapNext
<1> QED BY <1>1, <1>2

LEMMA InvariantHolds == SwapSpec => []SwapInv
BY InitInv, NextInv, PTL DEF SwapSpec

-----------------------------------------------------------------------------
\* Type correctness of the swap model.
THEOREM SwapTypeCorrect == SwapSpec => []SwapTypeOK
<1>1. SwapInv => SwapTypeOK
  BY DEF SwapInv
<1> QED BY <1>1, InvariantHolds, PTL

\* For any number of processes and slots, a process finds in its page what it wrote
\* last, whatever priv_encrypt_page and priv_decrypt_page did in between.
THEOREM SwapReadsBack == SwapSpec => []ReadBack
<1>1. SwapInv => ReadBack
  BY DEF SwapInv, ReadBack, ContentInv
<1> QED BY <1>1, InvariantHolds, PTL

\* For any number of processes and slots, a page of a private process is written
\* to the swap device in the clear only for one of the four named reasons, met
\* since add_to_swap gave it its slot.
THEOREM SwapIsEncrypted == SwapSpec => []ClearOnlyIfExcused
<1>1. SwapInv => ClearOnlyIfExcused
  BY DEF SwapInv, ExcuseInv
<1> QED BY <1>1, InvariantHolds, PTL

\* For any number of processes and slots, an entry of privos_tree is that of the page
\* in its slot.
THEOREM EntriesAreUsers == SwapSpec => []EntryIsUsers
<1>1. SwapInv => EntryIsUsers
  BY SwapAssumption DEF SwapInv, EntryIsUsers, EntryInv
<1> QED BY <1>1, InvariantHolds, PTL
=============================================================================
