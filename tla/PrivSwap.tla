------------------------------ MODULE PrivSwap -------------------------------
(***************************************************************************)
(* Pages of private processes on their way to the swap device and back     *)
(* (mm/privos.c, and its hooks in shrink_page_list, swap_writepage, the    *)
(* completions in page_io.c and swap_entry_free).  privos_tree holds a     *)
(* priv_swapped_page for each slot that was given to a private page; it    *)
(* decides whether the page is encrypted into its scratch page when it is  *)
(* written, and whether it is decrypted when it is read back.              *)
(*                                                                         *)
(* A process has one page of anonymous memory.  Its content is a version   *)
(* number.  Of a forked child only what add_to_priv sees of it is here: it *)
(* maps the page too, or an area of its is on the anon_vma list, and then  *)
(* the page is not filed.  The steps of reclaim, each under the page       *)
(* lock, are actions of their own, as any of them can be the last of its   *)
(* pass.  The counts of a slot in swap_map follow from slot, pte and cache.*)
(***************************************************************************)
EXTENDS Naturals

CONSTANTS
    Proc,       \* processes, each with one page
    Private,    \* the ones with a priv_cipher_ctx
    Slot,       \* slots of the swap device
    NULL,
    MaxVer,     \* bound on the versions of a page
    MaxGen      \* bound on the processes that follow each other in one place

ASSUME SwapAssumption ==
    /\ Private \subseteq Proc
    /\ MaxVer \in Nat /\ MaxGen \in Nat \ {0}

VARIABLES
    run,        \* run, zapped (exit has unmapped the page), gone (context put)
    gen,        \* which process it is, and so which key
    ver,        \* the version its process wrote last
    pte,        \* present, swap or none
    writable,   \* the present pte allows writing
    slot,       \* the slot in the pte or of the frame in the swap cache, or NULL
    cache,      \* its frame is in the swap cache
    mem,        \* the version in the frame, or Junk
    dirty,      \* PageDirty or a dirty pte
    reading,    \* its frame is being read
    wb,         \* PageWriteback: no, cipher or plain, by what is being written
    wbver,      \* the version that is being written
    disk,       \* Slot -> what is stored
    entry,      \* privos_tree: Slot -> priv_swapped_page or NULL
    halted,     \* delete_all_from_priv found a page in flight
    excused     \* history: pages that, since add_to_swap, had to lose or miss an entry

ownVars == <<run, gen, ver>>
pageVars == <<pte, writable, slot, cache, mem, dirty, reading, wb, wbver>>
swapVars == <<ownVars, pageVars, disk, entry, halted, excused>>

Junk == MaxVer + 1
Version == 0 .. MaxVer + 1

\* A stored page: whose, which version, in the clear or encrypted with the key of
\* that process.
Stored == [own : Proc, gen : 1 .. MaxGen, ver : Version, form : {"plain", "cipher"}]

\* A priv_swapped_page: fresh while page and scratch are set, that is until the
\* first write has completed.
Swapped == [own : Proc, gen : 1 .. MaxGen, fresh : BOOLEAN]

ASSUME NullAssumption == NULL \notin Slot \cup Stored \cup Swapped

SwapInit ==
    /\ run = [p \in Proc |-> "run"]
    /\ gen = [p \in Proc |-> 1]
    /\ ver = [p \in Proc |-> 0]
    /\ pte = [p \in Proc |-> "present"]
    /\ writable = [p \in Proc |-> TRUE]
    /\ slot = [p \in Proc |-> NULL]
    /\ cache = [p \in Proc |-> FALSE]
    /\ mem = [p \in Proc |-> 0]
    /\ dirty = [p \in Proc |-> TRUE]
    /\ reading = [p \in Proc |-> FALSE]
    /\ wb = [p \in Proc |-> "no"]
    /\ wbver = [p \in Proc |-> 0]
    /\ disk = [s \in Slot |-> NULL]
    /\ entry = [s \in Slot |-> NULL]
    /\ halted = FALSE
    /\ excused = {}

-----------------------------------------------------------------------------
(* Slots and keys. *)

InUse(s) == \E p \in Proc : slot[p] = s

\* The context of a swapped page still has its key (mapcount is not 0).
Keyed(e) == e # NULL /\ gen[e.own] = e.gen /\ run[e.own] # "gone"

\* A bug: the entry of a freed slot stays in the tree.
WithoutKeep(s) == entry

\* swap_entry_free with no use left: delete_from_priv.
Without(s) == [entry EXCEPT ![s] = NULL]

\* The frame of p leaves the swap cache and, as no pte refers to it, the slot is
\* freed (delete_from_swap_cache, swapcache_free).
GiveUpSlot(p) ==
    /\ cache' = [cache EXCEPT ![p] = FALSE]
    /\ slot' = [slot EXCEPT ![p] = NULL]
    /\ entry' = Without(slot[p])

KeepSlot == UNCHANGED <<cache, slot, entry>>

Excuse(p) == excused' = excused \cup {p}

-----------------------------------------------------------------------------
(* The process. *)

\* A write.  A read-only pte faults into do_wp_page and reuse_swap_page, which
\* frees the slot unless the page is under writeback.
Write(p) ==
    /\ run[p] = "run" /\ pte[p] = "present"
    /\ ver[p] < MaxVer
    /\ ver' = [ver EXCEPT ![p] = @ + 1]
    /\ mem' = [mem EXCEPT ![p] = ver[p] + 1]
    /\ dirty' = [dirty EXCEPT ![p] = TRUE]
    /\ writable' = [writable EXCEPT ![p] = TRUE]
    /\ \/ /\ ~writable[p] /\ cache[p] /\ wb[p] = "no"
          /\ GiveUpSlot(p)
       \/ /\ writable[p] \/ ~cache[p] \/ wb[p] # "no"
          /\ KeepSlot
    /\ IF wb[p] = "no" THEN UNCHANGED excused ELSE Excuse(p)
    /\ UNCHANGED <<run, gen, pte, reading, wb, wbver, disk, halted>>

\* do_swap_page with the page in the swap cache: the pte is set and its use of the
\* slot freed.  A write fault, or a full swap device, frees the slot, but not
\* under writeback.
Fault(p, write, vm_swap_full) ==
    /\ run[p] = "run" /\ pte[p] = "swap"
    /\ cache[p] /\ ~reading[p]
    /\ pte' = [pte EXCEPT ![p] = "present"]
    /\ writable' = [writable EXCEPT ![p] = write]
    /\ \/ /\ write \/ vm_swap_full
          /\ wb[p] = "no"
          /\ GiveUpSlot(p)
          /\ dirty' = [dirty EXCEPT ![p] = TRUE]
       \/ /\ (~write /\ ~vm_swap_full) \/ wb[p] # "no"
          /\ KeepSlot
          /\ dirty' = [dirty EXCEPT ![p] = @ \/ write]
    /\ IF write /\ wb[p] # "no" THEN Excuse(p) ELSE UNCHANGED excused
    /\ UNCHANGED <<ownVars, mem, reading, wb, wbver, disk, halted>>

\* swap_readpage, for a fault of p or the readahead of another.
ReadPage(p) ==
    /\ pte[p] = "swap" /\ ~cache[p]
    /\ cache' = [cache EXCEPT ![p] = TRUE]
    /\ reading' = [reading EXCEPT ![p] = TRUE]
    /\ mem' = [mem EXCEPT ![p] = Junk]
    /\ dirty' = [dirty EXCEPT ![p] = FALSE]
    /\ UNCHANGED <<ownVars, pte, writable, slot, wb, wbver, disk, entry, halted, excused>>

\* What a frame holds after d was read and, if the slot's entry has a key,
\* priv_decrypt_page has run over it.
Decrypted(d, e) ==
    IF IF Keyed(e) THEN d.form = "cipher" /\ d.own = e.own /\ d.gen = e.gen
                   ELSE d.form = "plain"
    THEN d.ver
    ELSE Junk

\* end_swap_bio_read.
ReadDone(p) ==
    /\ reading[p]
    /\ reading' = [reading EXCEPT ![p] = FALSE]
    /\ mem' = [mem EXCEPT ![p] = Decrypted(disk[slot[p]], entry[slot[p]])]
    /\ UNCHANGED <<ownVars, pte, writable, slot, cache, dirty, wb, wbver,
                   disk, entry, halted, excused>>

-----------------------------------------------------------------------------
(* Reclaim. *)

\* What add_to_priv does with a page of a private process: it stores an entry; it
\* finds no memory for one; or it succeeds without one, as the page is mapped
\* twice or not at all, has no anon_vma, or there is an area of another process or
\* one without a context on the list of its anon_vma.
Outcome == {"stored", "failed", "unfiled"}

\* add_to_swap, then add_to_priv.  A page without an entry stays in the swap cache,
\* unless that was a failure and the device is full.
AddToSwap(p, s, outcome, vm_swap_full) ==
    LET failed == p \in Private /\ outcome = "failed"
        stored == p \in Private /\ outcome = "stored"
    IN  /\ run[p] = "run" /\ pte[p] = "present"
        /\ ~cache[p]
        /\ ~InUse(s)
        /\ dirty' = [dirty EXCEPT ![p] = TRUE]
        /\ \/ /\ ~(failed /\ vm_swap_full)
              /\ slot' = [slot EXCEPT ![p] = s]
              /\ cache' = [cache EXCEPT ![p] = TRUE]
              /\ entry' = IF stored
                          THEN [entry EXCEPT ![s] = [own |-> p, gen |-> gen[p], fresh |-> TRUE]]
                          ELSE entry
              /\ excused' = IF stored THEN excused \ {p} ELSE excused \cup {p}
           \/ /\ failed /\ vm_swap_full
              /\ KeepSlot
              /\ UNCHANGED excused
        /\ UNCHANGED <<ownVars, pte, writable, mem, reading, wb, wbver, disk, halted>>

\* try_to_unmap: the pte becomes a swap entry.
Unmap(p) ==
    /\ run[p] = "run" /\ pte[p] = "present"
    /\ cache[p] /\ wb[p] = "no"
    /\ pte' = [pte EXCEPT ![p] = "swap"]
    /\ writable' = [writable EXCEPT ![p] = FALSE]
    /\ UNCHANGED <<ownVars, slot, cache, mem, dirty, reading, wb, wbver,
                   disk, entry, halted, excused>>

\* The page is unmapped and can be written or dropped.
Reclaimable(p) == cache[p] /\ pte[p] # "present" /\ wb[p] = "no" /\ ~reading[p]

\* A bug: a page whose scratch page is gone is written in the clear and the entry
\* stays.
WritePageStale(p) ==
    LET s == slot[p]
        fresh == entry[s] # NULL /\ entry[s].fresh
    IN  /\ Reclaimable(p)
        /\ dirty[p]
        /\ \/ /\ pte[p] = "none"
              /\ GiveUpSlot(p)
              /\ UNCHANGED <<dirty, wb, wbver>>
           \/ /\ pte[p] = "swap"
              /\ dirty' = [dirty EXCEPT ![p] = FALSE]
              /\ wb' = [wb EXCEPT ![p] = IF fresh THEN "cipher" ELSE "plain"]
              /\ wbver' = [wbver EXCEPT ![p] = mem[p]]
              /\ KeepSlot
        /\ UNCHANGED <<ownVars, pte, writable, mem, reading, disk, halted, excused>>

\* A bug: the page itself is handed to the device.
WritePagePlain(p) ==
    /\ Reclaimable(p)
    /\ dirty[p]
    /\ pte[p] = "swap"
    /\ dirty' = [dirty EXCEPT ![p] = FALSE]
    /\ wb' = [wb EXCEPT ![p] = "plain"]
    /\ wbver' = [wbver EXCEPT ![p] = mem[p]]
    /\ UNCHANGED <<ownVars, pte, writable, slot, cache, mem, reading,
                   disk, entry, halted, excused>>

\* swap_writepage: a slot nobody needs is freed; otherwise priv_encrypt_page
\* encrypts the page into its scratch page if it still has one, and if not gives
\* up its entry and lets the page go out as it is.
WritePage(p) ==
    LET s == slot[p]
        fresh == entry[s] # NULL /\ entry[s].fresh
    IN  /\ Reclaimable(p)
        /\ dirty[p]
        /\ \/ /\ pte[p] = "none"
              /\ GiveUpSlot(p)
              /\ UNCHANGED <<dirty, wb, wbver>>
           \/ /\ pte[p] = "swap"
              /\ dirty' = [dirty EXCEPT ![p] = FALSE]
              /\ wb' = [wb EXCEPT ![p] = IF fresh THEN "cipher" ELSE "plain"]
              /\ wbver' = [wbver EXCEPT ![p] = mem[p]]
              /\ entry' = IF fresh THEN entry ELSE Without(s)
              /\ UNCHANGED <<slot, cache>>
        /\ UNCHANGED <<ownVars, pte, writable, mem, reading, disk, halted, excused>>

\* end_swap_bio_write: delete_scratch_page, and a page that could not be written is
\* dirty again.  A page in the clear was not copied: a later version may be stored.
WriteDone(p, uptodate, v) ==
    LET s == slot[p]
    IN  /\ wb[p] # "no"
        /\ v = wbver[p] \/ (wb[p] = "plain" /\ v = mem[p])
        /\ wb' = [wb EXCEPT ![p] = "no"]
        /\ wbver' = [wbver EXCEPT ![p] = 0]
        /\ entry' = IF entry[s] = NULL THEN entry ELSE [entry EXCEPT ![s].fresh = FALSE]
        /\ disk' = IF uptodate
                   THEN [disk EXCEPT ![s] =
                            [own |-> p, gen |-> gen[p], ver |-> v, form |-> wb[p]]]
                   ELSE disk
        /\ dirty' = [dirty EXCEPT ![p] = @ \/ ~uptodate]
        /\ IF uptodate THEN UNCHANGED excused ELSE Excuse(p)
        /\ UNCHANGED <<ownVars, pte, writable, slot, cache, mem, reading, halted>>

\* __remove_mapping: a clean page is dropped; its slot stays if the pte has it.
RemoveMapping(p) ==
    /\ Reclaimable(p)
    /\ ~dirty[p]
    /\ mem' = [mem EXCEPT ![p] = Junk]
    /\ \/ /\ pte[p] = "none"
          /\ GiveUpSlot(p)
       \/ /\ pte[p] = "swap"
          /\ cache' = [cache EXCEPT ![p] = FALSE]
          /\ UNCHANGED <<slot, entry>>
    /\ UNCHANGED <<ownVars, pte, writable, dirty, reading, wb, wbver,
                   disk, halted, excused>>

-----------------------------------------------------------------------------
(* Exit. *)

\* unmap_vmas: the pte goes, and with it the slot, unless the frame is in the swap
\* cache and busy (under I/O, or its lock taken).
Zap(p, busy) ==
    /\ run[p] = "run"
    /\ wb[p] # "no" \/ reading[p] => busy
    /\ busy => cache[p]
    /\ run' = [run EXCEPT ![p] = "zapped"]
    /\ pte' = [pte EXCEPT ![p] = "none"]
    /\ writable' = [writable EXCEPT ![p] = FALSE]
    /\ \/ /\ busy
          /\ KeepSlot
          /\ UNCHANGED <<mem, dirty>>
       \/ /\ ~busy
          /\ IF slot[p] = NULL THEN KeepSlot ELSE GiveUpSlot(p)
          /\ mem' = [mem EXCEPT ![p] = Junk]
          /\ dirty' = [dirty EXCEPT ![p] = FALSE]
    /\ UNCHANGED <<gen, ver, reading, wb, wbver, disk, halted, excused>>

\* The last priv_ctx_put: the key is destroyed.  delete_all_from_priv first frees
\* the slot of every entry that still has its page, also of other processes: the
\* swap map then contradicts the swap cache, and the last page of the context
\* itself makes priv_ctx_entry_put spin on the lock priv_ctx_put holds.  What
\* happens after that is not followed.
CtxPut(p) ==
    LET victims == {s \in Slot : entry[s] # NULL /\ entry[s].fresh}
    IN  /\ run[p] = "zapped"
        /\ run' = [run EXCEPT ![p] = "gone"]
        /\ halted' = (p \in Private /\ victims # {})
        /\ UNCHANGED <<gen, ver, pageVars, disk, entry, excused>>

\* A bug: the new process is given no context.
StartUnkeyed(p) ==
    /\ run[p] = "gone" /\ slot[p] = NULL
    /\ gen[p] < MaxGen
    /\ run' = [run EXCEPT ![p] = "run"]
    /\ gen' = [gen EXCEPT ![p] = 0]
    /\ ver' = [ver EXCEPT ![p] = 0]
    /\ mem' = [mem EXCEPT ![p] = 0]
    /\ pte' = [pte EXCEPT ![p] = "present"]
    /\ writable' = [writable EXCEPT ![p] = TRUE]
    /\ dirty' = [dirty EXCEPT ![p] = TRUE]
    /\ UNCHANGED <<slot, cache, reading, wb, wbver, disk, entry, halted, excused>>

\* Another process, with a new page and a new key.
Start(p) ==
    /\ run[p] = "gone" /\ slot[p] = NULL
    /\ gen[p] < MaxGen
    /\ run' = [run EXCEPT ![p] = "run"]
    /\ gen' = [gen EXCEPT ![p] = @ + 1]
    /\ ver' = [ver EXCEPT ![p] = 0]
    /\ mem' = [mem EXCEPT ![p] = 0]
    /\ pte' = [pte EXCEPT ![p] = "present"]
    /\ writable' = [writable EXCEPT ![p] = TRUE]
    /\ dirty' = [dirty EXCEPT ![p] = TRUE]
    /\ UNCHANGED <<slot, cache, reading, wb, wbver, disk, entry, halted, excused>>

-----------------------------------------------------------------------------
SwapNext ==
    /\ ~halted
    /\ \E p \in Proc :
        \/ Write(p) \/ ReadPage(p) \/ ReadDone(p)
        \/ \E write, vm_swap_full \in BOOLEAN : Fault(p, write, vm_swap_full)
        \/ \E s \in Slot, outcome \in Outcome, vm_swap_full \in BOOLEAN :
              AddToSwap(p, s, outcome, vm_swap_full)
        \/ Unmap(p) \/ WritePage(p) \/ RemoveMapping(p)
        \/ \E uptodate \in BOOLEAN, v \in Version : WriteDone(p, uptodate, v)
        \/ \E busy \in BOOLEAN : Zap(p, busy)
        \/ CtxPut(p) \/ Start(p)

SwapSpec == SwapInit /\ [][SwapNext]_swapVars

-----------------------------------------------------------------------------
\* Type correctness of the pages, the swap device and the tree.
SwapTypeOK ==
    /\ run \in [Proc -> {"run", "zapped", "gone"}]
    /\ gen \in [Proc -> 1 .. MaxGen]
    /\ ver \in [Proc -> 0 .. MaxVer]
    /\ pte \in [Proc -> {"present", "swap", "none"}]
    /\ writable \in [Proc -> BOOLEAN]
    /\ slot \in [Proc -> Slot \cup {NULL}]
    /\ cache \in [Proc -> BOOLEAN]
    /\ mem \in [Proc -> Version]
    /\ dirty \in [Proc -> BOOLEAN]
    /\ reading \in [Proc -> BOOLEAN]
    /\ wb \in [Proc -> {"no", "cipher", "plain"}]
    /\ wbver \in [Proc -> Version]
    /\ disk \in [Slot -> Stored \cup {NULL}]
    /\ entry \in [Slot -> Swapped \cup {NULL}]
    /\ halted \in BOOLEAN
    /\ excused \subseteq Proc

\* A process always finds in its page what it wrote last, whatever was swapped out,
\* written again, failed to be written, read ahead or left by a dead process in the
\* slot, and whether or not the entry was given up in between (priv_encrypt_page,
\* priv_decrypt_page, swap_entry_free).
ReadBack ==
    \A p \in Proc : run[p] = "run" /\ pte[p] = "present" => mem[p] = ver[p]

\* A page of a private process is written to the swap device in the clear only for
\* one of four reasons, met since it was last given a slot: there was no memory for
\* its entry; add_to_priv saw another process at the page, as after a fork, or no
\* private area, and made no entry; a write failed; or the page was written to
\* while it was under writeback (add_to_priv, priv_encrypt_page).  A page that was
\* filed is encrypted on every other path, whatever befell it in earlier slots.
ClearOnlyIfExcused ==
    \A p \in Private : wb[p] = "plain" => p \in excused

\* The tree has an entry only for a slot in use, and it is that of the process
\* whose page is there: add_to_priv never meets an old entry, and no page is
\* decrypted with the key of the previous user of its slot (swap_entry_free,
\* delete_from_priv).
EntryIsUsers ==
    \A s \in Slot : entry[s] # NULL =>
        \E p \in Proc : slot[p] = s /\ entry[s].own = p /\ entry[s].gen = gen[p]
=============================================================================
