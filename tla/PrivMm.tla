------------------------------- MODULE PrivMm --------------------------------
(***************************************************************************)
(* The lifetime of the swap key of a private process (mm/privos.c and its  *)
(* hooks in fork, exec, exit and mmap).  A priv_cipher_ctx is kept by      *)
(* mapcount, one for the mm_struct and one for each private area, and by   *)
(* pagecount, one for each swapped-out page.  The last put of mapcount     *)
(* destroys the key, the last of both frees the structure.                 *)
(*                                                                         *)
(* An area holds a context or NULL: a shared area, or one made before the  *)
(* process had a context.  The puts of an exit are one step, as they meet  *)
(* other users of a context only in mapcount, and dec_and_lock serialises  *)
(* those.  What the last put does to the pages of the tree is in PrivSwap. *)
(***************************************************************************)
EXTENDS Integers, FiniteSets

CONSTANTS
    Proc,         \* address spaces that can be private
    Area,         \* areas (vm_area_struct) a process can have
    Ctx,          \* priv_cipher_ctx structures; bounds how many are made
    NULL,
    None,         \* there is no such area
    MaxEntries,   \* bound on pagecount
    MaxDrift      \* bound on lost and on owed

ASSUME MmAssumption ==
    /\ NULL \notin Ctx \cup Area /\ None \notin Ctx /\ NULL # None
    /\ IsFiniteSet(Proc) /\ IsFiniteSet(Area)
    /\ MaxEntries \in Nat /\ MaxDrift \in Nat

VARIABLES
    running,      \* processes that have an mm_struct
    mmctx,        \* Proc -> mm->priv_ctx
    areas,        \* Proc -> (Area -> None, or vma->priv_ctx)
    state,        \* Ctx -> new, live, destroyed (no key) or freed
    mapcount,     \* Ctx -> Int
    pagecount,    \* Ctx -> Int
    entries,      \* Ctx -> pages of the context in privos_tree
    putting,      \* Ctx -> what the priv_ctx_entry_put under way read of mapcount
    lost,         \* history: Ctx -> references dropped without a put
    owed          \* history: Ctx -> holders that took no reference

procVars == <<running, mmctx, areas>>
pageVars == <<pagecount, entries, putting>>
mmVars == <<procVars, state, mapcount, pageVars, lost, owed>>

NoAreas == [a \in Area |-> None]

\* The areas of p that hold c, and everything that holds c.
AreasWith(p, c) == {a \in Area : areas[p][a] = c}
Holders(c) ==
    {h \in Proc \X Area : areas[h[1]][h[2]] = c}
        \cup {<<p, NULL>> : p \in {q \in Proc : mmctx[q] = c}}

MmInit ==
    /\ running = {}
    /\ mmctx = [p \in Proc |-> NULL]
    /\ areas = [p \in Proc |-> NoAreas]
    /\ state = [c \in Ctx |-> "new"]
    /\ mapcount = [c \in Ctx |-> 0]
    /\ pagecount = [c \in Ctx |-> 0]
    /\ entries = [c \in Ctx |-> 0]
    /\ putting = [c \in Ctx |-> "no"]
    /\ lost = [c \in Ctx |-> 0]
    /\ owed = [c \in Ctx |-> 0]

-----------------------------------------------------------------------------
(* priv_ctx_get, priv_ctx_put, and the counts of the history variables. *)

One(c) == [d \in Ctx |-> IF d = c THEN 1 ELSE 0]
Nothing == [d \in Ctx |-> 0]
Plus(f, g) == [c \in Ctx |-> f[c] + g[c]]

\* priv_ctx_get takes a reference unless the context is on its way out.
CanGet(c) == c \in Ctx /\ mapcount[c] # 0

\* A bug: the context is freed with its last reference, whatever its pages.
AfterPutsFreed(n) ==
    [c \in Ctx |->
        IF state[c] = "live" /\ mapcount[c] > 0 /\ mapcount[c] <= n[c]
        THEN "freed"
        ELSE state[c]]

\* n[c] calls of priv_ctx_put for each context: the one that takes mapcount to 0
\* destroys the key, and frees the context if no page is counted.
AfterPuts(n) ==
    [c \in Ctx |->
        IF state[c] = "live" /\ mapcount[c] > 0 /\ mapcount[c] <= n[c]
        THEN IF pagecount[c] = 0 THEN "freed" ELSE "destroyed"
        ELSE state[c]]

Puts(n) ==
    /\ mapcount' = [c \in Ctx |-> mapcount[c] - n[c]]
    /\ state' = AfterPuts(n)

\* The references that the areas S of p, or all of p, give back.
AreaPuts(p, S) == [c \in Ctx |-> Cardinality(S \cap AreasWith(p, c))]
ExitPuts(p) ==
    [c \in Ctx |-> Cardinality(AreasWith(p, c)) + (IF mmctx[p] = c THEN 1 ELSE 0)]

\* priv_ctx_alloc: c is made for the caller, who has its first reference.
New(c) == state[c] = "new"

-----------------------------------------------------------------------------
(* Processes. *)

\* copy_mm with CLONE_PRIVATE in a parent that is not private: the areas are
\* copies of areas without a context.
StartPrivate(p, c, a) ==
    /\ p \notin running /\ New(c)
    /\ running' = running \cup {p}
    /\ mmctx' = [mmctx EXCEPT ![p] = c]
    /\ areas' = [areas EXCEPT ![p] = [NoAreas EXCEPT ![a] = NULL]]
    /\ state' = [state EXCEPT ![c] = "live"]
    /\ mapcount' = [mapcount EXCEPT ![c] = 1]
    /\ UNCHANGED <<pageVars, lost, owed>>

\* copy_mm in a private parent p: dup_mmap copies priv_ctx with the areas and
\* takes no reference for them; copy_mm takes one for the child's mm.
Fork(p, q) ==
    /\ p \in running /\ q \notin running
    /\ mmctx[p] # NULL
    /\ owed' = Plus(owed, AreaPuts(p, Area))
    /\ running' = running \cup {q}
    /\ areas' = [areas EXCEPT ![q] = areas[p]]
    /\ \/ /\ CanGet(mmctx[p])
          /\ mmctx' = [mmctx EXCEPT ![q] = mmctx[p]]
          /\ mapcount' = Plus(mapcount, One(mmctx[p]))
       \/ /\ ~CanGet(mmctx[p])
          /\ UNCHANGED <<mmctx, mapcount>>
    /\ UNCHANGED <<state, pageVars, lost>>

\* The same with CLONE_PRIVATE: private_mm_hook gives the child a context of its
\* own, and the reference taken for the child is dropped on the floor.
ForkPrivate(p, q, c) ==
    /\ p \in running /\ q \notin running
    /\ mmctx[p] # NULL /\ New(c)
    /\ owed' = Plus(owed, AreaPuts(p, Area))
    /\ running' = running \cup {q}
    /\ areas' = [areas EXCEPT ![q] = areas[p]]
    /\ mmctx' = [mmctx EXCEPT ![q] = c]
    /\ state' = [state EXCEPT ![c] = "live"]
    /\ LET leak == IF CanGet(mmctx[p]) THEN One(mmctx[p]) ELSE Nothing
       IN  /\ mapcount' = Plus(Plus(mapcount, leak), One(c))
           /\ lost' = Plus(lost, leak)
    /\ UNCHANGED pageVars

\* dup_mm or private_mm_hook fails after the areas S have been copied: mmput of
\* the unfinished mm puts what was never taken.
ForkFails(p, S) ==
    /\ p \in running
    /\ S # {} /\ \A a \in S : areas[p][a] \in Ctx
    /\ owed' = Plus(owed, AreaPuts(p, S))
    /\ Puts(AreaPuts(p, S))
    /\ UNCHANGED <<procVars, pageVars, lost>>

\* bprm_mm_init and exec_mmap: the new mm gets a new context after its stack area
\* was linked; then mmput of the old mm.
Exec(p, c, a) ==
    /\ p \in running
    /\ CanGet(mmctx[p]) /\ New(c)
    /\ mmctx' = [mmctx EXCEPT ![p] = c]
    /\ areas' = [areas EXCEPT ![p] = [NoAreas EXCEPT ![a] = NULL]]
    /\ mapcount' = [d \in Ctx |-> IF d = c THEN 1 ELSE mapcount[d] - ExitPuts(p)[d]]
    /\ state' = [AfterPuts(ExitPuts(p)) EXCEPT ![c] = "live"]
    /\ UNCHANGED <<running, pageVars, lost, owed>>

\* priv_ctx_alloc fails in bprm_mm_init: the reference taken is not put back.
ExecFails(p) ==
    /\ p \in running
    /\ CanGet(mmctx[p])
    /\ mapcount' = Plus(mapcount, One(mmctx[p]))
    /\ lost' = Plus(lost, One(mmctx[p]))
    /\ UNCHANGED <<procVars, state, pageVars, owed>>

\* A bug: the reference of the mm is not put.
ExitKeep(p) ==
    /\ p \in running
    /\ running' = running \ {p}
    /\ mmctx' = [mmctx EXCEPT ![p] = NULL]
    /\ areas' = [areas EXCEPT ![p] = NoAreas]
    /\ Puts(AreaPuts(p, Area))
    /\ UNCHANGED <<pageVars, lost, owed>>

\* mmput of the last user: remove_vma of every area, then the mm's own reference.
Exit(p) ==
    /\ p \in running
    /\ running' = running \ {p}
    /\ mmctx' = [mmctx EXCEPT ![p] = NULL]
    /\ areas' = [areas EXCEPT ![p] = NoAreas]
    /\ Puts(ExitPuts(p))
    /\ UNCHANGED <<pageVars, lost, owed>>

-----------------------------------------------------------------------------
(* Areas. *)

\* A bug: the area is linked without a reference.
LinkBare(p, a, shared) ==
    /\ p \in running
    /\ areas[p][a] = None
    /\ areas' = [areas EXCEPT ![p][a] = IF shared THEN NULL ELSE mmctx[p]]
    /\ UNCHANGED <<running, mmctx, state, mapcount, pageVars, lost, owed>>

\* __vma_link, from mmap, brk, a split or a move: an area that is not shared gets
\* the context of the mm.
Link(p, a, shared) ==
    LET private == ~shared /\ CanGet(mmctx[p])
    IN  /\ p \in running
        /\ areas[p][a] = None
        /\ areas' = [areas EXCEPT ![p][a] = IF private THEN mmctx[p] ELSE NULL]
        /\ mapcount' = IF private THEN Plus(mapcount, One(mmctx[p])) ELSE mapcount
        /\ UNCHANGED <<running, mmctx, state, pageVars, lost, owed>>

\* remove_vma, from munmap.
Unmap(p, a) ==
    /\ p \in running
    /\ areas[p][a] # None
    /\ areas' = [areas EXCEPT ![p][a] = None]
    /\ Puts(AreaPuts(p, {a}))
    /\ UNCHANGED <<running, mmctx, pageVars, lost, owed>>

\* What vma_adjust leaves in an area and its next: a context that only one of them
\* has goes to both, and without a context in the mm both lose theirs.
Adjusted(p, a, b) ==
    LET x == areas[p][a]
        y == areas[p][b]
    IN  IF mmctx[p] = NULL
        THEN IF x = NULL THEN <<x, y>> ELSE <<NULL, NULL>>
        ELSE IF (x = NULL) # (y = NULL) THEN <<mmctx[p], mmctx[p]>> ELSE <<x, y>>

\* vma_adjust of a and its next b, which vma_merge may want removed: __vma_unlink
\* then forgets the context of b without a put.
VmaAdjust(p, a, b, remove_next) ==
    LET x == areas[p][a]
        y == areas[p][b]
        z == Adjusted(p, a, b)
        get == IF z[1] \in Ctx /\ z # <<x, y>> /\ CanGet(z[1]) THEN One(z[1]) ELSE Nothing
        \* how many more of the two areas hold c
        more(c) == Cardinality({i \in 1 .. 2 : z[i] = c})
                       - Cardinality({i \in 1 .. 2 : <<x, y>>[i] = c})
        missing(c) == more(c) - get[c]
        unlinked == IF remove_next /\ z[2] \in Ctx THEN One(z[2]) ELSE Nothing
    IN  /\ p \in running
        /\ a # b
        /\ x # None /\ y # None
        /\ remove_next \/ z # <<x, y>>
        /\ areas' = [areas EXCEPT ![p][a] = z[1],
                                  ![p][b] = IF remove_next THEN None ELSE z[2]]
        /\ mapcount' = Plus(mapcount, get)
        /\ owed' = [c \in Ctx |-> IF missing(c) > 0 THEN owed[c] + missing(c) ELSE owed[c]]
        /\ lost' = [c \in Ctx |-> unlinked[c]
                       + (IF missing(c) < 0 THEN lost[c] - missing(c) ELSE lost[c])]
        /\ UNCHANGED <<running, mmctx, state, pageVars>>

-----------------------------------------------------------------------------
(* Pages. *)

\* A bug: a page that cannot be registered is uncounted without being counted.
RegisterUncount(p, a, stored) ==
    /\ p \in running
    /\ areas[p][a] \in Ctx
    /\ pagecount' = [pagecount EXCEPT ![areas[p][a]] = IF stored THEN @ + 1 ELSE @ - 1]
    /\ entries' = [entries EXCEPT ![areas[p][a]] = IF stored THEN @ + 1 ELSE @]
    /\ UNCHANGED <<procVars, state, mapcount, putting, lost, owed>>

\* __alloc_priv_page for a page of the area: counted first, and not uncounted when
\* the scratch page or the entry cannot be allocated.  It does not ask whether the
\* context is still there: one that was freed is counted in, while its memory is not
\* in use for something else, and the entry points at it.
Register(p, a, stored) ==
    /\ p \in running
    /\ areas[p][a] \in Ctx
    /\ pagecount' = [pagecount EXCEPT ![areas[p][a]] = @ + 1]
    /\ entries' = [entries EXCEPT ![areas[p][a]] = IF stored THEN @ + 1 ELSE @]
    /\ UNCHANGED <<procVars, state, mapcount, putting, lost, owed>>

\* delete_from_priv takes an entry out of the tree; priv_ctx_entry_put looks at
\* mapcount,
EntryPut(c) ==
    /\ entries[c] > 0
    /\ putting[c] = "no"
    /\ entries' = [entries EXCEPT ![c] = @ - 1]
    /\ putting' = [putting EXCEPT ![c] = IF mapcount[c] = 0 THEN "zero" ELSE "mapped"]
    /\ UNCHANGED <<procVars, state, mapcount, pagecount, lost, owed>>

\* and then uncounts the page; only the put that saw no reference frees.
EntryPutEnd(c) ==
    /\ putting[c] # "no"
    /\ putting' = [putting EXCEPT ![c] = "no"]
    /\ pagecount' = [pagecount EXCEPT ![c] = @ - 1]
    /\ state' = [state EXCEPT ![c] =
                    IF putting[c] = "zero" /\ pagecount[c] = 1 THEN "freed" ELSE @]
    /\ UNCHANGED <<procVars, mapcount, entries, lost, owed>>

-----------------------------------------------------------------------------
MmNext ==
    \/ \E p \in Proc, c \in Ctx, a \in Area : StartPrivate(p, c, a) \/ Exec(p, c, a)
    \/ \E p, q \in Proc : Fork(p, q)
    \/ \E p, q \in Proc, c \in Ctx : ForkPrivate(p, q, c)
    \/ \E p \in Proc, S \in SUBSET Area : ForkFails(p, S)
    \/ \E p \in Proc : ExecFails(p) \/ Exit(p)
    \/ \E p \in Proc, a \in Area : Unmap(p, a)
    \/ \E p \in Proc, a \in Area, shared \in BOOLEAN : Link(p, a, shared)
    \/ \E p \in Proc, a, b \in Area, remove_next \in BOOLEAN : VmaAdjust(p, a, b, remove_next)
    \/ \E p \in Proc, a \in Area, stored \in BOOLEAN : Register(p, a, stored)
    \/ \E c \in Ctx : EntryPut(c) \/ EntryPutEnd(c)

\* p has no area of another process: it is no child that has yet to exec.
Settled(p) == \A a \in Area : areas[p][a] \in {None, NULL, mmctx[p]}

\* The "main safe case" of copy_mm: every child of a private process is separately
\* private and calls exec immediately; nothing fails, is adjusted or swapped.
CloneNext ==
    \/ \E p \in Proc, c \in Ctx, a \in Area : StartPrivate(p, c, a) \/ Exec(p, c, a)
    \/ \E p, q \in Proc, c \in Ctx : Settled(p) /\ ForkPrivate(p, q, c)
    \/ \E p \in Proc : Settled(p) /\ Exit(p)
    \/ \E p \in Proc, a \in Area : Settled(p) /\ Unmap(p, a)
    \/ \E p \in Proc, a \in Area, shared \in BOOLEAN : Settled(p) /\ Link(p, a, shared)

\* The bounds: no step takes a count beyond them.
Bounded ==
    \A c \in Ctx : pagecount'[c] <= MaxEntries /\ lost'[c] <= MaxDrift /\ owed'[c] <= MaxDrift

MmSpec == MmInit /\ [][MmNext /\ Bounded]_mmVars
CloneSpec == MmInit /\ [][CloneNext /\ Bounded]_mmVars

-----------------------------------------------------------------------------
\* Type correctness of the processes, areas and contexts.
MmTypeOK ==
    /\ running \subseteq Proc
    /\ mmctx \in [Proc -> Ctx \cup {NULL}]
    /\ areas \in [Proc -> [Area -> Ctx \cup {NULL, None}]]
    /\ state \in [Ctx -> {"new", "live", "destroyed", "freed"}]
    /\ mapcount \in [Ctx -> Int]
    /\ pagecount \in [Ctx -> Nat]
    /\ entries \in [Ctx -> Nat]
    /\ putting \in [Ctx -> {"no", "zero", "mapped"}]
    /\ lost \in [Ctx -> Nat] /\ owed \in [Ctx -> Nat]

\* The key of a running process is not destroyed under it, over any sequence of
\* maps, unmaps, merges, execs and exits, unless a fork copied areas without a
\* reference (copy_mm, __vma_link, remove_vma, vma_adjust).
KeyLives ==
    \A c \in Ctx : Holders(c) # {} /\ owed[c] = 0 => state[c] = "live"

\* Once nothing holds a context its key is destroyed, so that what was swapped out
\* is lost for good, unless a reference was dropped without a put: a merge of
\* areas, a private child of a private process, a failed exec (mmput,
\* priv_ctx_put).
KeyDies ==
    \A c \in Ctx : Holders(c) = {} /\ lost[c] = 0 => state[c] # "live"

\* No page in the tree, or on its way out of it, points at a context that has been
\* freed, whichever of priv_ctx_put and priv_ctx_entry_put came last, unless a fork
\* copied areas without a reference: reclaim then enters pages for the areas that are
\* left when the count has run out (priv_ctx_entry_get).
SafeFree ==
    \A c \in Ctx : state[c] = "freed" /\ owed[c] = 0 => entries[c] = 0 /\ putting[c] = "no"

\* A separately private child that calls exec immediately does not take the key of
\* its parent away: "the child's data lifetime is supposed to be independent of the
\* parent's" (copy_mm).
IndependentLifetime ==
    \A p \in running : mmctx[p] # NULL => state[mmctx[p]] = "live"
=============================================================================
