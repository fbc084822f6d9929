------------------------------ MODULE PrivCrypt ------------------------------
(***************************************************************************)
(* The kernel's cryptographic contexts: drivers/priv/priv_crypt_drv.c and  *)
(* crypto.c, the crypt_ctx_id attribute of a device (drivers/priv/sysfs.c) *)
(* and the hook of do_exit that destroys the contexts of a dead pid.       *)
(*                                                                         *)
(* A context (struct priv_crypt_ctx) sits on ctx_list.  A device holds a   *)
(* place for a context pointer (struct priv_crypt_ctx_ref, written ref[d]);*)
(* use_ctx fills the place and records it in cctx->user_ref, so that the   *)
(* destruction of the context can empty the place again.  An open file of  *)
(* /dev/priv_crypt_ctl holds a context in private_data.                    *)
(*                                                                         *)
(* One step is what runs under one lock.  Fields that two steps touch      *)
(* without a common lock are read and written in different steps.  kfree   *)
(* puts a context in "freed"; an access to a freed context, to the place   *)
(* of an unplugged device or through a NULL pointer sets fault, and the    *)
(* model says nothing about the kernel after that.                         *)
(*                                                                         *)
(* A context is written as its id: the ids are given out in order by one   *)
(* 32 bit counter (get_fresh_id), which the model never brings to 2^31.    *)
(***************************************************************************)
EXTENDS Naturals, FiniteSets

CONSTANTS
    Ctx,      \* ids of contexts; each one is allocated at most once
    Dev,      \* devices with a crypt_ctx_id attribute
    Removable,\* those of them that can be unplugged
    File,     \* struct file's of /dev/priv_crypt_ctl
    Proc,     \* pids
    NULL,     \* the NULL pointer
    MaxCount  \* bound on the count of a user_lock

ASSUME CtxAssumption == Ctx \subseteq Nat
ASSUME NullAssumption == NULL \notin Ctx \cup Dev \cup File \cup Proc
ASSUME RemovableAssumption == Removable \subseteq Dev
ASSUME CountAssumption == MaxCount \in Nat \ {0}

VARIABLES
    ctx_list,      \* the contexts on the_config.ctx_list
    freed,         \* contexts handed to kfree
    alloc_pid,     \* Ctx -> the pid that allocated it
    user_lock,     \* Ctx -> count of the mutex: 1 free, 0 taken
    user_ref,      \* Ctx -> the place that holds it
    activated,     \* Ctx -> BOOLEAN
    ref,           \* Dev -> cctx field of the device's cctx_ref
    plugged,       \* the devices that exist
    private_data,  \* File -> Ctx or NULL
    list_lock,     \* holder of ctx_list_lock
    pc,            \* Proc -> where its system call is
    l_cctx,        \* Proc -> local variables of that call: the context,
    l_dev,         \* the device whose attribute is written
    l_file,        \* and the file of the ioctl
    fault          \* an access the C language does not define has happened

kernVars == <<ctx_list, freed, alloc_pid, user_lock, user_ref, activated>>
vars == <<ctx_list, freed, alloc_pid, user_lock, user_ref, activated, ref,
          plugged, private_data, list_lock, pc, l_cctx, l_dev, l_file, fault>>

locals == <<l_cctx, l_dev, l_file>>

Places == {"idle", "find", "trylock", "publish",
           "remove", "unref", "clear", "unlink", "free",
           "exit", "scan", "gone"}

\* Contexts that have been allocated and not freed.
Live == {c \in Ctx : alloc_pid[c] # NULL} \ freed

Init ==
    /\ ctx_list = {}
    /\ freed = {}
    /\ alloc_pid = [c \in Ctx |-> NULL]
    /\ user_lock = [c \in Ctx |-> 1]
    /\ user_ref = [c \in Ctx |-> NULL]
    /\ activated = [c \in Ctx |-> FALSE]
    /\ ref = [d \in Dev |-> NULL]
    /\ plugged = Dev
    /\ private_data = [f \in File |-> NULL]
    /\ list_lock = NULL
    /\ pc = [p \in Proc |-> "idle"]
    /\ l_cctx = [p \in Proc |-> NULL]
    /\ l_dev = [p \in Proc |-> NULL]
    /\ l_file = [p \in Proc |-> NULL]
    /\ fault = FALSE

\* p is at this place of its call, and no fault has happened so far.
At(p, place) == ~fault /\ pc[p] = place
Goto(p, place) == pc' = [pc EXCEPT ![p] = place]
Return(p) == /\ pc' = [pc EXCEPT ![p] = "idle"]
             /\ l_cctx' = [l_cctx EXCEPT ![p] = NULL]
             /\ l_dev' = [l_dev EXCEPT ![p] = NULL]
             /\ l_file' = [l_file EXCEPT ![p] = NULL]

\* p does something the C language does not define.
Fault == /\ fault' = TRUE
         /\ UNCHANGED <<kernVars, ref, plugged, private_data, list_lock, pc, locals>>

\* p walks ctx_list, and the walk reads every element of it.
ListIsSound == ctx_list \cap freed = {}

-----------------------------------------------------------------------------
(* ioctls on /dev/priv_crypt_ctl *)

\* open: a file starts without a context; release does nothing.
Open(p, f) ==
    /\ At(p, "idle")
    /\ private_data' = [private_data EXCEPT ![f] = NULL]
    /\ UNCHANGED <<kernVars, ref, plugged, list_lock, pc, locals, fault>>

\* get_fresh_id: the first id that has not been given out.
FreshId(c) ==
    /\ alloc_pid[c] = NULL
    /\ \A b \in Ctx : b < c => alloc_pid[b] # NULL

\* do_new_ctx: make_crypto_ctx, alloc_pid, store_ctx, private_data.
NewCtx(p, f, c) ==
    /\ At(p, "idle")
    /\ list_lock = NULL
    /\ FreshId(c)
    /\ alloc_pid' = [alloc_pid EXCEPT ![c] = p]
    /\ ctx_list' = ctx_list \cup {c}
    /\ private_data' = [private_data EXCEPT ![f] = c]
    /\ UNCHANGED <<freed, user_lock, user_ref, activated, ref, plugged,
                   list_lock, pc, locals, fault>>

\* do_use_ctx: no reference is taken on the context that is found.
UseCtxIoctl(p, f, c) ==
    /\ At(p, "idle")
    /\ list_lock = NULL
    /\ IF ~ListIsSound
       THEN Fault
       ELSE /\ c \in ctx_list
            /\ private_data' = [private_data EXCEPT ![f] = c]
            /\ UNCHANGED <<kernVars, ref, plugged, list_lock, pc, locals, fault>>

\* do_set_activated, for ACTIVATE and DEACTIVATE.
SetActivated(p, f, on) ==
    /\ At(p, "idle")
    /\ private_data[f] # NULL
    /\ IF private_data[f] \in freed
       THEN Fault
       ELSE /\ activated' = [activated EXCEPT ![private_data[f]] = on]
            /\ UNCHANGED <<ctx_list, freed, alloc_pid, user_lock, user_ref, ref,
                           plugged, private_data, list_lock, pc, locals, fault>>

\* do_destroy up to the call of remove_ctx.
Destroy(p, f) ==
    /\ At(p, "idle")
    /\ private_data[f] # NULL
    /\ Goto(p, "remove")
    /\ l_cctx' = [l_cctx EXCEPT ![p] = private_data[f]]
    /\ l_file' = [l_file EXCEPT ![p] = f]
    /\ UNCHANGED <<l_dev, kernVars, ref, plugged, private_data, list_lock, fault>>

-----------------------------------------------------------------------------
(* Removal of a context, from do_destroy and from priv_pid_death_action. *)

\* A bug: the place is never looked at.
CheckUserNever(p, c) == Goto(p, "unlink")

\* The test of ctx->user_ref, made without the lock of the place.
CheckUser(p, c) ==
    Goto(p, IF user_ref[c] = NULL THEN "unlink" ELSE "unref")

\* remove_ctx takes the list lock and __remove_ctx looks at user_ref.
RemoveBegin(p) ==
    /\ At(p, "remove")
    /\ list_lock = NULL
    /\ IF l_cctx[p] \in freed
       THEN Fault
       ELSE /\ list_lock' = p
            /\ CheckUser(p, l_cctx[p])
            /\ UNCHANGED <<kernVars, ref, plugged, private_data, locals, fault>>

\* Empty the place, under its lock.  user_ref is read again for it.
RemoveUnref(p) ==
    LET c == l_cctx[p]
        d == user_ref[c]
    IN  /\ At(p, "unref")
        /\ IF c \in freed \/ d = NULL \/ d \notin plugged
           THEN Fault
           ELSE /\ ref' = [ref EXCEPT ![d] = NULL]
                /\ Goto(p, "clear")
                /\ UNCHANGED <<kernVars, plugged, private_data, list_lock,
                               locals, fault>>

\* A bug: remove_ctx returns with the list lock held.
RemoveUnlinkLocked(p) ==
    LET c == l_cctx[p]
    IN  /\ At(p, "clear") \/ At(p, "unlink")
        /\ ctx_list' = ctx_list \ {c}
        /\ user_ref' = [user_ref EXCEPT ![c] = NULL]
        /\ Goto(p, "free")
        /\ UNCHANGED <<freed, alloc_pid, user_lock, activated, ref, plugged,
                       private_data, list_lock, locals, fault>>

\* user_ref is cleared when there was a place, after its lock is dropped; then
\* list_del.  do_destroy drops the list lock here, a dying pid keeps it.
RemoveUnlink(p) ==
    LET c == l_cctx[p]
    IN  /\ At(p, "clear") \/ At(p, "unlink")
        /\ IF c \in freed \/ c \notin ctx_list
           THEN Fault
           ELSE /\ ctx_list' = ctx_list \ {c}
                /\ user_ref' = IF pc[p] = "clear"
                               THEN [user_ref EXCEPT ![c] = NULL] ELSE user_ref
                /\ list_lock' = IF l_file[p] = NULL THEN p ELSE NULL
                /\ Goto(p, "free")
                /\ UNCHANGED <<freed, alloc_pid, user_lock, activated, ref,
                               plugged, private_data, locals, fault>>

\* A bug: *priv_store = NULL is forgotten.
FreeKeepsPointer(p) ==
    LET f == l_file[p]
        c == IF f = NULL THEN l_cctx[p] ELSE private_data[f]
    IN  /\ At(p, "free")
        /\ freed' = freed \cup {c}
        /\ IF f = NULL
           THEN /\ Goto(p, "scan")
                /\ l_cctx' = [l_cctx EXCEPT ![p] = NULL]
                /\ UNCHANGED <<l_dev, l_file>>
           ELSE Return(p)
        /\ UNCHANGED <<ctx_list, alloc_pid, user_lock, user_ref, activated, ref,
                       plugged, private_data, list_lock, fault>>

\* destroy_crypto_ctx.  do_destroy reads *priv_store once more for it.
Free(p) ==
    LET f == l_file[p]
        c == IF f = NULL THEN l_cctx[p] ELSE private_data[f]
    IN  /\ At(p, "free")
        /\ IF c = NULL \/ c \in freed
           THEN Fault
           ELSE /\ freed' = freed \cup {c}
                /\ IF f = NULL
                   THEN /\ Goto(p, "scan")
                        /\ l_cctx' = [l_cctx EXCEPT ![p] = NULL]
                        /\ UNCHANGED <<l_dev, l_file, private_data>>
                   ELSE /\ Return(p)
                        /\ private_data' = [private_data EXCEPT ![f] = NULL]
                /\ UNCHANGED <<ctx_list, alloc_pid, user_lock, user_ref,
                               activated, ref, plugged, list_lock, fault>>

-----------------------------------------------------------------------------
(* do_exit: priv_pid_death_action holds the list lock over the whole walk. *)

Exit(p) ==
    /\ At(p, "idle")
    /\ Goto(p, "exit")
    /\ UNCHANGED <<kernVars, ref, plugged, private_data, list_lock, locals, fault>>

DeathBegin(p) ==
    /\ At(p, "exit")
    /\ list_lock = NULL
    /\ list_lock' = p
    /\ Goto(p, "scan")
    /\ UNCHANGED <<kernVars, ref, plugged, private_data, locals, fault>>

\* The next element of the list that p allocated: __remove_ctx begins on it.
DeathNext(p, c) ==
    /\ At(p, "scan")
    /\ IF ~ListIsSound
       THEN Fault
       ELSE /\ c \in ctx_list
            /\ alloc_pid[c] = p
            /\ l_cctx' = [l_cctx EXCEPT ![p] = c]
            /\ UNCHANGED <<l_dev, l_file>>
            /\ CheckUser(p, c)
            /\ UNCHANGED <<kernVars, ref, plugged, private_data, list_lock, fault>>

\* A bug: the walk stops early.
DeathEndEarly(p) ==
    /\ At(p, "scan")
    /\ list_lock' = NULL
    /\ Goto(p, "gone")
    /\ UNCHANGED <<kernVars, ref, plugged, private_data, locals, fault>>

DeathEnd(p) ==
    /\ At(p, "scan")
    /\ ListIsSound
    /\ \A c \in ctx_list : alloc_pid[c] # p
    /\ list_lock' = NULL
    /\ Goto(p, "gone")
    /\ UNCHANGED <<kernVars, ref, plugged, private_data, locals, fault>>

\* The pid is used again by a later process.
Spawn(p) ==
    /\ At(p, "gone")
    /\ Return(p)
    /\ UNCHANGED <<kernVars, ref, plugged, private_data, list_lock, fault>>

-----------------------------------------------------------------------------
(* The crypt_ctx_id attribute. *)

\* unuse_ctx: the place keeps its pointer; user_ref is cleared and the mutex
\* released (an increment of its count, whoever took it).
Unuse(d) ==
    IF ref[d] = NULL
    THEN UNCHANGED <<user_lock, user_ref, fault>>
    ELSE IF ref[d] \in freed
    THEN /\ fault' = TRUE
         /\ UNCHANGED <<user_lock, user_ref>>
    ELSE /\ user_lock[ref[d]] < MaxCount
         /\ user_ref' = [user_ref EXCEPT ![ref[d]] = NULL]
         /\ user_lock' = [user_lock EXCEPT ![ref[d]] = @ + 1]
         /\ UNCHANGED fault

\* device_cctx_id_store: p writes the id of c to the attribute of d, which
\* gives up the context d has, and goes on to use_ctx.
Store(p, d, c) ==
    /\ At(p, "idle")
    /\ d \in plugged
    /\ Unuse(d)
    /\ Goto(p, "find")
    /\ l_cctx' = [l_cctx EXCEPT ![p] = c]
    /\ l_dev' = [l_dev EXCEPT ![p] = d]
    /\ UNCHANGED l_file
    /\ UNCHANGED <<ctx_list, freed, alloc_pid, activated, ref, plugged,
                   private_data, list_lock>>

\* find_ctx_by_id: the list lock is dropped before the context is used.
\* -ENODEV if there is none; the attribute keeps what it holds.
UseFind(p) ==
    /\ At(p, "find")
    /\ list_lock = NULL
    /\ IF ~ListIsSound
       THEN Fault
       ELSE /\ IF l_cctx[p] \in ctx_list
               THEN Goto(p, "trylock") /\ UNCHANGED locals
               ELSE Return(p)
            /\ UNCHANGED <<kernVars, ref, plugged, private_data, list_lock, fault>>

\* A bug: the context is used whether or not the mutex was free.
UseTrylockAlways(p) ==
    /\ At(p, "trylock")
    /\ user_lock' = [user_lock EXCEPT ![l_cctx[p]] = 0]
    /\ Goto(p, "publish")
    /\ UNCHANGED <<ctx_list, freed, alloc_pid, user_ref, activated, ref, plugged,
                   private_data, list_lock, locals, fault>>

\* A bug: the mutex is looked at and not taken.
UseTrylockPeek(p) ==
    /\ At(p, "trylock")
    /\ user_lock[l_cctx[p]] = 1
    /\ Goto(p, "publish")
    /\ UNCHANGED <<kernVars, ref, plugged, private_data, list_lock, locals, fault>>

\* mutex_trylock(&cctx->user_lock); -EBUSY if it is taken.
UseTrylock(p) ==
    LET c == l_cctx[p]
    IN  /\ At(p, "trylock")
        /\ IF c \in freed
           THEN Fault
           ELSE /\ IF user_lock[c] = 1
                   THEN /\ user_lock' = [user_lock EXCEPT ![c] = 0]
                        /\ Goto(p, "publish")
                        /\ UNCHANGED locals
                   ELSE Return(p) /\ UNCHANGED user_lock
                /\ UNCHANGED <<ctx_list, freed, alloc_pid, user_ref, activated,
                               ref, plugged, private_data, list_lock, fault>>

\* Under the lock of the place, both pointers are set.
UsePublish(p) ==
    LET c == l_cctx[p]
        d == l_dev[p]
    IN  /\ At(p, "publish")
        /\ IF c \in freed
           THEN Fault
           ELSE /\ user_ref' = [user_ref EXCEPT ![c] = d]
                /\ ref' = [ref EXCEPT ![d] = c]
                /\ Return(p)
                /\ UNCHANGED <<ctx_list, freed, alloc_pid, user_lock, activated,
                               plugged, private_data, list_lock, fault>>

\* device_destroy_cctx_attribute: device_remove_file waits for the stores in
\* progress; the device, and the place in it, go away.
Unplug(d) ==
    /\ ~fault
    /\ d \in plugged \cap Removable
    /\ \A p \in Proc : l_dev[p] # d
    /\ Unuse(d)
    /\ plugged' = plugged \ {d}
    /\ UNCHANGED <<ctx_list, freed, alloc_pid, activated, ref, private_data,
                   list_lock, pc, locals>>

\* device_setup_cctx_attribute on a new device.
Plug(d) ==
    /\ ~fault
    /\ d \notin plugged
    /\ plugged' = plugged \cup {d}
    /\ ref' = [ref EXCEPT ![d] = NULL]
    /\ UNCHANGED <<kernVars, private_data, list_lock, pc, locals, fault>>

-----------------------------------------------------------------------------
\* Steps a process takes by itself once its system call has begun.
Continue(p) ==
    \/ RemoveBegin(p)
    \/ RemoveUnref(p)
    \/ RemoveUnlink(p)
    \/ Free(p)
    \/ DeathBegin(p)
    \/ \E c \in Ctx : DeathNext(p, c)
    \/ DeathEnd(p)
    \/ UseFind(p)
    \/ UseTrylock(p)
    \/ UsePublish(p)

\* Any sequence of system calls, from any process, on any file or attribute.
Next ==
    \/ \E p \in Proc : Continue(p) \/ Exit(p) \/ Spawn(p)
    \/ \E p \in Proc, f \in File : Open(p, f) \/ Destroy(p, f)
    \/ \E p \in Proc, f \in File, c \in Ctx : NewCtx(p, f, c)
    \/ \E p \in Proc, f \in File, c \in Ctx : UseCtxIoctl(p, f, c)
    \/ \E p \in Proc, f \in File, on \in BOOLEAN : SetActivated(p, f, on)
    \/ \E p \in Proc, d \in Dev, c \in Ctx : Store(p, d, c)
    \/ \E d \in Dev : Unplug(d) \/ Plug(d)

Spec == Init /\ [][Next]_vars

-----------------------------------------------------------------------------
\* Type correctness of the state.  It holds when the driver is used as in
\* PrivCryptClient: unuse_ctx then never releases a user_lock nobody holds.
TypeOK ==
    /\ ctx_list \subseteq Ctx
    /\ freed \subseteq Ctx
    /\ alloc_pid \in [Ctx -> Proc \cup {NULL}]
    /\ user_lock \in [Ctx -> 0 .. 1]
    /\ user_ref \in [Ctx -> Dev \cup {NULL}]
    /\ activated \in [Ctx -> BOOLEAN]
    /\ ref \in [Dev -> Ctx \cup {NULL}]
    /\ plugged \subseteq Dev
    /\ private_data \in [File -> Ctx \cup {NULL}]
    /\ list_lock \in Proc \cup {NULL}
    /\ pc \in [Proc -> Places]
    /\ l_cctx \in [Proc -> Ctx \cup {NULL}]
    /\ l_dev \in [Proc -> Dev \cup {NULL}]
    /\ l_file \in [Proc -> File \cup {NULL}]
    /\ fault \in BOOLEAN

\* __remove_ctx (priv_crypt_drv.c:157) says of the place it empties: "after
\* next line, potential holder of user lock will not be able to use the
\* context any more".  So a place of a plugged device never holds a context
\* that has been taken off the list.
RemovedIsUnusable ==
    \A d \in plugged : ref[d] # NULL => ref[d] \in ctx_list
=============================================================================
