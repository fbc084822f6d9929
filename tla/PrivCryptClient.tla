--------------------------- MODULE PrivCryptClient ---------------------------
(***************************************************************************)
(* PrivCrypt driven the way QEMU and libprivcrypt drive it                 *)
(* (crypto/libprivcrypt/kern_backend.c, qemu priv-usb.c):                  *)
(*                                                                         *)
(*   - a file of /dev/priv_crypt_ctl belongs to one backend: one NEW_CTX,  *)
(*     then calls of its own process, DESTROY, close (kern_init,           *)
(*     kern_destroy); USE_CTX is never called;                             *)
(*   - a process writes only the ids of its own contexts, while it has     *)
(*     them, and writes each device's attribute once (usb_crypt_setup runs *)
(*     once per -priv-input option);                                       *)
(*   - a device is given to one virtual machine at a time (claim);         *)
(*   - a device is not unplugged while the context it holds is being       *)
(*     removed.                                                            *)
(*                                                                         *)
(* Those are assumptions about the programs and the user around the        *)
(* driver; the driver does not enforce them (see RemovedIsUnusable).       *)
(***************************************************************************)
EXTENDS PrivCrypt

VARIABLE claim   \* Dev -> the process whose virtual machine has the device

cvars == <<ctx_list, freed, alloc_pid, user_lock, user_ref, activated, ref,
           plugged, private_data, list_lock, pc, l_cctx, l_dev, l_file, fault, claim>>

ClientInit == Init /\ claim = [d \in Dev |-> NULL]

\* f is the file of a backend of p.
Owns(p, f) == private_data[f] # NULL /\ alloc_pid[private_data[f]] = p

\* The context of the file belongs to a process that has exited.
Orphan(f) == private_data[f] # NULL /\ pc[alloc_pid[private_data[f]]] = "gone"

\* exit_files closes the files of a dead process; f can be opened anew.
ClientOpen(p, f) == Orphan(f) /\ Open(p, f) /\ UNCHANGED claim

\* kern_init
ClientNew(p, f, c) == private_data[f] = NULL /\ NewCtx(p, f, c) /\ UNCHANGED claim

\* kern_set_activation
ClientActivate(p, f, on) == Owns(p, f) /\ SetActivated(p, f, on) /\ UNCHANGED claim

\* kern_destroy
ClientDestroy(p, f) == Owns(p, f) /\ Destroy(p, f) /\ UNCHANGED claim

\* usb_crypt_setup
ClientStore(p, d, c) ==
    /\ claim[d] = NULL
    /\ c \in ctx_list
    /\ alloc_pid[c] = p
    /\ Store(p, d, c)
    /\ claim' = [claim EXCEPT ![d] = p]

ClientUnplug(d) ==
    /\ \A p \in Proc : pc[p] = "unref" => l_cctx[p] # ref[d]
    /\ Unplug(d)
    /\ UNCHANGED claim

ClientPlug(d) == Plug(d) /\ UNCHANGED claim

ClientExit(p) == Exit(p) /\ UNCHANGED claim

\* A system call goes on; the end of a process gives its devices back.
ClientContinue(p) ==
    /\ Continue(p)
    /\ claim' = [d \in Dev |-> IF claim[d] = p /\ pc'[p] = "gone"
                               THEN NULL ELSE claim[d]]

\* A pid is reused only when the files of its former process are closed.
ClientSpawn(p) ==
    /\ \A f \in File : ~Owns(p, f)
    /\ Spawn(p)
    /\ UNCHANGED claim

ClientNext ==
    \/ \E p \in Proc : ClientContinue(p) \/ ClientExit(p) \/ ClientSpawn(p)
    \/ \E p \in Proc, f \in File : ClientOpen(p, f) \/ ClientDestroy(p, f)
    \/ \E p \in Proc, f \in File, c \in Ctx : ClientNew(p, f, c)
    \/ \E p \in Proc, f \in File, on \in BOOLEAN : ClientActivate(p, f, on)
    \/ \E p \in Proc, d \in Dev, c \in Ctx : ClientStore(p, d, c)
    \/ \E d \in Dev : ClientUnplug(d) \/ ClientPlug(d)

ClientSpec == ClientInit /\ [][ClientNext]_cvars

\* A system call that can go on again and again does: the scheduler runs every
\* task, and a task that waits for ctx_list_lock is queued on the mutex and
\* woken when it is released, so others do not overtake it for ever.
FairSpec == ClientSpec /\ \A p \in Proc : SF_cvars(ClientContinue(p))

-----------------------------------------------------------------------------
\* No call of any process, in any interleaving with the others, reaches a
\* freed context, the place of an unplugged device or a NULL pointer.
NoFault == ~fault

\* The mutex user_lock keeps the CTR keystream of a context to one device: two
\* devices never hold the same context (use_ctx).
ExclusiveUse ==
    \A d, e \in plugged : ref[d] # NULL /\ ref[d] = ref[e] => d = e

\* priv_pid_death_action leaves nothing behind: once a process is gone every
\* context it ever allocated has been removed and its memory freed.
DeadLeaveNothing ==
    \A p \in Proc, c \in Ctx :
        pc[p] = "gone" /\ alloc_pid[c] = p => c \notin ctx_list /\ c \in freed

\* The death of a process is not held up for ever by others that hold or want
\* the list lock (priv_pid_death_action runs first in do_exit).
DeathCompletes == \A p \in Proc : pc[p] = "exit" ~> pc[p] = "gone"

-----------------------------------------------------------------------------
(* The inductive invariant behind NoFault, ExclusiveUse, DeadLeaveNothing    *)
(* and KeepsPromise.  "Storing" is a use_ctx in progress, "removing" a       *)
(* __remove_ctx; a removal with l_file NULL is that of a dying process.      *)

Storing == {"find", "trylock", "publish"}
Removing == {"remove", "unref", "clear", "unlink"}

ClaimType == claim \in [Dev -> Proc \cup {NULL}]

\* A place that holds a context and the context's user_ref point at each other.
PlaceInv ==
    \A d \in plugged : ref[d] # NULL =>
        /\ ref[d] \in ctx_list
        /\ user_ref[ref[d]] = d
        /\ user_lock[ref[d]] = 0
        /\ claim[d] = alloc_pid[ref[d]]
UserInv ==
    \A c \in Ctx : user_ref[c] # NULL =>
        \/ user_ref[c] \in plugged /\ ref[user_ref[c]] = c
        \/ \E p \in Proc : alloc_pid[c] = p /\ pc[p] = "clear" /\ l_cctx[p] = c

\* A process that writes an attribute has the device to itself and a context
\* of its own to put there.
StoringInv ==
    \A p \in Proc : pc[p] \in Storing =>
        /\ l_cctx[p] \in ctx_list
        /\ alloc_pid[l_cctx[p]] = p
        /\ l_dev[p] \in plugged
        /\ claim[l_dev[p]] = p
        /\ ref[l_dev[p]] = NULL
        /\ pc[p] = "publish" => user_lock[l_cctx[p]] = 0 /\ user_ref[l_cctx[p]] = NULL

\* A context is removed by the process that allocated it, once.
RemovingInv ==
    \A p \in Proc :
        /\ pc[p] \in Removing => l_cctx[p] \in ctx_list
        /\ pc[p] = "free" => l_cctx[p] \in Ctx \ (ctx_list \cup freed)
        /\ pc[p] \in Removing \cup {"free"} =>
              /\ alloc_pid[l_cctx[p]] = p
              /\ l_file[p] # NULL => private_data[l_file[p]] = l_cctx[p]
        /\ pc[p] = "remove" => l_file[p] # NULL
        /\ pc[p] = "unref" => user_ref[l_cctx[p]] # NULL
        /\ pc[p] = "clear" => \A d \in plugged : ref[d] # l_cctx[p]
        /\ pc[p] = "unlink" => user_ref[l_cctx[p]] = NULL

LocalsInv ==
    \A p \in Proc :
        /\ pc[p] \notin Storing => l_dev[p] = NULL
        /\ pc[p] \notin Removing \cup {"free"} => l_file[p] = NULL

\* Whoever is inside priv_pid_death_action or __remove_ctx holds the list lock.
LockInv ==
    \A p \in Proc :
        \/ pc[p] \in {"scan", "unref", "clear", "unlink"}
        \/ pc[p] = "free" /\ l_file[p] = NULL
        => list_lock = p

\* A context is on the list, or freed, or about to be freed by its process.
ListInv ==
    /\ ctx_list \cap freed = {}
    /\ \A c \in ctx_list \cup freed : alloc_pid[c] # NULL
    /\ \A c \in Ctx : alloc_pid[c] # NULL =>
          \/ c \in ctx_list \cup freed
          \/ pc[alloc_pid[c]] = "free" /\ l_cctx[alloc_pid[c]] = c
    /\ \A c \in ctx_list : pc[alloc_pid[c]] # "gone"

\* p is past the point in do_exit where its contexts go.
Dying(p) ==
    \/ pc[p] \in {"scan", "gone"}
    \/ pc[p] \in Removing \cup {"free"} /\ l_file[p] = NULL

\* Until its process dies a file holds a context on the list, or the one that
\* its own DESTROY is about to free; no two files hold the same context.
FileInv ==
    \A f \in File : private_data[f] # NULL =>
        LET c == private_data[f]
            p == alloc_pid[c]
        IN  /\ p # NULL
            /\ \/ Dying(p)
               \/ c \in ctx_list
               \/ pc[p] = "free" /\ l_file[p] = f
            /\ \A g \in File : private_data[g] = c => g = f

IInv ==
    /\ TypeOK
    /\ ClaimType
    /\ NoFault
    /\ PlaceInv
    /\ UserInv
    /\ StoringInv
    /\ RemovingInv
    /\ LocalsInv
    /\ LockInv
    /\ ListInv
    /\ FileInv

\* The driver so used keeps the promise of priv_crypt.h: see CtxService.
Svc == INSTANCE CtxService WITH
          created <- {c \in Ctx : alloc_pid[c] # NULL},
          live <- ctx_list,
          active <- activated,
          bind <- [d \in Dev |-> IF d \in plugged THEN ref[d] ELSE NULL]
KeepsPromise == Svc!SvcSpec
=============================================================================
