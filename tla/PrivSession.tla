----------------------------- MODULE PrivSession -----------------------------
(***************************************************************************)
(* How QEMU gets a cryptographic context: libprivcrypt (priv_crypt.c,      *)
(* kern_backend.c, polarssl_kex.c, aesni.c), the key exchange of the       *)
(* kernel (drivers/priv/kex.c, crypto_math_drv.c, the ioctls of            *)
(* priv_crypt_drv.c) and the two users of the library: sound               *)
(* (audio/alsaaudio.c, priv-util.c) and a USB device (priv-usb.c).         *)
(*                                                                         *)
(* A library context (struct priv_cctx) is allocated by priv_create_cctx   *)
(* and never freed.  Its backend is an open file of /dev/priv_crypt_ctl    *)
(* with, if all is well, a kernel context behind it.  The two sides agree  *)
(* on a key by Diffie-Hellman and the library sends its IV.                *)
(*                                                                         *)
(* QEMU's main loop is one thread: pc is where it is, cctx the context it  *)
(* works on and slot the variable it works for.  Every call that can fail  *)
(* (malloc, open, an ioctl, big number arithmetic) succeeds or fails.  An  *)
(* access to NULL, to freed or to uninitialized memory sets fault, and the *)
(* model says nothing about what follows.                                  *)
(***************************************************************************)
EXTENDS Naturals

CONSTANTS
    Cctx,       \* library contexts, taken in order
    Secret,     \* the exponents kernel_rng can give
    NULL

ASSUME SessAssumption ==
    /\ Cctx \subseteq Nat
    /\ NULL \notin Cctx \cup Secret

Slots == {"in", "out", "usb"}

\* The exponent of the library: null_rng always gives the same bytes.
UserSecret == "ones"

\* An exchange message carries g to the power of an exponent, named by it.
\* Either side raises what it gets to its own exponent and derives the key from
\* that with tls1_prf; the names of the two exponents stand for the key.
CalcSecret(x, gy) == {x} \cup {gy}
KernCalcSecret(gx, y) == {gx} \cup {y}

\* The key every kernel context starts with (setup_crypto_ctx).
TempKey == {"temporary"}

VARIABLES
    pc, slot, cctx,
    ptr,      \* Slots -> cctx_in, cctx_out and pud->cctx
    snd,      \* alsa_init_out has returned 0
    lib,      \* Cctx -> the library context
    kern,     \* Cctx -> the file and the kernel context behind its backend
    kex,      \* struct polarssl_kex_ctx, NULL when there is none
    kex_buf,  \* the message in do_kex's buffer
    key_buf,  \* the key in do_kex's buffer
    fault     \* "none", "user", or what went wrong in the kernel

kexVars == <<kex, kex_buf, key_buf>>
vars == <<pc, slot, cctx, ptr, snd, lib, kern, kexVars, fault>>

\* backend_ctx comes uninitialized from malloc.  The IV of c is named c.  left: the
\* keys that freed memory of QEMU still holds when c is done with them.
NewLib(d) == [dir |-> d, backend_ctx |-> "garbage", user_ctx |-> "live", key |-> {},
              left |-> {}]
NoLib == [NewLib(NULL) EXCEPT !.user_ctx = "none"]
NoKern == [fd |-> FALSE, ctx |-> "none", key |-> {}, iv |-> NULL, dir |-> NULL,
           activated |-> FALSE]

SessInit ==
    /\ pc = "idle" /\ slot = NULL /\ cctx = NULL
    /\ ptr = [s \in Slots |-> NULL]
    /\ snd = FALSE
    /\ lib = [c \in Cctx |-> NoLib]
    /\ kern = [c \in Cctx |-> NoKern]
    /\ kex = NULL /\ kex_buf = NULL /\ key_buf = {}
    /\ fault = "none"

At(place) == fault = "none" /\ pc = place
Goto(place) == pc' = place /\ UNCHANGED <<slot, cctx>>
Return == pc' = "idle" /\ slot' = NULL /\ cctx' = NULL

\* The program or the kernel does something undefined.
Fault(what) == fault' = what /\ UNCHANGED <<pc, slot, cctx, ptr, snd, lib, kern, kexVars>>

-----------------------------------------------------------------------------
(* priv_create_cctx and priv_destroy_cctx *)

\* setup_cctx_ops, aesni init, a random IV; priv_easy_create then sets the
\* direction of the output, which cannot fail.
CreateCctx(c) ==
    /\ At("create")
    /\ lib[c] = NoLib /\ \A b \in Cctx : b < c => lib[b] # NoLib
    /\ lib' = [lib EXCEPT ![c] = NewLib(IF slot = "out" THEN "dec" ELSE "enc")]
    /\ pc' = "open" /\ cctx' = c
    /\ UNCHANGED <<slot, ptr, snd, kern, kexVars, fault>>

\* No memory: the caller has no context to destroy.
CreateFails ==
    /\ At("create")
    /\ Goto("failed")
    /\ UNCHANGED <<ptr, snd, lib, kern, kexVars, fault>>

\* What memory that held k, or held no key yet, has when it is freed as it is.
Remains(k) == {k} \ {{}}

\* priv_aesni_destroy: the memset takes the size of the pointer, and all but the first
\* bytes of the expanded key are freed as they are.
UserDestroy(l) == [l EXCEPT !.user_ctx = "freed", !.left = @ \cup Remains(l.key)]

\* kern_destroy: DESTROY, close and free.
KernDestroy(k) == [k EXCEPT !.fd = FALSE, !.activated = FALSE,
                            !.ctx = IF @ = "live" THEN "freed" ELSE @]

\* priv_destroy_cctx(c), then place.  backend_ctx is not cleared; garbage may
\* happen to be NULL.
DestroyCctx(c, place) ==
    \/ /\ c # NULL
       /\ lib[c].user_ctx = "live" /\ lib[c].backend_ctx # "freed"
       /\ IF lib[c].backend_ctx = "live"
          THEN /\ kern' = [kern EXCEPT ![c] = KernDestroy(@)]
               /\ lib' = [lib EXCEPT ![c] = [UserDestroy(@) EXCEPT !.backend_ctx = "freed"]]
          ELSE /\ lib' = [lib EXCEPT ![c] = UserDestroy(@)]
               /\ UNCHANGED kern
       /\ Goto(place)
       /\ UNCHANGED <<ptr, snd, kexVars, fault>>
    \/ /\ \/ c = NULL
          \/ c # NULL /\ lib[c].backend_ctx \in {"garbage", "freed"}
          \/ c # NULL /\ lib[c].user_ctx = "freed"
       /\ Fault("user")

-----------------------------------------------------------------------------
(* priv_new_backend: kern_init, do_kex, set_iv *)

\* open of /dev/priv_crypt_ctl.
KernOpen ==
    /\ At("open")
    /\ kern' = [kern EXCEPT ![cctx].fd = TRUE]
    /\ Goto("new_ctx")
    /\ UNCHANGED <<ptr, snd, lib, kexVars, fault>>

\* malloc or open fails: backend_ctx is still what malloc left there.
KernOpenFails ==
    /\ At("open")
    /\ Goto("undo")
    /\ UNCHANGED <<ptr, snd, lib, kern, kexVars, fault>>

\* NEW_CTX: do_new_ctx, make_crypto_ctx with its temporary key.
KernNewCtx ==
    /\ At("new_ctx")
    /\ kern' = [kern EXCEPT ![cctx] = [@ EXCEPT !.ctx = "live", !.key = TempKey,
                                                !.dir = lib[cctx].dir]]
    /\ lib' = [lib EXCEPT ![cctx].backend_ctx = "live"]
    /\ Goto("kex_init")
    /\ UNCHANGED <<ptr, snd, kexVars, fault>>

\* NEW_CTX fails.  The id is unsigned: the test for a negative one is false.
KernNewCtxFails ==
    /\ At("new_ctx")
    /\ lib' = [lib EXCEPT ![cctx].backend_ctx = "live"]
    /\ Goto("kex_init")
    /\ UNCHANGED <<ptr, snd, kern, kexVars, fault>>

\* No memory for kex_buf: make_crypto_ctx frees the context and returns the 0 of
\* setup_crypto_ctx, and do_new_ctx goes on with a pointer that was never set.
KernNewCtxFaults == At("new_ctx") /\ Fault("no_buf")

\* polarssl_init.  dhm is the shared secret among the big numbers of dhm_ctx, named
\* like the key that is derived from it.
KexInit ==
    /\ At("kex_init")
    /\ kex' = [state |-> "START", key |-> {}, dhm |-> {}]
    /\ Goto("process")
    /\ UNCHANGED <<ptr, snd, lib, kern, kex_buf, key_buf, fault>>

KexInitFails ==
    /\ At("kex_init")
    /\ Goto("out_destroy")
    /\ UNCHANGED <<ptr, snd, lib, kern, kexVars, fault>>

\* A bug: the exchange forgets that it has sent its parameters.
ProcessStartAgain ==
    /\ At("process") /\ kex.state = "START"
    /\ kex_buf' = [type |-> "PARAMS", exp |-> UserSecret]
    /\ Goto("send")
    /\ UNCHANGED <<ptr, snd, lib, kern, kex, key_buf, fault>>

\* polarssl_process_msg in KEX_START.
ProcessStart ==
    /\ At("process") /\ kex.state = "START"
    /\ kex_buf' = [type |-> "PARAMS", exp |-> UserSecret]
    /\ kex' = [kex EXCEPT !.state = "INIT_SENT"]
    /\ Goto("send")
    /\ UNCHANGED <<ptr, snd, lib, kern, key_buf, fault>>

\* A bug: the response is taken for both halves of the secret.
ProcessResponseTwice ==
    /\ At("process") /\ kex.state = "INIT_SENT" /\ kex_buf.type = "RESPONSE"
    /\ kex' = [kex EXCEPT !.state = "DONE", !.key = CalcSecret(kex_buf.exp, kex_buf.exp)]
    /\ Goto("get_key")
    /\ UNCHANGED <<ptr, snd, lib, kern, kex_buf, key_buf, fault>>

\* And in KEX_INIT_SENT: dhm_read_public, calc_pre_secret, calc_secret.
ProcessResponse ==
    /\ At("process") /\ kex.state = "INIT_SENT" /\ kex_buf.type = "RESPONSE"
    /\ LET k == CalcSecret(UserSecret, kex_buf.exp)
       IN  kex' = [state |-> "DONE", key |-> k, dhm |-> k]
    /\ Goto("get_key")
    /\ UNCHANGED <<ptr, snd, lib, kern, kex_buf, key_buf, fault>>

\* Big number arithmetic fails in either state, or calc_secret does when the shared
\* secret is there.
ProcessFails ==
    /\ At("process")
    /\ \/ UNCHANGED kex
       \/ /\ kex.state = "INIT_SENT" /\ kex_buf.type = "RESPONSE"
          /\ kex' = [kex EXCEPT !.dhm = CalcSecret(UserSecret, kex_buf.exp)]
    /\ Goto("kex_failed")
    /\ UNCHANGED <<ptr, snd, lib, kern, kex_buf, key_buf, fault>>

\* KEY_EXCHANGE: process_kex_msg makes its exponent, derives and sets the key
\* and answers.  do_kex of the kernel does not test for a NULL context.
SendKexMsg(y) ==
    /\ At("send") /\ kern[cctx].ctx = "live" /\ kex_buf.type = "PARAMS"
    /\ kern' = [kern EXCEPT ![cctx].key = KernCalcSecret(kex_buf.exp, y)]
    /\ \/ kex_buf' = [type |-> "RESPONSE", exp |-> y] /\ Goto("process")
       \/ UNCHANGED kex_buf /\ Goto("kex_failed")       \* copy_to_user fails
    /\ UNCHANGED <<ptr, snd, lib, kex, key_buf, fault>>

\* An error of init, respond, get_key or set_key, before the key is in use.
SendKexMsgFails ==
    /\ At("send") /\ kern[cctx].ctx = "live"
    /\ Goto("kex_failed")
    /\ UNCHANGED <<ptr, snd, lib, kern, kexVars, fault>>

\* cctx->kex_buf with cctx NULL; symbol_put of a symbol that was not found.
SendKexMsgFaults ==
    /\ At("send")
    /\ \/ kern[cctx].ctx # "live" /\ Fault("no_ctx")
       \/ kern[cctx].ctx = "live" /\ Fault("no_ops")

\* polarssl_get_key.
KexGetKey ==
    /\ At("get_key")
    /\ key_buf' = kex.key
    /\ Goto("kex_done")
    /\ UNCHANGED <<ptr, snd, lib, kern, kex, kex_buf, fault>>

\* A bug: an exchange that fails returns without polarssl_destroy.
KexEndLeak(ok) ==
    /\ At(IF ok THEN "kex_done" ELSE "kex_failed")
    /\ kex' = (IF ok THEN NULL ELSE kex)
    /\ kex_buf' = NULL /\ key_buf' = {}
    /\ lib' = [lib EXCEPT ![cctx].key = IF ok THEN key_buf ELSE @]
    /\ Goto(IF ok THEN "set_iv" ELSE "out_destroy")
    /\ UNCHANGED <<ptr, snd, kern, fault>>

\* The library context with the key it has after the exchange.
AfterKex(l, key) == [l EXCEPT !.key = key, !.left = @ \cup Remains(kex.dhm)]

\* The end of do_kex: polarssl_destroy, which clears its copy of the key and not the
\* big numbers, set_key (16 bytes: it cannot fail) and the two memset's.
KexEnd(ok) ==
    /\ At(IF ok THEN "kex_done" ELSE "kex_failed")
    /\ kex' = NULL
    /\ kex_buf' = NULL /\ key_buf' = {}
    /\ lib' = [lib EXCEPT ![cctx] = AfterKex(@, IF ok THEN key_buf ELSE lib[cctx].key)]
    /\ Goto(IF ok THEN "set_iv" ELSE "out_destroy")
    /\ UNCHANGED <<ptr, snd, kern, fault>>

\* A bug: the IV of the library is not sent.
KernSetIvSkip ==
    /\ At("set_iv")
    /\ Goto("created")
    /\ UNCHANGED <<ptr, snd, lib, kern, kexVars, fault>>

\* SET_IV: do_set_iv, priv_set_iv.
KernSetIv ==
    /\ At("set_iv")
    /\ kern' = [kern EXCEPT ![cctx].iv = cctx]
    /\ Goto("created")
    /\ UNCHANGED <<ptr, snd, lib, kexVars, fault>>

KernSetIvFails ==
    /\ At("set_iv")
    /\ Goto("out_destroy")
    /\ UNCHANGED <<ptr, snd, lib, kern, kexVars, fault>>

\* A bug: the backend is forgotten, not destroyed.
OutDestroyForget ==
    /\ At("out_destroy")
    /\ lib' = [lib EXCEPT ![cctx].backend_ctx = "null"]
    /\ Goto("undo")
    /\ UNCHANGED <<ptr, snd, kern, kexVars, fault>>

\* out_destroy of priv_new_backend.
OutDestroy ==
    /\ At("out_destroy")
    /\ kern' = [kern EXCEPT ![cctx] = KernDestroy(@)]
    /\ lib' = [lib EXCEPT ![cctx].backend_ctx = "null"]
    /\ Goto("undo")
    /\ UNCHANGED <<ptr, snd, kexVars, fault>>

\* out_destroy of priv_easy_create and of usb_crypt_setup.
Undo == At("undo") /\ DestroyCctx(cctx, "failed")

-----------------------------------------------------------------------------
(* Sound: alsa_init_out with priv_sound_init, and alsa_fini_out. *)

SoundInit ==
    /\ At("idle") /\ ~snd
    /\ pc' = "create" /\ slot' = "in" /\ cctx' = NULL
    /\ UNCHANGED <<ptr, snd, lib, kern, kexVars, fault>>

\* priv_easy_create stores its result; the output follows the input.
EasyCreated ==
    /\ At("created") /\ slot \in {"in", "out"}
    /\ ptr' = [ptr EXCEPT ![slot] = cctx]
    /\ cctx' = NULL
    /\ IF slot = "in" THEN pc' = "create" /\ slot' = "out"
                      ELSE pc' = "activate" /\ UNCHANGED slot
    /\ UNCHANGED <<snd, lib, kern, kexVars, fault>>

\* The input fails: out.  The output fails: outd, which destroys both.
SoundFails ==
    /\ At("failed") /\ slot \in {"in", "out"}
    /\ IF slot = "in" THEN Return ELSE Goto("outd_in")
    /\ UNCHANGED <<ptr, snd, lib, kern, kexVars, fault>>

OutdIn == At("outd_in") /\ DestroyCctx(ptr["in"], "outd_out")
OutdOut == At("outd_out") /\ DestroyCctx(ptr["out"], "outd_clear")
OutdClear ==
    /\ At("outd_clear")
    /\ ptr' = [ptr EXCEPT !["in"] = NULL, !["out"] = NULL]
    /\ Return
    /\ UNCHANGED <<snd, lib, kern, kexVars, fault>>

\* ACTIVATE on both files, which have a context.
SoundActivate ==
    /\ At("activate")
    /\ kern' = [c \in Cctx |-> IF c \in {ptr["in"], ptr["out"]}
                               THEN [kern[c] EXCEPT !.activated = TRUE] ELSE kern[c]]
    /\ Goto("register")
    /\ UNCHANGED <<ptr, snd, lib, kexVars, fault>>

\* The rest of alsa_init_out: the privsound files and the sound card.  When it
\* fails it returns at once, and the contexts stay.
SoundRegister(ok) ==
    /\ At("register")
    /\ snd' = ok
    /\ Return
    /\ UNCHANGED <<ptr, lib, kern, kexVars, fault>>

SoundFini ==
    /\ At("idle") /\ snd
    /\ snd' = FALSE
    /\ Goto("fini_in")
    /\ UNCHANGED <<ptr, lib, kern, kexVars, fault>>
FiniIn == At("fini_in") /\ DestroyCctx(ptr["in"], "fini_out")
FiniOut == At("fini_out") /\ DestroyCctx(ptr["out"], "idle")

-----------------------------------------------------------------------------
(* A USB device: usb_crypt_setup while the options are parsed, then          *)
(* usb_dev_connect, usb_dev_disconnect and usb_dev_free.                     *)

UsbSetup ==
    /\ At("idle") /\ \A s \in Slots : ptr[s] = NULL
    /\ pc' = "create" /\ slot' = "usb" /\ cctx' = NULL
    /\ UNCHANGED <<ptr, snd, lib, kern, kexVars, fault>>

\* The id is written to crypt_ctx_id.
UsbAttach ==
    /\ At("created") /\ slot = "usb"
    /\ ptr' = [ptr EXCEPT !["usb"] = cctx]
    /\ Return
    /\ UNCHANGED <<snd, lib, kern, kexVars, fault>>

\* The device has no name, or the attribute cannot be opened.
UsbNoDevice ==
    /\ At("created") /\ slot = "usb"
    /\ Goto("undo")
    /\ UNCHANGED <<ptr, snd, lib, kern, kexVars, fault>>

\* The write fails: the context is destroyed, and usb_crypt_setup returns the
\* 0 of get_dev_name.
UsbWriteFails ==
    /\ At("created") /\ slot = "usb"
    /\ ptr' = [ptr EXCEPT !["usb"] = cctx]
    /\ kern' = [kern EXCEPT ![cctx] = KernDestroy(@)]
    /\ lib' = [lib EXCEPT ![cctx] = [UserDestroy(@) EXCEPT !.backend_ctx = "freed"]]
    /\ Return
    /\ UNCHANGED <<snd, kexVars, fault>>

\* priv_activate and priv_deactivate.
UsbActivation(on) ==
    /\ At("idle") /\ ptr["usb"] # NULL
    /\ IF lib[ptr["usb"]].backend_ctx = "live"
       THEN /\ kern' = [kern EXCEPT ![ptr["usb"]].activated = on]
            /\ UNCHANGED <<pc, slot, cctx, ptr, snd, lib, kexVars, fault>>
       ELSE Fault("user")

\* QEMU exits: main gives up after UsbFails, or it is told to.
UsbFails ==
    /\ At("failed") /\ slot = "usb"
    /\ Goto("die")
    /\ UNCHANGED <<ptr, snd, lib, kern, kexVars, fault>>
Exit ==
    /\ At("idle") /\ ~snd
    /\ IF ptr["usb"] = NULL
       THEN Goto("die") /\ UNCHANGED <<ptr, snd, lib, kern, kexVars, fault>>
       ELSE DestroyCctx(ptr["usb"], "die")

\* do_exit: priv_pid_death_action destroys what is left.
Die ==
    /\ At("die")
    /\ kern' = [c \in Cctx |-> KernDestroy(kern[c])]
    /\ Goto("dead")
    /\ UNCHANGED <<ptr, snd, lib, kexVars, fault>>

\* QEMU is killed.
Kill ==
    /\ fault = "none" /\ pc \notin {"die", "dead"}
    /\ Goto("die")
    /\ UNCHANGED <<ptr, snd, lib, kern, kexVars, fault>>

-----------------------------------------------------------------------------

\* A step inside a call of the library or of its users.
Continue ==
    \/ \E c \in Cctx : CreateCctx(c)
    \/ CreateFails
    \/ KernOpen \/ KernOpenFails
    \/ KernNewCtx \/ KernNewCtxFails \/ KernNewCtxFaults
    \/ KexInit \/ KexInitFails
    \/ ProcessStart \/ ProcessResponse \/ ProcessFails
    \/ \E y \in Secret : SendKexMsg(y)
    \/ SendKexMsgFails \/ SendKexMsgFaults
    \/ KexGetKey
    \/ \E ok \in BOOLEAN : KexEnd(ok)
    \/ KernSetIv \/ KernSetIvFails
    \/ OutDestroy \/ Undo
    \/ EasyCreated \/ SoundFails \/ OutdIn \/ OutdOut \/ OutdClear
    \/ SoundActivate
    \/ \E ok \in BOOLEAN : SoundRegister(ok)
    \/ FiniIn \/ FiniOut
    \/ UsbAttach \/ UsbNoDevice \/ UsbWriteFails \/ UsbFails
    \/ Die

\* What starts a call, or ends the process.
Begin ==
    \/ SoundInit \/ SoundFini
    \/ UsbSetup \/ Exit
    \/ \E on \in BOOLEAN : UsbActivation(on)
    \/ Kill

SessNext == Continue \/ Begin

\* The calls of QEMU go on until they return.
SessSpec == SessInit /\ [][SessNext]_vars /\ WF_vars(Continue)

-----------------------------------------------------------------------------
(* Properties *)

Places == {"idle", "create", "open", "new_ctx", "kex_init", "process", "send",
           "get_key", "kex_done", "kex_failed", "set_iv", "out_destroy", "undo",
           "created", "failed", "outd_in", "outd_out", "outd_clear", "activate",
           "register", "fini_in", "fini_out", "die", "dead"}
Keys == {TempKey, {}} \cup {CalcSecret(UserSecret, y) : y \in Secret}

\* The variables have their types, and the slot and the context of the call in
\* progress are there exactly when it has them.
SessTypeOK ==
    /\ pc \in Places /\ slot \in Slots \cup {NULL} /\ cctx \in Cctx \cup {NULL}
    /\ ptr \in [Slots -> Cctx \cup {NULL}]
    /\ snd \in BOOLEAN
    /\ lib \in [Cctx -> [dir : {"enc", "dec", NULL},
                         backend_ctx : {"garbage", "null", "live", "freed"},
                         user_ctx : {"none", "live", "freed"},
                         key : Keys \ {TempKey}, left : SUBSET (Keys \ {TempKey})]]
    /\ kern \in [Cctx -> [fd : BOOLEAN, ctx : {"none", "live", "freed"}, key : Keys,
                          iv : Cctx \cup {NULL}, dir : {"enc", "dec", NULL},
                          activated : BOOLEAN]]
    /\ kex = NULL \/ kex \in [state : {"START", "INIT_SENT", "DONE"},
                              key : Keys, dhm : Keys]
    /\ kex_buf = NULL \/ kex_buf \in [type : {"PARAMS", "RESPONSE"},
                                      exp : {UserSecret} \cup Secret]
    /\ key_buf \in Keys
    /\ fault \in {"none", "user", "no_ctx", "no_ops", "no_buf"}
    /\ pc = "idle" => slot = NULL /\ cctx = NULL

\* A kernel context that is activated (do_set_activated) has the key, the IV and
\* the direction of its library context: whatever failed and was tried again on
\* the way, data is never encrypted under the temporary key of setup_crypto_ctx,
\* nor under one that QEMU does not have.
KeyAgreement ==
    \A c \in Cctx :
        kern[c].activated =>
            /\ kern[c].ctx = "live"
            /\ kern[c].key = lib[c].key /\ kern[c].key \notin {TempKey, {}}
            /\ kern[c].iv = c /\ kern[c].dir = lib[c].dir

\* A file and a kernel context exist only while the library can reach them
\* through backend_ctx: every error path of kern_init, do_kex and
\* priv_new_backend and every destruction closes the one and destroys the other.
NoOrphan ==
    \A c \in Cctx :
        (kern[c].fd \/ kern[c].ctx = "live") =>
            \/ lib[c].backend_ctx = "live"
            \/ cctx = c /\ pc \in {"new_ctx", "die"}

\* do_kex leaves no exchange and nothing in its two buffers, also when the exchange or
\* the callers failed.  Copies of a key do stay in memory that polarssl_destroy and
\* priv_aesni_destroy free: they are of the one key that the context has agreed on with
\* the kernel, none of an exchange that ended before the kernel had derived its key.
OnlyAgreedKeyStays ==
    /\ pc \notin {"process", "send", "get_key", "kex_done", "kex_failed", "die", "dead"} =>
           kex = NULL /\ kex_buf = NULL /\ key_buf = {}
    /\ \A c \in Cctx : lib[c].left \subseteq {kern[c].key} \ {TempKey}

\* Every setup and every destruction ends: the loop of do_kex between the two
\* state machines is left, and no error path leads back into it.
SetupEnds == pc # "idle" ~> (pc \in {"idle", "dead"} \/ fault # "none")
=============================================================================
