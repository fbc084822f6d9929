----------------------------- MODULE CtxService ------------------------------
(***************************************************************************)
(* What the crypto subsystem promises to the drivers that use it (the      *)
(* comment in include/linux/priv_crypt.h): a driver gives a place for a    *)
(* context, the place holds a context that exists, no other place holds    *)
(* it, and the place is emptied before the context goes away.  PrivCrypt,  *)
(* used as QEMU uses it, implements this; PrivUsb builds on it.            *)
(***************************************************************************)
CONSTANTS Ctx, Dev, NULL

VARIABLES
    created,  \* contexts whose id has been given out
    live,     \* contexts that can be found by id
    active,   \* Ctx -> BOOLEAN, as set by ACTIVATE and DEACTIVATE
    bind      \* Dev -> the context in the device's place

svcVars == <<created, live, active, bind>>

SvcInit ==
    /\ created = {}
    /\ live = {}
    /\ active = [c \in Ctx |-> FALSE]
    /\ bind = [d \in Dev |-> NULL]

\* An id is given out once.
Create(c) ==
    /\ c \notin created
    /\ created' = created \cup {c}
    /\ live' = live \cup {c}
    /\ UNCHANGED <<active, bind>>

Toggle(c, on) ==
    /\ c \in live
    /\ active' = [active EXCEPT ![c] = on]
    /\ UNCHANGED <<created, live, bind>>

\* A context serves one place at a time.
Bind(d, c) ==
    /\ c \in live
    /\ bind[d] = NULL
    /\ \A e \in Dev : bind[e] # c
    /\ bind' = [bind EXCEPT ![d] = c]
    /\ UNCHANGED <<created, live, active>>

Unbind(d) ==
    /\ bind[d] # NULL
    /\ bind' = [bind EXCEPT ![d] = NULL]
    /\ UNCHANGED <<created, live, active>>

\* A context goes away only when no place holds it.
RemoveCtx(c) ==
    /\ c \in live
    /\ \A d \in Dev : bind[d] # c
    /\ live' = live \ {c}
    /\ UNCHANGED <<created, active, bind>>

SvcNext ==
    \/ \E c \in Ctx : Create(c) \/ RemoveCtx(c)
    \/ \E c \in Ctx, on \in BOOLEAN : Toggle(c, on)
    \/ \E d \in Dev, c \in Ctx : Bind(d, c)
    \/ \E d \in Dev : Unbind(d)

SvcSpec == SvcInit /\ [][SvcNext]_svcVars
=============================================================================
