-------------------------- MODULE PrivSessionProofs --------------------------
(***************************************************************************)
(* Proofs about PrivSession, for any library contexts and any exponents of *)
(* the kernel.  A context whose backend the library can reach has the key, *)
(* the IV and the direction of its kernel context, unless it is the one    *)
(* that is being set up (ReadyInv); what is known of that one depends on   *)
(* how far the setup is (SetupInv).                                        *)
(***************************************************************************)
EXTENDS PrivSession, TLAPS

\* Where a context is being set up, and where its backend has been stored.
Exchanging == {"process", "send", "get_key", "kex_done", "kex_failed"}
Backed == {"kex_init", "set_iv", "out_destroy"} \cup Exchanging
Setup == {"open", "new_ctx", "undo", "created"} \cup Backed

\* The keys that an exchange can give.
Good == {CalcSecret(UserSecret, y) : y \in Secret}

\* Both sides agree.
Alike(c) == kern[c].ctx = "live" /\ kern[c].key = lib[c].key /\ kern[c].key \in Good
Ready(c) == Alike(c) /\ kern[c].iv = c /\ kern[c].dir = lib[c].dir

\* The records of the state.
LibType == [dir : {"enc", "dec", NULL}, backend_ctx : {"garbage", "null", "live", "freed"},
            user_ctx : {"none", "live", "freed"}, key : Keys \ {TempKey},
            left : SUBSET (Keys \ {TempKey})]
KernType == [fd : BOOLEAN, ctx : {"none", "live", "freed"}, key : Keys, iv : Cctx \cup {NULL},
             dir : {"enc", "dec", NULL}, activated : BOOLEAN]
KexType == [state : {"START", "INIT_SENT", "DONE"}, key : Keys, dhm : Keys]
BufType == [type : {"PARAMS", "RESPONSE"}, exp : {UserSecret} \cup Secret]

\* The call in progress knows its slot and its context.
PlaceInv ==
    /\ pc \in {"idle", "fini_in", "fini_out"} => slot = NULL /\ cctx = NULL
    /\ pc \in Setup \cup {"create", "failed"} => slot \in Slots
    /\ pc \in Setup => cctx \in Cctx

\* The direction is set with the context; whatever can be reached is ready, unless
\* it is being set up or QEMU dies; only what is ready is activated.
ReadyInv ==
    \A c \in Cctx :
        /\ kern[c].ctx = "live" => kern[c].dir = lib[c].dir
        /\ lib[c].backend_ctx = "live" =>
              Ready(c) \/ (cctx = c /\ pc \in Backed) \/ pc \in {"die", "dead"}
        /\ kern[c].activated => Ready(c)

\* How far the setup of the context is.
SetupInv ==
    /\ pc \in {"open", "new_ctx"} =>
          kern[cctx].ctx # "live" /\ lib[cctx].backend_ctx = "garbage"
    /\ pc \in Backed \cup {"created"} => lib[cctx].backend_ctx = "live"
    /\ pc \in Setup => ~kern[cctx].activated
    /\ pc = "set_iv" => Alike(cctx)

\* The input's context is there while the output's is set up, and both are when
\* they are activated.
SoundInv ==
    /\ slot = "out" /\ pc \in Setup \cup {"create"} =>
          /\ ptr["in"] \in Cctx /\ lib[ptr["in"]].backend_ctx = "live"
          /\ pc \in Setup => ptr["in"] # cctx
    /\ pc = "activate" =>
          \A s \in {"in", "out"} : ptr[s] \in Cctx /\ lib[ptr[s]].backend_ctx = "live"

\* How far the exchange is.
KexInv ==
    /\ pc = "process" =>
          \/ kex = [state |-> "START", key |-> {}, dhm |-> {}] /\ kex_buf = NULL
          \/ /\ kex = [state |-> "INIT_SENT", key |-> {}, dhm |-> {}]
             /\ kern[cctx].ctx = "live"
             /\ \E y \in Secret : /\ kex_buf = [type |-> "RESPONSE", exp |-> y]
                                  /\ kern[cctx].key = CalcSecret(UserSecret, y)
    /\ pc = "send" => /\ kex = [state |-> "INIT_SENT", key |-> {}, dhm |-> {}]
                      /\ kex_buf = [type |-> "PARAMS", exp |-> UserSecret]
    /\ pc = "get_key" =>
          /\ kern[cctx].ctx = "live" /\ kern[cctx].key \in Good
          /\ kex = [state |-> "DONE", key |-> kern[cctx].key, dhm |-> kern[cctx].key]
    /\ pc = "kex_done" =>
          kern[cctx].ctx = "live" /\ kern[cctx].key \in Good /\ key_buf = kern[cctx].key
    /\ pc \in {"kex_done", "kex_failed"} =>
          kex \in KexType /\ kex.dhm \in {{}} \cup (Good \cap {kern[cctx].key})

\* Outside do_kex there is no exchange, and its buffers are erased.
BufferInv ==
    pc \notin Exchanging \cup {"die", "dead"} => kex = NULL /\ kex_buf = NULL /\ key_buf = {}

SessInv ==
    /\ SessTypeOK /\ PlaceInv /\ ReadyInv /\ SetupInv /\ SoundInv /\ KexInv
    /\ NoOrphan /\ BufferInv
-----------------------------------------------------------------------------
\* The keys of an exchange are neither the temporary key nor none.
LEMMA GoodKeys ==
    /\ Good \subseteq Keys \ {TempKey, {}}
    /\ \A y \in Secret : KernCalcSecret(UserSecret, y) \in Good
<1>1. \A y \in Secret : CalcSecret(UserSecret, y) # TempKey /\ CalcSecret(UserSecret, y) # {}
  BY DEF CalcSecret, UserSecret, TempKey
<1> QED BY <1>1 DEF Good, Keys, CalcSecret, KernCalcSecret

\* The records of a step that only goes on, or changes what it is said to change.
LEMMA SessTypes ==
    ASSUME SessTypeOK, pc' \in Places, slot' \in Slots \cup {NULL}, cctx' \in Cctx \cup {NULL},
           ptr' \in [Slots -> Cctx \cup {NULL}], snd' \in BOOLEAN,
           lib' \in [Cctx -> LibType], kern' \in [Cctx -> KernType],
           kex' = NULL \/ kex' \in KexType, kex_buf' = NULL \/ kex_buf' \in BufType,
           key_buf' \in Keys, fault' \in {"none", "user", "no_ctx", "no_ops", "no_buf"},
           pc' = "idle" => slot' = NULL /\ cctx' = NULL
    PROVE  SessTypeOK'
BY DEF SessTypeOK, LibType, KernType, KexType, BufType

LEMMA RecordTypes ==
    ASSUME SessTypeOK
    PROVE  /\ lib \in [Cctx -> LibType] /\ kern \in [Cctx -> KernType]
           /\ kex = NULL \/ kex \in KexType
           /\ kex_buf = NULL \/ kex_buf \in BufType
BY DEF SessTypeOK, LibType, KernType, KexType, BufType

LEMMA Messages ==
    /\ \A st \in {"START", "INIT_SENT", "DONE"}, k \in Keys, x \in Keys :
           [state |-> st, key |-> k, dhm |-> x] \in KexType
    /\ [type |-> "PARAMS", exp |-> UserSecret] \in BufType
    /\ \A y \in Secret : [type |-> "RESPONSE", exp |-> y] \in BufType
    /\ {} \in Keys /\ TempKey \in Keys
BY DEF KexType, BufType, Keys

LEMMA KernUpdates ==
    ASSUME NEW k \in KernType
    PROVE  /\ [k EXCEPT !.fd = TRUE] \in KernType
           /\ [k EXCEPT !.activated = TRUE] \in KernType
           /\ \A d \in {"enc", "dec", NULL} :
                 [k EXCEPT !.ctx = "live", !.key = TempKey, !.dir = d] \in KernType
BY Messages DEF KernType

\* What kern_destroy leaves.
LEMMA Destroyed ==
    ASSUME NEW k \in KernType
    PROVE  /\ KernDestroy(k) \in KernType
           /\ ~KernDestroy(k).fd /\ ~KernDestroy(k).activated /\ KernDestroy(k).ctx # "live"
BY DEF KernType, KernDestroy

\* The library's part of a destruction keeps all but the state.
LEMMA UserDestroyed ==
    ASSUME NEW l \in LibType
    PROVE  /\ UserDestroy(l) \in LibType /\ UserDestroy(l).backend_ctx = l.backend_ctx
           /\ UserDestroy(l).key = l.key /\ UserDestroy(l).dir = l.dir
           /\ [UserDestroy(l) EXCEPT !.backend_ctx = "freed"] \in LibType
           /\ [UserDestroy(l) EXCEPT !.backend_ctx = "freed"].backend_ctx = "freed"
BY DEF LibType, UserDestroy, Remains

LEMMA NewContexts ==
    ASSUME NEW d \in {"enc", "dec"}
    PROVE  NewLib(d) \in LibType /\ NewLib(d).backend_ctx = "garbage" /\ NoLib.backend_ctx = "garbage"
BY DEF NewLib, NoLib, LibType, Keys, TempKey

\* Before the kernel has answered, and before the answer is used.
LEMMA NoSecretYet ==
    ASSUME KexInv, pc \in {"process", "send"}
    PROVE  kex \in KexType /\ kex.dhm = {}
<1>1. PICK st \in {"START", "INIT_SENT"} : kex = [state |-> st, key |-> {}, dhm |-> {}]
  BY DEF KexInv
<1> QED BY <1>1, Messages

\* Steps that change no context and no exchange: calls begin, fail and return.
LEMMA CallKeeps ==
    ASSUME SessInv,
           \/ CreateFails \/ KernOpenFails \/ KernNewCtxFaults \/ KexInitFails
           \/ SendKexMsgFails \/ SendKexMsgFaults \/ SoundInit \/ SoundFails \/ OutdClear
           \/ EasyCreated \/ SoundFini \/ UsbSetup \/ UsbAttach \/ UsbNoDevice \/ UsbFails \/ Kill
    PROVE  SessInv'
<1> USE DEF SessInv, PlaceInv, ReadyInv, SetupInv, SoundInv, KexInv, NoOrphan, BufferInv,
           Setup, Backed, Exchanging, Ready, Alike, At, Goto, Return, Fault, Slots, Places,
           SessTypeOK, kexVars
<1>1. CASE CreateFails
  BY <1>1 DEF CreateFails
<1>2. CASE KernOpenFails
  BY <1>2 DEF KernOpenFails
<1>3. CASE KernNewCtxFaults
  BY <1>3 DEF KernNewCtxFaults
<1>4. CASE KexInitFails
  BY <1>4 DEF KexInitFails
<1>6. CASE SendKexMsgFails
  <2>1. kex \in KexType /\ kex.dhm = {}
    BY <1>6, NoSecretYet DEF SendKexMsgFails
  <2> QED BY <1>6, <2>1 DEF SendKexMsgFails
<1>7. CASE SendKexMsgFaults
  BY <1>7 DEF SendKexMsgFaults
<1>8. CASE SoundInit
  BY <1>8 DEF SoundInit
<1>9. CASE EasyCreated
  BY <1>9 DEF EasyCreated
<1>10. CASE SoundFails
  BY <1>10 DEF SoundFails
<1>11. CASE OutdClear
  BY <1>11 DEF OutdClear
<1>12. CASE SoundFini
  <2>1. /\ pc = "idle" /\ pc' = "fini_in" /\ snd' = FALSE
        /\ UNCHANGED <<slot, cctx, ptr, lib, kern, kexVars, fault>>
    BY <1>12 DEF SoundFini
  <2>2. SessTypeOK'
    BY <2>1
  <2>3. PlaceInv' /\ SetupInv' /\ SoundInv' /\ KexInv'
    BY <2>1
  <2>4. ReadyInv'
    BY <2>1
  <2>5. NoOrphan' /\ BufferInv'
    BY <2>1
  <2> QED BY <2>2, <2>3, <2>4, <2>5
<1>13. CASE UsbSetup
  BY <1>13 DEF UsbSetup
<1>14. CASE UsbAttach
  BY <1>14 DEF UsbAttach
<1>15. CASE UsbNoDevice
  BY <1>15 DEF UsbNoDevice
<1>16. CASE UsbFails
  BY <1>16 DEF UsbFails
<1>17. CASE Kill
  BY <1>17 DEF Kill
<1> QED BY <1>1, <1>2, <1>3, <1>4, <1>6, <1>7, <1>8, <1>9, <1>10, <1>11, <1>12, <1>13, <1>14, <1>15, <1>16, <1>17
-----------------------------------------------------------------------------
(* The exchange. *)

LEMMA KexInitKeeps ==
    ASSUME SessInv, KexInit
    PROVE  SessInv'
<1> USE DEF SessInv, PlaceInv, ReadyInv, SetupInv, SoundInv, KexInv, NoOrphan, BufferInv,
           Setup, Backed, Exchanging, Ready, Alike, At, Goto, Return, Fault, Slots, kexVars
<1>1. SessTypeOK'
  <2>1. kex' \in KexType
    BY Messages DEF KexInit
  <2> QED BY <2>1, RecordTypes, SessTypes DEF KexInit, SessTypeOK, Places
<1>2. PlaceInv' /\ SetupInv' /\ SoundInv'
  BY DEF KexInit, SessTypeOK
<1>3. ReadyInv'
  BY DEF KexInit, SessTypeOK
<1>4. KexInv' /\ BufferInv'
  BY DEF KexInit, SessTypeOK
<1>5. NoOrphan'
  BY DEF KexInit, SessTypeOK
<1> QED BY <1>1, <1>2, <1>3, <1>4, <1>5

LEMMA ProcessStartKeeps ==
    ASSUME SessInv, ProcessStart
    PROVE  SessInv'
<1> USE DEF SessInv, PlaceInv, ReadyInv, SetupInv, SoundInv, KexInv, NoOrphan, BufferInv,
           Setup, Backed, Exchanging, Ready, Alike, At, Goto, Return, Fault, Slots, kexVars
<1>0. /\ kex = [state |-> "START", key |-> {}, dhm |-> {}]
      /\ kex' = [state |-> "INIT_SENT", key |-> {}, dhm |-> {}]
      /\ kex_buf' = [type |-> "PARAMS", exp |-> UserSecret]
  <2>1. kex = [state |-> "START", key |-> {}, dhm |-> {}]
    BY DEF ProcessStart
  <2> QED BY <2>1 DEF ProcessStart
<1>1. SessTypeOK'
  <2>1. kex' \in KexType /\ kex_buf' \in BufType
    BY <1>0, Messages
  <2> QED BY <2>1, RecordTypes, SessTypes DEF ProcessStart, SessTypeOK, Places
<1>2. PlaceInv' /\ SetupInv' /\ SoundInv'
  BY DEF ProcessStart, SessTypeOK
<1>3. ReadyInv'
  BY DEF ProcessStart, SessTypeOK
<1>4. KexInv' /\ BufferInv'
  BY <1>0 DEF ProcessStart, SessTypeOK
<1>5. NoOrphan'
  BY DEF ProcessStart, SessTypeOK
<1> QED BY <1>1, <1>2, <1>3, <1>4, <1>5

LEMMA ProcessResponseKeeps ==
    ASSUME SessInv, ProcessResponse
    PROVE  SessInv'
<1> USE DEF SessInv, PlaceInv, ReadyInv, SetupInv, SoundInv, KexInv, NoOrphan, BufferInv,
           Setup, Backed, Exchanging, Ready, Alike, At, Goto, Return, Fault, Slots, kexVars
<1>1. SessTypeOK'
  BY GoodKeys DEF ProcessResponse, SessTypeOK, Places
<1>2. PlaceInv' /\ SetupInv' /\ SoundInv'
  BY GoodKeys DEF ProcessResponse, SessTypeOK
<1>3. ReadyInv'
  BY GoodKeys DEF ProcessResponse, SessTypeOK
<1>4. KexInv' /\ BufferInv'
  <2>1. PICK y \in Secret : /\ kex_buf = [type |-> "RESPONSE", exp |-> y]
                            /\ kern[cctx].key = CalcSecret(UserSecret, y)
                            /\ kern[cctx].ctx = "live"
    BY DEF ProcessResponse
  <2>2. kern[cctx].key \in Good
    BY <2>1 DEF Good
  <2>3. kex' = [state |-> "DONE", key |-> kern[cctx].key, dhm |-> kern[cctx].key]
    BY <2>1 DEF ProcessResponse
  <2> QED BY <2>1, <2>2, <2>3 DEF ProcessResponse
<1>5. NoOrphan'
  BY GoodKeys DEF ProcessResponse, SessTypeOK
<1> QED BY <1>1, <1>2, <1>3, <1>4, <1>5

LEMMA ProcessFailsKeeps ==
    ASSUME SessInv, ProcessFails
    PROVE  SessInv'
<1> USE DEF SessInv, PlaceInv, ReadyInv, SetupInv, SoundInv, KexInv, NoOrphan, BufferInv,
           Setup, Backed, Exchanging, Ready, Alike, At, Goto, Return, Fault, Slots, kexVars
<1>0. /\ pc = "process" /\ pc' = "kex_failed" /\ kex \in KexType /\ kex.dhm = {}
      /\ UNCHANGED <<slot, cctx, ptr, snd, lib, kern, kex_buf, key_buf, fault>>
  BY NoSecretYet DEF ProcessFails
<1>1. kex' \in KexType /\ kex'.dhm \in {{}} \cup (Good \cap {kern[cctx].key})
  <2>1. CASE UNCHANGED kex
    BY <1>0, <2>1
  <2>2. CASE /\ kex.state = "INIT_SENT" /\ kex_buf.type = "RESPONSE"
             /\ kex' = [kex EXCEPT !.dhm = CalcSecret(UserSecret, kex_buf.exp)]
    <3>1. PICK y \in Secret : /\ kex = [state |-> "INIT_SENT", key |-> {}, dhm |-> {}]
                              /\ kex_buf = [type |-> "RESPONSE", exp |-> y]
                              /\ kern[cctx].key = CalcSecret(UserSecret, y)
      BY <1>0, <2>2
    <3>2. kern[cctx].key \in Good /\ kern[cctx].key \in Keys
      BY <3>1, GoodKeys DEF Good
    <3>3. kex' = [state |-> "INIT_SENT", key |-> {}, dhm |-> kern[cctx].key]
      BY <2>2, <3>1
    <3>4. kex' \in KexType /\ kex'.dhm = kern[cctx].key
      BY <3>2, <3>3, Messages
    <3> QED BY <3>2, <3>4
  <2> QED BY <2>1, <2>2 DEF ProcessFails
<1>2. SessTypeOK'
  BY <1>0, <1>1, RecordTypes, SessTypes DEF SessTypeOK, Places
<1>3. PlaceInv' /\ SetupInv' /\ SoundInv' /\ BufferInv'
  BY <1>0
<1>4. ReadyInv'
  BY <1>0
<1>5. KexInv'
  BY <1>0, <1>1
<1>6. NoOrphan'
  BY <1>0
<1> QED BY <1>2, <1>3, <1>4, <1>5, <1>6

LEMMA SendKexMsgKeeps ==
    ASSUME SessInv, NEW y \in Secret, SendKexMsg(y)
    PROVE  SessInv'
<1> USE DEF SessInv, PlaceInv, ReadyInv, SetupInv, SoundInv, KexInv, NoOrphan, BufferInv,
           Setup, Backed, Exchanging, Ready, Alike, At, Goto, Return, Fault, Slots, kexVars
<1>0. /\ kex = [state |-> "INIT_SENT", key |-> {}, dhm |-> {}] /\ kex' = kex
      /\ kex_buf.exp = UserSecret /\ cctx \in Cctx /\ kern[cctx].ctx = "live"
      /\ KernCalcSecret(UserSecret, y) = CalcSecret(UserSecret, y)
      /\ CalcSecret(UserSecret, y) \in Good
  BY DEF SendKexMsg, Good, CalcSecret, KernCalcSecret
<1>1. SessTypeOK'
  <2>1. CalcSecret(UserSecret, y) \in Keys
    BY DEF Keys
  <2>2. kern' \in [Cctx -> KernType]
    BY <1>0, <2>1, RecordTypes DEF SendKexMsg, KernType
  <2>3. kex_buf' = NULL \/ kex_buf' \in BufType
    BY RecordTypes, Messages DEF SendKexMsg
  <2> QED BY <2>2, <2>3, RecordTypes, SessTypes DEF SendKexMsg, SessTypeOK, Places
<1>2. PlaceInv' /\ SetupInv' /\ SoundInv'
  BY GoodKeys DEF SendKexMsg, SessTypeOK
<1>3. ReadyInv'
  BY GoodKeys DEF SendKexMsg, SessTypeOK
<1>4. KexInv' /\ BufferInv'
  <2>1. kern'[cctx].key = CalcSecret(UserSecret, y) /\ kern'[cctx].ctx = "live"
    BY <1>0 DEF SendKexMsg, SessTypeOK
  <2>2. CASE kex_buf' = [type |-> "RESPONSE", exp |-> y] /\ Goto("process")
    BY <1>0, <2>1, <2>2 DEF SendKexMsg
  <2>3. CASE UNCHANGED kex_buf /\ Goto("kex_failed")
    <3>1. kex \in KexType /\ kex.dhm = {}
      BY NoSecretYet DEF SendKexMsg
    <3> QED BY <1>0, <2>3, <3>1 DEF SendKexMsg
  <2> QED BY <2>2, <2>3 DEF SendKexMsg
<1>5. NoOrphan'
  BY GoodKeys DEF SendKexMsg, SessTypeOK
<1> QED BY <1>1, <1>2, <1>3, <1>4, <1>5

LEMMA KexGetKeyKeeps ==
    ASSUME SessInv, KexGetKey
    PROVE  SessInv'
<1> USE DEF SessInv, PlaceInv, ReadyInv, SetupInv, SoundInv, KexInv, NoOrphan, BufferInv,
           Setup, Backed, Exchanging, Ready, Alike, At, Goto, Return, Fault, Slots, kexVars
<1>1. SessTypeOK'
  BY GoodKeys DEF KexGetKey, SessTypeOK, Places
<1>2. PlaceInv' /\ SetupInv' /\ SoundInv'
  BY GoodKeys DEF KexGetKey, SessTypeOK
<1>3. ReadyInv'
  BY GoodKeys DEF KexGetKey, SessTypeOK
<1>4. KexInv' /\ BufferInv'
  <2>1. kern[cctx].key \in Good /\ kex = [state |-> "DONE", key |-> kern[cctx].key,
                                          dhm |-> kern[cctx].key]
    BY DEF KexGetKey
  <2>2. kex \in KexType /\ kex.key = kern[cctx].key /\ kex.dhm = kern[cctx].key
    BY <2>1, GoodKeys, Messages
  <2> QED BY <2>1, <2>2 DEF KexGetKey
<1>5. NoOrphan'
  BY GoodKeys DEF KexGetKey, SessTypeOK
<1> QED BY <1>1, <1>2, <1>3, <1>4, <1>5

LEMMA KexEndKeeps ==
    ASSUME SessInv, NEW ok \in BOOLEAN, KexEnd(ok)
    PROVE  SessInv'
<1> USE DEF SessInv, PlaceInv, ReadyInv, SetupInv, SoundInv, KexInv, NoOrphan, BufferInv,
           Setup, Backed, Exchanging, Ready, Alike, At, Goto, Return, Fault, Slots, kexVars
<1>0. /\ cctx \in Cctx /\ lib \in [Cctx -> LibType] /\ UNCHANGED <<ptr, snd, kern, fault, slot, cctx>>
      /\ pc' = IF ok THEN "set_iv" ELSE "out_destroy"
      /\ pc = IF ok THEN "kex_done" ELSE "kex_failed"
  BY RecordTypes DEF KexEnd
<1>k. PICK k : /\ lib' = [lib EXCEPT ![cctx] = AfterKex(lib[cctx], k)]
               /\ ok => k = key_buf
  BY DEF KexEnd
<1>l. /\ \A c \in Cctx : c # cctx => lib'[c] = lib[c]
      /\ lib'[cctx].dir = lib[cctx].dir /\ lib'[cctx].backend_ctx = lib[cctx].backend_ctx
      /\ ok => lib'[cctx].key = key_buf
  BY <1>0, <1>k DEF AfterKex, LibType
<1>1. SessTypeOK'
  <2>1. (ok => key_buf \in Good) /\ cctx \in Cctx
    BY DEF KexEnd
  <2>2. Remains(kex.dhm) \subseteq Keys \ {TempKey}
    BY GoodKeys DEF KexEnd, Remains
  <2>3. lib[cctx] \in LibType
    BY <2>1, RecordTypes
  <2>4. \A x \in Good \cup {lib[cctx].key} : AfterKex(lib[cctx], x) \in LibType
    BY <2>2, <2>3, GoodKeys DEF LibType, AfterKex
  <2>5. lib' \in [Cctx -> LibType]
    BY <2>1, <2>4, RecordTypes DEF KexEnd
  <2> QED BY <2>5, Messages, RecordTypes, SessTypes DEF KexEnd, SessTypeOK, Places
<1>2. PlaceInv' /\ SetupInv' /\ SoundInv'
  BY <1>0, <1>l DEF SessTypeOK
<1>3. ReadyInv'
  BY <1>0, <1>l
<1>4. KexInv' /\ BufferInv'
  BY GoodKeys DEF KexEnd, SessTypeOK
<1>5. NoOrphan'
  BY <1>0, <1>l
<1> QED BY <1>1, <1>2, <1>3, <1>4, <1>5

-----------------------------------------------------------------------------
(* Contexts are made, activated and destroyed. *)

LEMMA CreateCctxKeeps ==
    ASSUME SessInv, NEW c \in Cctx, CreateCctx(c)
    PROVE  SessInv'
<1> USE DEF SessInv, PlaceInv, ReadyInv, SetupInv, SoundInv, KexInv, NoOrphan, BufferInv,
           Setup, Backed, Exchanging, Ready, Alike, At, Goto, Return, Fault, Slots, kexVars
<1>a. /\ NewLib(IF slot = "out" THEN "dec" ELSE "enc") \in LibType
      /\ lib[c].backend_ctx = "garbage"
  BY NewContexts DEF CreateCctx
<1> DEFINE l == NewLib(IF slot = "out" THEN "dec" ELSE "enc")
<1>b. l.backend_ctx = "garbage" /\ lib' = [lib EXCEPT ![c] = l]
  BY NewContexts DEF CreateCctx
<1> HIDE DEF l
<1>c. /\ ~kern[c].fd /\ kern[c].ctx # "live" /\ ~kern[c].activated
        /\ pc = "create" /\ pc' = "open" /\ cctx' = c
        /\ UNCHANGED <<slot, ptr, snd, kern, kexVars, fault>>
  BY <1>a DEF CreateCctx, SessTypeOK
<1>1. SessTypeOK'
  <2>1. lib' \in [Cctx -> LibType]
    BY <1>a, <1>b, RecordTypes DEF l
  <2> QED BY <1>c, <2>1, RecordTypes, SessTypes DEF SessTypeOK, Places
<1>2. PlaceInv' /\ SetupInv' /\ SoundInv'
  BY <1>a, <1>b, <1>c DEF SessTypeOK
<1>3. ReadyInv'
  BY <1>a, <1>b, <1>c DEF SessTypeOK
<1>4. KexInv' /\ BufferInv'
  BY DEF CreateCctx, SessTypeOK
<1>5. NoOrphan'
  BY <1>a, <1>b, <1>c DEF SessTypeOK
<1> QED BY <1>1, <1>2, <1>3, <1>4, <1>5

LEMMA KernOpenKeeps ==
    ASSUME SessInv, KernOpen
    PROVE  SessInv'
<1> USE DEF SessInv, PlaceInv, ReadyInv, SetupInv, SoundInv, KexInv, NoOrphan, BufferInv,
           Setup, Backed, Exchanging, Ready, Alike, At, Goto, Return, Fault, Slots, kexVars
<1>1. SessTypeOK'
  <2>1. kern' = [kern EXCEPT ![cctx] = [kern[cctx] EXCEPT !.fd = TRUE]] /\ cctx \in Cctx
    BY DEF KernOpen
  <2>2. kern' \in [Cctx -> KernType]
    BY <2>1, RecordTypes, KernUpdates
  <2> QED BY <2>2, RecordTypes, SessTypes DEF KernOpen, SessTypeOK, Places
<1>2. PlaceInv' /\ SetupInv' /\ SoundInv'
  BY DEF KernOpen, SessTypeOK
<1>3. ReadyInv'
  BY DEF KernOpen, SessTypeOK
<1>4. KexInv' /\ BufferInv'
  BY DEF KernOpen, SessTypeOK
<1>5. NoOrphan'
  BY DEF KernOpen, SessTypeOK
<1> QED BY <1>1, <1>2, <1>3, <1>4, <1>5

LEMMA KernNewCtxKeeps ==
    ASSUME SessInv, KernNewCtx
    PROVE  SessInv'
<1> USE DEF SessInv, PlaceInv, ReadyInv, SetupInv, SoundInv, KexInv, NoOrphan, BufferInv,
           Setup, Backed, Exchanging, Ready, Alike, At, Goto, Return, Fault, Slots, kexVars
<1>1. SessTypeOK'
  <2> DEFINE k == [kern[cctx] EXCEPT !.ctx = "live", !.key = TempKey, !.dir = lib[cctx].dir]
  <2>1. kern' = [kern EXCEPT ![cctx] = k] /\ cctx \in Cctx
    BY DEF KernNewCtx
  <2>2. lib[cctx].dir \in {"enc", "dec", NULL}
    BY <2>1, RecordTypes DEF LibType
  <2>3. k \in KernType
    BY <2>1, <2>2, RecordTypes, KernUpdates
  <2> HIDE DEF k
  <2>4. kern' \in [Cctx -> KernType]
    BY <2>1, <2>3, RecordTypes
  <2>5. lib' \in [Cctx -> LibType]
    BY RecordTypes DEF KernNewCtx, LibType
  <2> QED BY <2>4, <2>5, RecordTypes, SessTypes DEF KernNewCtx, SessTypeOK, Places
<1>2. PlaceInv' /\ SetupInv' /\ SoundInv'
  BY DEF KernNewCtx, SessTypeOK
<1>3. ReadyInv'
  BY DEF KernNewCtx, SessTypeOK
<1>4. KexInv' /\ BufferInv'
  BY DEF KernNewCtx, SessTypeOK
<1>5. NoOrphan'
  BY DEF KernNewCtx, SessTypeOK
<1> QED BY <1>1, <1>2, <1>3, <1>4, <1>5

LEMMA KernNewCtxFailsKeeps ==
    ASSUME SessInv, KernNewCtxFails
    PROVE  SessInv'
<1> USE DEF SessInv, PlaceInv, ReadyInv, SetupInv, SoundInv, KexInv, NoOrphan, BufferInv,
           Setup, Backed, Exchanging, Ready, Alike, At, Goto, Return, Fault, Slots, kexVars
<1>1. SessTypeOK'
  BY SMTT(30) DEF KernNewCtxFails, SessTypeOK, Places
<1>2. PlaceInv' /\ SetupInv' /\ SoundInv'
  BY DEF KernNewCtxFails, SessTypeOK
<1>3. ReadyInv'
  BY DEF KernNewCtxFails, SessTypeOK
<1>4. KexInv' /\ BufferInv'
  BY DEF KernNewCtxFails, SessTypeOK
<1>5. NoOrphan'
  BY DEF KernNewCtxFails, SessTypeOK
<1> QED BY <1>1, <1>2, <1>3, <1>4, <1>5

LEMMA KernSetIvKeeps ==
    ASSUME SessInv, KernSetIv
    PROVE  SessInv'
<1> USE DEF SessInv, PlaceInv, ReadyInv, SetupInv, SoundInv, KexInv, NoOrphan, BufferInv,
           Setup, Backed, Exchanging, Ready, Alike, At, Goto, Return, Fault, Slots, kexVars
<1>1. SessTypeOK'
  BY DEF KernSetIv, SessTypeOK, Places
<1>2. PlaceInv' /\ SetupInv' /\ SoundInv'
  BY DEF KernSetIv, SessTypeOK
<1>3. ReadyInv'
  BY DEF KernSetIv, SessTypeOK
<1>4. KexInv' /\ BufferInv'
  BY DEF KernSetIv, SessTypeOK
<1>5. NoOrphan'
  BY DEF KernSetIv, SessTypeOK
<1> QED BY <1>1, <1>2, <1>3, <1>4, <1>5

LEMMA KernSetIvFailsKeeps ==
    ASSUME SessInv, KernSetIvFails
    PROVE  SessInv'
<1> USE DEF SessInv, PlaceInv, ReadyInv, SetupInv, SoundInv, KexInv, NoOrphan, BufferInv,
           Setup, Backed, Exchanging, Ready, Alike, At, Goto, Return, Fault, Slots, kexVars
<1>1. SessTypeOK'
  BY DEF KernSetIvFails, SessTypeOK, Places
<1>2. PlaceInv' /\ SetupInv' /\ SoundInv'
  BY DEF KernSetIvFails, SessTypeOK
<1>3. ReadyInv'
  BY DEF KernSetIvFails, SessTypeOK
<1>4. KexInv' /\ BufferInv'
  BY DEF KernSetIvFails, SessTypeOK
<1>5. NoOrphan'
  BY DEF KernSetIvFails, SessTypeOK
<1> QED BY <1>1, <1>2, <1>3, <1>4, <1>5

LEMMA OutDestroyKeeps ==
    ASSUME SessInv, OutDestroy
    PROVE  SessInv'
<1> USE DEF SessInv, PlaceInv, ReadyInv, SetupInv, SoundInv, KexInv, NoOrphan, BufferInv,
           Setup, Backed, Exchanging, Ready, Alike, At, Goto, Return, Fault, Slots, kexVars
<1>a. /\ cctx \in Cctx /\ kern' = [kern EXCEPT ![cctx] = KernDestroy(kern[cctx])]
      /\ lib' = [lib EXCEPT ![cctx].backend_ctx = "null"]
      /\ pc = "out_destroy" /\ pc' = "undo"
      /\ UNCHANGED <<slot, cctx, ptr, snd, kexVars, fault>>
  BY DEF OutDestroy
<1>b. /\ KernDestroy(kern[cctx]) \in KernType
      /\ ~KernDestroy(kern[cctx]).fd /\ ~KernDestroy(kern[cctx]).activated
      /\ KernDestroy(kern[cctx]).ctx # "live"
  BY <1>a, RecordTypes, Destroyed
<1>1. SessTypeOK'
  <2>1. kern' \in [Cctx -> KernType] /\ lib' \in [Cctx -> LibType]
    BY <1>a, <1>b, RecordTypes DEF LibType
  <2> QED BY <1>a, <2>1, RecordTypes, SessTypes DEF SessTypeOK, Places
<1>2. PlaceInv' /\ SetupInv' /\ SoundInv'
  BY <1>a, <1>b DEF SessTypeOK
<1>3. ReadyInv'
  BY <1>a, <1>b DEF SessTypeOK
<1>4. KexInv' /\ BufferInv'
  BY DEF OutDestroy, SessTypeOK
<1>5. NoOrphan'
  BY <1>a, <1>b DEF SessTypeOK
<1> QED BY <1>1, <1>2, <1>3, <1>4, <1>5

LEMMA SoundActivateKeeps ==
    ASSUME SessInv, SoundActivate
    PROVE  SessInv'
<1> USE DEF SessInv, PlaceInv, ReadyInv, SetupInv, SoundInv, KexInv, NoOrphan, BufferInv,
           Setup, Backed, Exchanging, Ready, Alike, At, Goto, Return, Fault, Slots, kexVars
<1>1. SessTypeOK'
  <2>1. \A c \in Cctx : kern'[c] \in {kern[c], [kern[c] EXCEPT !.activated = TRUE]}
    BY DEF SoundActivate
  <2>2. ASSUME NEW c \in Cctx PROVE kern'[c] \in KernType
    <3>1. kern[c] \in KernType
      BY RecordTypes
    <3>2. [kern[c] EXCEPT !.activated = TRUE] \in KernType
      BY <3>1, KernUpdates
    <3> QED BY <3>1, <3>2, <2>1
  <2>3. kern' \in [Cctx -> KernType]
    BY <2>2 DEF SoundActivate
  <2> QED BY <2>3, RecordTypes, SessTypes DEF SoundActivate, SessTypeOK, Places
<1>2. PlaceInv' /\ SetupInv' /\ SoundInv'
  BY DEF SoundActivate, SessTypeOK
<1>3. ReadyInv'
  BY DEF SoundActivate, SessTypeOK
<1>4. KexInv' /\ BufferInv'
  BY DEF SoundActivate, SessTypeOK
<1>5. NoOrphan'
  BY DEF SoundActivate, SessTypeOK
<1> QED BY <1>1, <1>2, <1>3, <1>4, <1>5

LEMMA SoundRegisterKeeps ==
    ASSUME SessInv, NEW ok \in BOOLEAN, SoundRegister(ok)
    PROVE  SessInv'
<1> USE DEF SessInv, PlaceInv, ReadyInv, SetupInv, SoundInv, KexInv, NoOrphan, BufferInv,
           Setup, Backed, Exchanging, Ready, Alike, At, Goto, Return, Fault, Slots, kexVars
<1>1. SessTypeOK'
  BY DEF SoundRegister, SessTypeOK, Places
<1>2. PlaceInv' /\ SetupInv' /\ SoundInv'
  BY DEF SoundRegister, SessTypeOK
<1>3. ReadyInv'
  BY DEF SoundRegister, SessTypeOK
<1>4. KexInv' /\ BufferInv'
  BY DEF SoundRegister, SessTypeOK
<1>5. NoOrphan'
  BY DEF SoundRegister, SessTypeOK
<1> QED BY <1>1, <1>2, <1>3, <1>4, <1>5

LEMMA UsbWriteFailsKeeps ==
    ASSUME SessInv, UsbWriteFails
    PROVE  SessInv'
<1> USE DEF SessInv, PlaceInv, ReadyInv, SetupInv, SoundInv, KexInv, NoOrphan, BufferInv,
           Setup, Backed, Exchanging, Ready, Alike, At, Goto, Return, Fault, Slots, kexVars
<1> DEFINE l == [UserDestroy(lib[cctx]) EXCEPT !.backend_ctx = "freed"]
<1>a. /\ cctx \in Cctx /\ kern' = [kern EXCEPT ![cctx] = KernDestroy(kern[cctx])]
      /\ lib' = [lib EXCEPT ![cctx] = l]
      /\ ptr' = [ptr EXCEPT !["usb"] = cctx] /\ pc' = "idle" /\ slot' = NULL /\ cctx' = NULL
      /\ pc = "created"
      /\ UNCHANGED <<snd, kexVars, fault>>
  BY DEF UsbWriteFails
<1>b. /\ KernDestroy(kern[cctx]) \in KernType
      /\ ~KernDestroy(kern[cctx]).fd /\ ~KernDestroy(kern[cctx]).activated
      /\ KernDestroy(kern[cctx]).ctx # "live"
      /\ l \in LibType /\ l.backend_ctx = "freed"
  BY <1>a, RecordTypes, Destroyed, UserDestroyed
<1> HIDE DEF l
<1>1. SessTypeOK'
  <2>1. kern' \in [Cctx -> KernType] /\ lib' \in [Cctx -> LibType]
    BY <1>a, <1>b, RecordTypes
  <2> QED BY <1>a, <2>1, RecordTypes, SessTypes DEF SessTypeOK, Places
<1>2. PlaceInv' /\ SetupInv' /\ SoundInv'
  BY <1>a, <1>b DEF SessTypeOK
<1>3. ReadyInv'
  BY <1>a, <1>b DEF SessTypeOK
<1>4. KexInv' /\ BufferInv'
  BY <1>a, <1>b DEF SessTypeOK
<1>5. NoOrphan'
  BY <1>a, <1>b DEF SessTypeOK
<1> QED BY <1>1, <1>2, <1>3, <1>4, <1>5

LEMMA UsbActivationKeeps ==
    ASSUME SessInv, NEW on \in BOOLEAN, UsbActivation(on)
    PROVE  SessInv'
<1> USE DEF SessInv, PlaceInv, ReadyInv, SetupInv, SoundInv, KexInv, NoOrphan, BufferInv,
           Setup, Backed, Exchanging, Ready, Alike, At, Goto, Return, Fault, Slots, kexVars
<1>1. SessTypeOK'
  BY SMTT(30) DEF UsbActivation, SessTypeOK, Places
<1>2. PlaceInv' /\ SetupInv' /\ SoundInv'
  BY DEF UsbActivation, SessTypeOK
<1>3. ReadyInv'
  BY DEF UsbActivation, SessTypeOK
<1>4. KexInv' /\ BufferInv'
  BY DEF UsbActivation, SessTypeOK
<1>5. NoOrphan'
  BY DEF UsbActivation, SessTypeOK
<1> QED BY <1>1, <1>2, <1>3, <1>4, <1>5

LEMMA DieKeeps ==
    ASSUME SessInv, Die
    PROVE  SessInv'
<1> USE DEF SessInv, PlaceInv, ReadyInv, SetupInv, SoundInv, KexInv, NoOrphan, BufferInv,
           Setup, Backed, Exchanging, Ready, Alike, At, Goto, Return, Fault, Slots, kexVars
<1>a. /\ kern' = [c \in Cctx |-> KernDestroy(kern[c])] /\ pc = "die" /\ pc' = "dead"
      /\ UNCHANGED <<slot, cctx, ptr, snd, lib, kexVars, fault>>
  BY DEF Die
<1>b. \A c \in Cctx : /\ KernDestroy(kern[c]) \in KernType
                      /\ ~KernDestroy(kern[c]).fd /\ ~KernDestroy(kern[c]).activated
                      /\ KernDestroy(kern[c]).ctx # "live"
  BY RecordTypes, Destroyed
<1>1. SessTypeOK'
  <2>1. kern' \in [Cctx -> KernType]
    BY <1>a, <1>b
  <2> QED BY <1>a, <2>1, RecordTypes, SessTypes DEF SessTypeOK, Places
<1>2. PlaceInv' /\ SetupInv' /\ SoundInv'
  BY <1>a, <1>b DEF SessTypeOK
<1>3. ReadyInv'
  BY <1>a, <1>b DEF SessTypeOK
<1>4. KexInv' /\ BufferInv'
  BY <1>a, <1>b DEF SessTypeOK
<1>5. NoOrphan'
  BY <1>a, <1>b DEF SessTypeOK
<1> QED BY <1>1, <1>2, <1>3, <1>4, <1>5

\* priv_destroy_cctx, wherever it is called from.  The input's context is needed
\* only as long as the output's is being set up.
LEMMA DestroyCctxKeeps ==
    ASSUME SessInv, NEW c \in Cctx \cup {NULL}, NEW place \in Places, DestroyCctx(c, place),
           fault = "none",
           \/ pc = "undo" /\ place = "failed" /\ c = cctx
           \/ pc = "outd_in" /\ place = "outd_out"
           \/ pc = "outd_out" /\ place = "outd_clear"
           \/ pc = "fini_in" /\ place = "fini_out"
           \/ pc = "fini_out" /\ place = "idle"
           \/ pc = "idle" /\ place = "die"
    PROVE  SessInv'
<1> USE DEF SessInv, PlaceInv, ReadyInv, SetupInv, SoundInv, KexInv, NoOrphan, BufferInv,
           Setup, Backed, Exchanging, Ready, Alike, At, Goto, Return, Fault, Slots, kexVars
<1>1. CASE Fault("user")
  BY <1>1 DEF SessTypeOK
<1>2. CASE ~Fault("user")
  <2> DEFINE l == [UserDestroy(lib[c]) EXCEPT !.backend_ctx = "freed"]
  <2>1. /\ c \in Cctx /\ lib[c].backend_ctx # "freed"
        /\ pc' = place /\ UNCHANGED <<slot, cctx, ptr, snd, kexVars, fault>>
    BY <1>2 DEF DestroyCctx
  <2>2. \/ /\ lib[c].backend_ctx = "live"
           /\ kern' = [kern EXCEPT ![c] = KernDestroy(kern[c])] /\ lib' = [lib EXCEPT ![c] = l]
        \/ /\ lib[c].backend_ctx # "live"
           /\ kern' = kern /\ lib' = [lib EXCEPT ![c] = UserDestroy(lib[c])]
    BY <1>2 DEF DestroyCctx
  <2>3. /\ KernDestroy(kern[c]) \in KernType
        /\ ~KernDestroy(kern[c]).fd /\ ~KernDestroy(kern[c]).activated
        /\ KernDestroy(kern[c]).ctx # "live"
        /\ l \in LibType /\ l.backend_ctx = "freed"
        /\ UserDestroy(lib[c]) \in LibType
        /\ UserDestroy(lib[c]).backend_ctx = lib[c].backend_ctx
        /\ UserDestroy(lib[c]).key = lib[c].key /\ UserDestroy(lib[c]).dir = lib[c].dir
    BY <2>1, RecordTypes, Destroyed, UserDestroyed
  <2> HIDE DEF l
  <2>4. SessTypeOK'
    <3>1. kern' \in [Cctx -> KernType] /\ lib' \in [Cctx -> LibType]
      BY <2>1, <2>2, <2>3, RecordTypes
    <3> QED BY <2>1, <3>1, RecordTypes, SessTypes DEF SessTypeOK, Places
  <2>5. PlaceInv' /\ SetupInv' /\ SoundInv'
    BY <2>1
  <2>6. ReadyInv'
    BY <2>1, <2>2, <2>3, SMTT(30) DEF SessTypeOK
  <2>7. KexInv' /\ BufferInv'
    BY <2>1
  <2>8. NoOrphan'
    BY <2>1, <2>2, <2>3 DEF SessTypeOK
  <2> QED BY <2>4, <2>5, <2>6, <2>7, <2>8
<1> QED BY <1>1, <1>2

LEMMA DestroyKeeps ==
    ASSUME SessInv, Undo \/ OutdIn \/ OutdOut \/ FiniIn \/ FiniOut
    PROVE  SessInv'
<1>1. \A s \in Slots : ptr[s] \in Cctx \cup {NULL}
  BY DEF SessInv, SessTypeOK
<1>2. cctx \in Cctx \cup {NULL}
  BY DEF SessInv, SessTypeOK
<1>3. CASE Undo
  BY <1>2, <1>3, DestroyCctxKeeps DEF Undo, At, Places
<1>4. CASE OutdIn
  BY <1>1, <1>4, DestroyCctxKeeps DEF OutdIn, At, Places, Slots
<1>5. CASE OutdOut
  BY <1>1, <1>5, DestroyCctxKeeps DEF OutdOut, At, Places, Slots
<1>6. CASE FiniIn
  BY <1>1, <1>6, DestroyCctxKeeps DEF FiniIn, At, Places, Slots
<1>7. CASE FiniOut
  BY <1>1, <1>7, DestroyCctxKeeps DEF FiniOut, At, Places, Slots
<1> QED BY <1>3, <1>4, <1>5, <1>6, <1>7

LEMMA ExitKeeps ==
    ASSUME SessInv, Exit
    PROVE  SessInv'
<1>1. CASE ptr["usb"] = NULL
  <2>1. /\ pc = "idle" /\ pc' = "die"
        /\ UNCHANGED <<slot, cctx, ptr, snd, lib, kern, kexVars, fault>>
    BY <1>1 DEF Exit, At, Goto
  <2> QED BY <2>1 DEF SessInv, PlaceInv, ReadyInv, SetupInv, SoundInv, KexInv, NoOrphan,
                      BufferInv, Setup, Backed, Exchanging, Ready, Alike, Places,
                      SessTypeOK, kexVars
<1>2. CASE ptr["usb"] # NULL
  <2>1. ptr["usb"] \in Cctx \cup {NULL}
    BY DEF SessInv, SessTypeOK, Slots
  <2> QED BY <1>2, <2>1, DestroyCctxKeeps DEF Exit, At, Places
<1> QED BY <1>1, <1>2

-----------------------------------------------------------------------------
LEMMA SessInitInv == SessInit => SessInv
<1> SUFFICES ASSUME SessInit
             PROVE  SessInv
  OBVIOUS
<1> USE DEF SessInit
<1>1. SessTypeOK
  <2>1. NoLib \in LibType /\ NoKern \in KernType
    BY Messages DEF NoLib, NewLib, NoKern, LibType, KernType, TempKey
  <2>2. lib \in [Cctx -> LibType] /\ kern \in [Cctx -> KernType]
    BY <2>1
  <2> HIDE DEF SessInit
  <2>3. /\ pc = "idle" /\ slot = NULL /\ cctx = NULL /\ ptr = [s \in Slots |-> NULL]
        /\ snd = FALSE /\ kex = NULL /\ kex_buf = NULL /\ key_buf = {} /\ fault = "none"
    BY DEF SessInit
  <2> QED BY <2>2, <2>3, Messages DEF SessTypeOK, LibType, KernType, Places
<1>2. PlaceInv /\ SetupInv /\ SoundInv /\ KexInv /\ BufferInv
  BY DEF PlaceInv, SetupInv, SoundInv, KexInv, BufferInv, Setup, Backed, Exchanging
<1>3. ReadyInv /\ NoOrphan
  BY DEF ReadyInv, NoOrphan, NoLib, NewLib, NoKern
<1> QED BY <1>1, <1>2, <1>3 DEF SessInv

LEMMA SessNextInv == SessInv /\ [SessNext]_vars => SessInv'
<1> SUFFICES ASSUME SessInv, [SessNext]_vars
             PROVE  SessInv'
  OBVIOUS
<1>1. CASE Continue
  BY <1>1, CallKeeps, CreateCctxKeeps, KernOpenKeeps, KernNewCtxKeeps, KernNewCtxFailsKeeps,
     KexInitKeeps, ProcessStartKeeps, ProcessResponseKeeps, ProcessFailsKeeps, SendKexMsgKeeps,
     KexGetKeyKeeps,
     KexEndKeeps, KernSetIvKeeps, KernSetIvFailsKeeps, OutDestroyKeeps, DestroyKeeps,
     SoundActivateKeeps, SoundRegisterKeeps, UsbWriteFailsKeeps, DieKeeps DEF Continue
<1>2. CASE Begin
  BY <1>2, CallKeeps, ExitKeeps, UsbActivationKeeps DEF Begin
<1>3. CASE UNCHANGED vars
  BY <1>3 DEF vars, kexVars, SessInv, SessTypeOK, PlaceInv, ReadyInv, SetupInv, SoundInv,
              KexInv, NoOrphan, BufferInv, Ready, Alike
<1> QED BY <1>1, <1>2, <1>3 DEF SessNext

\* How far the set-up of a session has come on both sides, and with which keys.
THEOREM SessInvariant == SessSpec => []SessInv
BY SessInitInv, SessNextInv, PTL DEF SessSpec

\* Type correctness: a call that has returned has no slot and no context left.
THEOREM SessTypeCorrect == SessSpec => []SessTypeOK
<1>1. SessInv => SessTypeOK
  BY DEF SessInv
<1> QED BY <1>1, SessInvariant, PTL

\* An activated context has the key, the IV and the direction of the library's,
\* whatever the kernel's exponents and whichever setups failed before.
THEOREM ActivatedIsAgreed == SessSpec => []KeyAgreement
<1>1. SessInv => KeyAgreement
  BY GoodKeys DEF SessInv, ReadyInv, Ready, Alike, KeyAgreement
<1> QED BY <1>1, SessInvariant, PTL

\* No file and no kernel context is left behind that the library cannot reach.
THEOREM NothingOrphaned == SessSpec => []NoOrphan
<1>1. SessInv => NoOrphan
  BY DEF SessInv
<1> QED BY <1>1, SessInvariant, PTL

-----------------------------------------------------------------------------
(* What stays of the keys. *)

\* Where the context of the call has no key yet.
Keyless == {"open", "new_ctx", "kex_init"} \cup Exchanging

\* A library context has the key of its kernel context or none, and so has the memory
\* that it has freed; while it is set up there is none.
StaysInv ==
    /\ \A c \in Cctx : /\ lib[c].key \in {{}} \cup (Good \cap {kern[c].key})
                       /\ lib[c].left \subseteq Good \cap {kern[c].key}
    /\ pc \in Keyless => lib[cctx].key = {} /\ lib[cctx].left = {}

\* Most steps change no key.
LEMMA StaysSame ==
    ASSUME StaysInv, pc' \in Keyless => pc \in Keyless /\ cctx' = cctx /\ cctx \in Cctx,
           \A c \in Cctx : /\ kern'[c].key = kern[c].key
                          /\ lib'[c].key = lib[c].key /\ lib'[c].left = lib[c].left
    PROVE  StaysInv'
BY DEF StaysInv

\* Nor do these, of the context that is worked on.
LEMMA KeyUpdates ==
    ASSUME NEW k \in KernType, NEW l \in LibType
    PROVE  /\ KernDestroy(k).key = k.key
           /\ [k EXCEPT !.fd = TRUE].key = k.key
           /\ \A c : [k EXCEPT !.iv = c].key = k.key
           /\ \A on : [k EXCEPT !.activated = on].key = k.key
           /\ \A b : /\ [l EXCEPT !.backend_ctx = b].key = l.key
                    /\ [l EXCEPT !.backend_ctx = b].left = l.left
           /\ UserDestroy(l).key = l.key /\ UserDestroy(l).left = l.left \cup Remains(l.key)
           /\ [UserDestroy(l) EXCEPT !.backend_ctx = "freed"].key = l.key
           /\ [UserDestroy(l) EXCEPT !.backend_ctx = "freed"].left = l.left \cup Remains(l.key)
           /\ \A x : AfterKex(l, x).key = x /\ AfterKex(l, x).left = l.left \cup Remains(kex.dhm)
BY DEF KernType, LibType, KernDestroy, UserDestroy, AfterKex

\* The library's part of a destruction leaves its key.
LEMMA DestroyedStays ==
    ASSUME StaysInv, SessInv, NEW c \in Cctx, pc' \notin Keyless,
           \A b \in Cctx : kern'[b].key = kern[b].key,
           \A b \in Cctx \ {c} : lib'[b] = lib[b],
           lib'[c].key = lib[c].key, lib'[c].left = lib[c].left \cup Remains(lib[c].key)
    PROVE  StaysInv'
<1>1. Remains(lib[c].key) \subseteq Good \cap {kern[c].key}
  BY DEF StaysInv, Remains
<1> QED BY <1>1 DEF StaysInv

LEMMA DestroyCctxStays ==
    ASSUME StaysInv, SessInv, NEW c \in Cctx \cup {NULL}, NEW place \in Places \ Keyless,
           DestroyCctx(c, place), pc \notin Keyless
    PROVE  StaysInv'
<1>1. CASE Fault("user")
  BY <1>1, StaysSame DEF Fault
<1>2. CASE ~Fault("user")
  <2> DEFINE l == [UserDestroy(lib[c]) EXCEPT !.backend_ctx = "freed"]
  <2>1. c \in Cctx /\ pc' = place
    BY <1>2 DEF DestroyCctx, Goto
  <2>2. \/ kern' = [kern EXCEPT ![c] = KernDestroy(kern[c])] /\ lib' = [lib EXCEPT ![c] = l]
        \/ kern' = kern /\ lib' = [lib EXCEPT ![c] = UserDestroy(lib[c])]
    BY <1>2 DEF DestroyCctx
  <2>3. lib \in [Cctx -> LibType] /\ kern \in [Cctx -> KernType]
    BY RecordTypes DEF SessInv
  <2>4. /\ KernDestroy(kern[c]).key = kern[c].key
        /\ l.key = lib[c].key /\ l.left = lib[c].left \cup Remains(lib[c].key)
        /\ UserDestroy(lib[c]).key = lib[c].key
        /\ UserDestroy(lib[c]).left = lib[c].left \cup Remains(lib[c].key)
    BY <2>1, <2>3, KeyUpdates
  <2> HIDE DEF l
  <2> QED BY <2>1, <2>2, <2>3, <2>4, DestroyedStays
<1> QED BY <1>1, <1>2

\* The keys of the contexts change in these.
LEMMA SetupStays ==
    ASSUME SessInv, StaysInv,
           \/ \E c \in Cctx : CreateCctx(c)
           \/ KernNewCtx
           \/ \E y \in Secret : SendKexMsg(y)
           \/ \E ok \in BOOLEAN : KexEnd(ok)
    PROVE  StaysInv'
<1>0. lib \in [Cctx -> LibType] /\ kern \in [Cctx -> KernType]
  BY RecordTypes DEF SessInv
<1>1. pc \in Setup => cctx \in Cctx
  BY DEF SessInv, PlaceInv
<1>2. CASE \E c \in Cctx : CreateCctx(c)
  <2> PICK c \in Cctx : CreateCctx(c)
    BY <1>2
  <2>1. lib'[c].key = {} /\ lib'[c].left = {} /\ \A b \in Cctx \ {c} : lib'[b] = lib[b]
    BY <1>0 DEF CreateCctx, NewLib
  <2>2. cctx' = c /\ UNCHANGED kern
    BY DEF CreateCctx
  <2> QED BY <2>1, <2>2 DEF StaysInv
<1>3. CASE KernNewCtx \/ \E y \in Secret : SendKexMsg(y)
  <2>1. pc \in Keyless /\ cctx \in Cctx /\ cctx' = cctx
    BY <1>1, <1>3 DEF KernNewCtx, SendKexMsg, At, Goto, Setup, Backed, Exchanging, Keyless
  <2>2. \A b \in Cctx \ {cctx} : kern'[b] = kern[b]
    BY <1>0, <1>3, <2>1 DEF KernNewCtx, SendKexMsg
  <2>3. \A b \in Cctx : lib'[b].key = lib[b].key /\ lib'[b].left = lib[b].left
    <3>1. CASE UNCHANGED lib
      BY <3>1
    <3>2. CASE lib' = [lib EXCEPT ![cctx] = [lib[cctx] EXCEPT !.backend_ctx = "live"]]
      BY <1>0, <2>1, <3>2, KeyUpdates
    <3> QED BY <1>3, <3>1, <3>2 DEF KernNewCtx, SendKexMsg
  <2>4. lib[cctx].key = {} /\ lib[cctx].left = {}
    BY <2>1 DEF StaysInv
  <2> QED BY <2>1, <2>2, <2>3, <2>4 DEF StaysInv
<1>4. CASE \E ok \in BOOLEAN : KexEnd(ok)
  <2> PICK ok \in BOOLEAN : KexEnd(ok)
    BY <1>4
  <2>1. /\ pc \in Keyless /\ pc' \notin Keyless /\ cctx \in Cctx /\ UNCHANGED <<kern, cctx>>
        /\ pc = IF ok THEN "kex_done" ELSE "kex_failed"
    BY <1>1 DEF KexEnd, At, Goto, Setup, Backed, Exchanging, Keyless
  <2>2. PICK k : /\ lib' = [lib EXCEPT ![cctx] = AfterKex(lib[cctx], k)]
                 /\ k = IF ok THEN key_buf ELSE lib[cctx].key
    BY DEF KexEnd
  <2>3. k \in {{}} \cup (Good \cap {kern[cctx].key})
    BY <2>1, <2>2 DEF SessInv, KexInv, StaysInv
  <2>4. Remains(kex.dhm) \subseteq Good \cap {kern[cctx].key}
    BY <2>1 DEF SessInv, KexInv, Remains
  <2>5. lib'[cctx].key = k /\ lib'[cctx].left = lib[cctx].left \cup Remains(kex.dhm)
    BY <1>0, <2>1, <2>2, KeyUpdates
  <2>6. \A b \in Cctx \ {cctx} : lib'[b] = lib[b]
    BY <1>0, <2>1, <2>2
  <2> QED BY <2>1, <2>3, <2>4, <2>5, <2>6 DEF StaysInv
<1> QED BY <1>2, <1>3, <1>4

LEMMA StepStays == SessInv /\ StaysInv /\ [SessNext]_vars => StaysInv'
<1> SUFFICES ASSUME SessInv, StaysInv, [SessNext]_vars
             PROVE  StaysInv'
  OBVIOUS
<1> USE DEF Keyless, Exchanging, At, Goto, Return
<1>0. /\ lib \in [Cctx -> LibType] /\ kern \in [Cctx -> KernType]
      /\ ptr["in"] \in Cctx \cup {NULL} /\ ptr["out"] \in Cctx \cup {NULL}
      /\ ptr["usb"] \in Cctx \cup {NULL} /\ cctx \in Cctx \cup {NULL}
  BY RecordTypes DEF SessInv, SessTypeOK, Slots
<1>1. pc \in Setup => cctx \in Cctx
  BY DEF SessInv, PlaceInv
<1>2. UNCHANGED <<lib, kern>> /\ (pc' \in Keyless => pc \in Keyless /\ cctx' = cctx) => StaysInv'
  BY DEF StaysInv
<1>3. CASE \/ CreateFails \/ KernOpenFails \/ KernNewCtxFaults
           \/ KexInit \/ KexInitFails \/ ProcessStart \/ ProcessResponse \/ ProcessFails
           \/ SendKexMsgFails \/ SendKexMsgFaults \/ KexGetKey \/ KernSetIvFails
  BY <1>2, <1>3 DEF CreateFails, KernOpenFails, KernNewCtxFaults, KexInit, KexInitFails,
     ProcessStart, ProcessResponse, ProcessFails, SendKexMsgFails, SendKexMsgFaults, KexGetKey,
     KernSetIvFails, Fault
<1>4. CASE \/ EasyCreated \/ SoundFails \/ OutdClear \/ \E ok \in BOOLEAN : SoundRegister(ok)
           \/ UsbAttach \/ UsbNoDevice \/ UsbFails
           \/ SoundInit \/ SoundFini \/ UsbSetup \/ Kill \/ UNCHANGED vars
  BY <1>2, <1>4 DEF EasyCreated, SoundFails, OutdClear, SoundRegister, UsbAttach,
     UsbNoDevice, UsbFails, SoundInit, SoundFini, UsbSetup, Kill, vars
<1>5. CASE KernOpen
  <2>1. /\ kern' = [kern EXCEPT ![cctx] = [kern[cctx] EXCEPT !.fd = TRUE]]
        /\ cctx \in Cctx /\ UNCHANGED <<lib, cctx>> /\ pc \in Keyless
    BY <1>1, <1>5 DEF KernOpen, Setup
  <2> QED BY <1>0, <2>1, KeyUpdates, StaysSame
<1>6. CASE KernNewCtxFails
  <2>1. /\ lib' = [lib EXCEPT ![cctx] = [lib[cctx] EXCEPT !.backend_ctx = "live"]]
        /\ cctx \in Cctx /\ UNCHANGED <<kern, cctx>> /\ pc \in Keyless
    BY <1>1, <1>6 DEF KernNewCtxFails, Setup
  <2> QED BY <1>0, <2>1, KeyUpdates, StaysSame
<1>7. CASE KernSetIv
  <2>1. /\ kern' = [kern EXCEPT ![cctx] = [kern[cctx] EXCEPT !.iv = cctx]]
        /\ cctx \in Cctx /\ UNCHANGED <<lib, cctx>> /\ pc' \notin Keyless
    BY <1>1, <1>7 DEF KernSetIv, Setup, Backed
  <2> QED BY <1>0, <2>1, KeyUpdates, StaysSame
<1>8. CASE OutDestroy
  <2>1. /\ kern' = [kern EXCEPT ![cctx] = KernDestroy(kern[cctx])]
        /\ lib' = [lib EXCEPT ![cctx] = [lib[cctx] EXCEPT !.backend_ctx = "null"]]
        /\ cctx \in Cctx /\ pc' \notin Keyless
    BY <1>1, <1>8 DEF OutDestroy, Setup, Backed
  <2> QED BY <1>0, <2>1, KeyUpdates, StaysSame
<1>9. CASE UsbWriteFails
  <2> DEFINE l == [UserDestroy(lib[cctx]) EXCEPT !.backend_ctx = "freed"]
  <2>1. /\ kern' = [kern EXCEPT ![cctx] = KernDestroy(kern[cctx])]
        /\ lib' = [lib EXCEPT ![cctx] = l]
        /\ cctx \in Cctx /\ pc' \notin Keyless
    BY <1>1, <1>9 DEF UsbWriteFails, Setup, Backed
  <2>2. /\ KernDestroy(kern[cctx]).key = kern[cctx].key
        /\ l.key = lib[cctx].key /\ l.left = lib[cctx].left \cup Remains(lib[cctx].key)
    BY <1>0, <2>1, KeyUpdates
  <2> HIDE DEF l
  <2> QED BY <1>0, <2>1, <2>2, DestroyedStays
<1>10. CASE Undo \/ OutdIn \/ OutdOut \/ FiniIn \/ FiniOut \/ Exit
  <2>1. CASE /\ pc \notin Keyless
             /\ \E c \in {cctx, ptr["in"], ptr["out"], ptr["usb"]}, place \in Places \ Keyless :
                    DestroyCctx(c, place)
    BY <1>0, <2>1, DestroyCctxStays
  <2>2. CASE Exit /\ ptr["usb"] = NULL
    BY <1>2, <2>2 DEF Exit
  <2> QED BY <1>10, <2>1, <2>2 DEF Undo, OutdIn, OutdOut, FiniIn, FiniOut, Exit, Places
<1>11. CASE SoundActivate
  <2>1. /\ \A c \in Cctx : kern'[c] \in {kern[c], [kern[c] EXCEPT !.activated = TRUE]}
        /\ UNCHANGED lib /\ pc' \notin Keyless
    BY <1>11 DEF SoundActivate
  <2>2. \A c \in Cctx : kern'[c].key = kern[c].key
    BY <1>0, <2>1 DEF KernType
  <2> QED BY <2>1, <2>2, StaysSame
<1>12. CASE \E on \in BOOLEAN : UsbActivation(on)
  <2> PICK on \in BOOLEAN : UsbActivation(on)
    BY <1>12
  <2>1. UNCHANGED <<lib, pc>> /\ pc = "idle"
    BY DEF UsbActivation, Fault
  <2>2. \A c \in Cctx : kern'[c] \in {kern[c], [kern[c] EXCEPT !.activated = on]}
    BY <1>0 DEF UsbActivation, Fault
  <2>3. \A c \in Cctx : kern'[c].key = kern[c].key
    BY <1>0, <2>2 DEF KernType
  <2> QED BY <2>1, <2>3, StaysSame
<1>13. CASE Die
  <2>1. /\ \A c \in Cctx : kern'[c] = KernDestroy(kern[c])
        /\ UNCHANGED lib /\ pc' \notin Keyless
    BY <1>13 DEF Die
  <2> QED BY <1>0, <2>1, KeyUpdates, StaysSame
<1> QED BY <1>3, <1>4, <1>5, <1>6, <1>7, <1>8, <1>9, <1>10, <1>11, <1>12, <1>13, SetupStays
        DEF SessNext, Continue, Begin

\* do_kex leaves nothing in its buffers, and what freed memory of QEMU still holds of
\* a context is the key it has agreed on with the kernel, whichever calls failed.
THEOREM OnlyAgreedKeysStay == SessSpec => []OnlyAgreedKeyStays
<1>1. SessInit => StaysInv
  BY DEF SessInit, StaysInv, NoLib, NewLib, Keyless, Exchanging
<1>2. SessInv /\ StaysInv => OnlyAgreedKeyStays
  <2> SUFFICES ASSUME SessInv, StaysInv
               PROVE  OnlyAgreedKeyStays
    OBVIOUS
  <2>1. \A c \in Cctx : lib[c].left \subseteq {kern[c].key} \ {TempKey}
    BY GoodKeys DEF StaysInv
  <2> QED BY <2>1 DEF SessInv, BufferInv, Exchanging, OnlyAgreedKeyStays
<1> QED BY <1>1, <1>2, StepStays, SessInvariant, PTL DEF SessSpec
-----------------------------------------------------------------------------
\* What a kernel context encrypts with.
Cipher(k) == <<k.key, k.iv, k.dir>>

\* An activated context that goes on is not given another key, IV or direction.
KeyKept ==
    \A c \in Cctx :
        kern[c].activated /\ kern'[c].ctx = "live" => Cipher(kern'[c]) = Cipher(kern[c])

LEMMA CipherUpdates ==
    ASSUME NEW k \in KernType
    PROVE  /\ Cipher(KernDestroy(k)) = Cipher(k)
           /\ \A on \in BOOLEAN : Cipher([k EXCEPT !.activated = on]) = Cipher(k)
BY DEF KernType, KernDestroy, Cipher

\* A step of the context that is being set up, which is not activated.
LEMMA SetupKeepsKey ==
    ASSUME SessInv, pc \in Setup, NEW k, kern' = [kern EXCEPT ![cctx] = k]
    PROVE  KeyKept
<1>1. cctx \in Cctx /\ ~kern[cctx].activated /\ kern \in [Cctx -> KernType]
  BY RecordTypes DEF SessInv, PlaceInv, SetupInv
<1>2. \A c \in Cctx : kern[c].activated => kern'[c] = kern[c]
  BY <1>1
<1> QED BY <1>2 DEF KeyKept

LEMMA DestroyKeepsKey ==
    ASSUME SessInv, NEW c \in Cctx \cup {NULL}, NEW place, DestroyCctx(c, place)
    PROVE  KeyKept
<1>1. kern \in [Cctx -> KernType]
  BY RecordTypes DEF SessInv
<1>2. CASE UNCHANGED kern
  BY <1>2 DEF KeyKept
<1>3. CASE c \in Cctx /\ kern' = [kern EXCEPT ![c] = KernDestroy(@)]
  <2> SUFFICES ASSUME NEW b \in Cctx
               PROVE  Cipher(kern'[b]) = Cipher(kern[b])
    BY DEF KeyKept
  <2>1. kern'[b] = IF b = c THEN KernDestroy(kern[b]) ELSE kern[b]
    BY <1>1, <1>3
  <2>2. kern[b] \in KernType
    BY <1>1
  <2> QED BY <2>1, <2>2, CipherUpdates
<1> QED BY <1>2, <1>3 DEF DestroyCctx, Fault

LEMMA StepKeepsKey == SessInv /\ [SessNext]_vars => KeyKept
<1> SUFFICES ASSUME SessInv, [SessNext]_vars
             PROVE  KeyKept
  OBVIOUS
<1>1. /\ kern \in [Cctx -> KernType] /\ pc \in Places
      /\ ptr["in"] \in Cctx \cup {NULL} /\ ptr["out"] \in Cctx \cup {NULL}
      /\ ptr["usb"] \in Cctx \cup {NULL} /\ cctx \in Cctx \cup {NULL}
  BY RecordTypes DEF SessInv, SessTypeOK, Slots
<1>2. UNCHANGED kern => KeyKept
  BY DEF KeyKept
<1>3. CASE KernOpen
  <2>1. kern' = [kern EXCEPT ![cctx] = [kern[cctx] EXCEPT !.fd = TRUE]] /\ pc = "open"
    BY <1>3 DEF KernOpen, At
  <2> QED BY <2>1, SetupKeepsKey DEF Setup
<1>4. CASE KernNewCtx
  <2>1. kern' = [kern EXCEPT ![cctx] = [kern[cctx] EXCEPT !.ctx = "live", !.key = TempKey,
                                                          !.dir = lib[cctx].dir]]
        /\ pc = "new_ctx"
    BY <1>4 DEF KernNewCtx, At
  <2> QED BY <2>1, SetupKeepsKey DEF Setup
<1>5. CASE \E y \in Secret : SendKexMsg(y)
  <2> PICK y \in Secret : SendKexMsg(y)
    BY <1>5
  <2>1. kern' = [kern EXCEPT ![cctx] = [kern[cctx] EXCEPT !.key = KernCalcSecret(kex_buf.exp, y)]]
        /\ pc = "send"
    BY DEF SendKexMsg, At
  <2> QED BY <2>1, SetupKeepsKey DEF Setup, Backed, Exchanging
<1>6. CASE KernSetIv
  <2>1. kern' = [kern EXCEPT ![cctx] = [kern[cctx] EXCEPT !.iv = cctx]] /\ pc = "set_iv"
    BY <1>6 DEF KernSetIv, At
  <2> QED BY <2>1, SetupKeepsKey DEF Setup, Backed
<1>7. CASE OutDestroy \/ UsbWriteFails
  <2>1. kern' = [kern EXCEPT ![cctx] = KernDestroy(kern[cctx])]
        /\ pc \in {"out_destroy", "created"}
    BY <1>7 DEF OutDestroy, UsbWriteFails, At
  <2> QED BY <2>1, SetupKeepsKey DEF Setup, Backed
<1>8. CASE Undo \/ OutdIn \/ OutdOut \/ FiniIn \/ FiniOut \/ Exit
  <2>1. CASE UNCHANGED kern
    BY <1>2, <2>1
  <2>2. CASE \E c \in {cctx, ptr["in"], ptr["out"], ptr["usb"]}, place \in Places :
                 DestroyCctx(c, place)
    BY <1>1, <2>2, DestroyKeepsKey
  <2> QED BY <1>8, <2>1, <2>2 DEF Undo, OutdIn, OutdOut, FiniIn, FiniOut, Exit, Places
<1>9. CASE SoundActivate
  <2> SUFFICES ASSUME NEW c \in Cctx
               PROVE  Cipher(kern'[c]) = Cipher(kern[c])
    BY DEF KeyKept
  <2>1. kern'[c] \in {kern[c], [kern[c] EXCEPT !.activated = TRUE]}
    BY <1>9 DEF SoundActivate
  <2> QED BY <1>1, <2>1, CipherUpdates
<1>10. CASE \E on \in BOOLEAN : UsbActivation(on)
  <2> PICK on \in BOOLEAN : UsbActivation(on)
    BY <1>10
  <2>1. CASE UNCHANGED kern
    BY <1>2, <2>1
  <2>2. CASE kern' = [kern EXCEPT ![ptr["usb"]].activated = on]
    <3> SUFFICES ASSUME NEW c \in Cctx
                 PROVE  Cipher(kern'[c]) = Cipher(kern[c])
      BY DEF KeyKept
    <3>1. kern'[c] \in {kern[c], [kern[c] EXCEPT !.activated = on]}
      BY <1>1, <2>2
    <3> QED BY <1>1, <3>1, CipherUpdates
  <2> QED BY <2>1, <2>2 DEF UsbActivation, Fault
<1>11. CASE Die
  <2> SUFFICES ASSUME NEW c \in Cctx
               PROVE  Cipher(kern'[c]) = Cipher(kern[c])
    BY DEF KeyKept
  <2>1. kern'[c] = KernDestroy(kern[c])
    BY <1>11 DEF Die
  <2> QED BY <1>1, <2>1, CipherUpdates
<1>12. CASE \/ \E c \in Cctx : CreateCctx(c)
            \/ CreateFails \/ KernOpenFails \/ KernNewCtxFails \/ KernNewCtxFaults
            \/ KexInit \/ KexInitFails \/ ProcessStart \/ ProcessResponse \/ ProcessFails
            \/ SendKexMsgFails \/ SendKexMsgFaults \/ KexGetKey
            \/ \E ok \in BOOLEAN : KexEnd(ok)
  BY <1>2, <1>12 DEF CreateCctx, CreateFails, KernOpenFails, KernNewCtxFails, KernNewCtxFaults,
     KexInit, KexInitFails, ProcessStart, ProcessResponse, ProcessFails, SendKexMsgFails,
     SendKexMsgFaults, KexGetKey, KexEnd, Fault
<1>13. CASE \/ KernSetIvFails \/ EasyCreated \/ SoundFails \/ OutdClear
            \/ \E ok \in BOOLEAN : SoundRegister(ok)
            \/ UsbAttach \/ UsbNoDevice \/ UsbFails
            \/ SoundInit \/ SoundFini \/ UsbSetup \/ Kill \/ UNCHANGED vars
  BY <1>2, <1>13 DEF KernSetIvFails, EasyCreated, SoundFails, OutdClear, SoundRegister, UsbAttach,
     UsbNoDevice, UsbFails, SoundInit, SoundFini, UsbSetup, Kill, vars
<1> QED BY <1>3, <1>4, <1>5, <1>6, <1>7, <1>8, <1>9, <1>10, <1>11, <1>12, <1>13
        DEF SessNext, Continue, Begin

\* Once activated, a kernel context keeps the key, the IV and the direction that both
\* sides agreed on until it is destroyed: no exchange, retry or set-up of another
\* context reaches it (do_kex, do_set_iv, do_set_activated).
THEOREM ActivatedKeyIsKept == SessSpec => [][KeyKept]_vars
<1>1. SessInv /\ [SessNext]_vars => [KeyKept]_vars
  BY StepKeepsKey
<1> QED BY <1>1, SessInvariant, PTL DEF SessSpec
=============================================================================
