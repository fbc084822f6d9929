--------------------------- MODULE PrivCryptProofs ---------------------------
(***************************************************************************)
(* Proofs about PrivCryptClient, for any number of processes, devices,     *)
(* files and contexts.  IInv is inductive: one lemma per action shows that *)
(* the action preserves it, with one step per conjunct; step <1>a, where   *)
(* there is one, shows that the action does not take its fault branch.     *)
(***************************************************************************)
EXTENDS PrivCryptClient, TLAPS

\* No process, no context, no file: every conjunct of IInv holds at the start.
LEMMA InitInv == ClientInit => IInv
<1> SUFFICES ASSUME ClientInit PROVE IInv
  OBVIOUS
<1> USE NullAssumption DEF ClientInit, Init
<1>1. TypeOK
  <2>1. 1 \in 0 .. 1
    OBVIOUS
  <2>2. fault \in BOOLEAN
    OBVIOUS
  <2> QED BY <2>1, <2>2 DEF TypeOK, Places
<1>2. ClaimType /\ NoFault /\ PlaceInv /\ UserInv
  BY DEF ClaimType, NoFault, PlaceInv, UserInv
<1>3. StoringInv /\ RemovingInv /\ LocalsInv
  BY DEF StoringInv, RemovingInv, LocalsInv, Storing, Removing
<1>4. LockInv /\ ListInv /\ FileInv
  BY DEF LockInv, ListInv, FileInv
<1> QED BY <1>1, <1>2, <1>3, <1>4 DEF IInv

\* find_ctx_by_id finds the context, which only its own process could remove.
LEMMA FindInv ==
    ASSUME NEW p \in Proc, IInv, UseFind(p), UNCHANGED claim
    PROVE  IInv'
<1> USE NullAssumption DEF IInv, TypeOK, Storing, Removing
<1> USE DEF UseFind, At, Goto, Return, kernVars, locals
<1>a. ListIsSound /\ l_cctx[p] \in ctx_list
  BY DEF ListIsSound, ListInv, StoringInv
<1>1. TypeOK'
  BY <1>a DEF Places
<1>2. ClaimType' /\ NoFault'
  BY <1>a DEF ClaimType, NoFault
<1>3. PlaceInv'
  BY <1>a DEF PlaceInv, UserInv
<1>4. UserInv'
  BY <1>a DEF PlaceInv, UserInv
<1>5. StoringInv'
  BY <1>a DEF StoringInv, PlaceInv, UserInv
<1>6. RemovingInv'
  BY <1>a DEF RemovingInv, UserInv
<1>7. LocalsInv'
  BY <1>a DEF LocalsInv
<1>8. LockInv'
  BY <1>a DEF LockInv, LocalsInv
<1>9. ListInv'
  BY <1>a DEF ListInv
<1>10. FileInv'
  BY <1>a DEF FileInv, Dying, ListInv
<1> QED BY <1>1, <1>2, <1>3, <1>4, <1>5, <1>6, <1>7, <1>8, <1>9, <1>10

\* mutex_trylock.
LEMMA TrylockInv ==
    ASSUME NEW p \in Proc, IInv, UseTrylock(p), UNCHANGED claim
    PROVE  IInv'
<1> USE NullAssumption DEF IInv, TypeOK, Storing, Removing
<1> USE DEF UseTrylock, At, Goto, Return, locals
<1>a. l_cctx[p] \notin freed
  BY DEF StoringInv, ListInv
<1>1. TypeOK'
  BY <1>a DEF Places
<1>2. ClaimType' /\ NoFault'
  BY <1>a DEF ClaimType, NoFault
<1>3. PlaceInv'
  BY <1>a DEF PlaceInv, UserInv
<1>4. UserInv'
  BY <1>a DEF PlaceInv, UserInv
<1>5. StoringInv'
  BY <1>a DEF StoringInv, PlaceInv, UserInv
<1>6. RemovingInv'
  BY <1>a DEF RemovingInv, UserInv
<1>7. LocalsInv'
  BY <1>a DEF LocalsInv
<1>8. LockInv'
  BY <1>a DEF LockInv, LocalsInv
<1>9. ListInv'
  BY <1>a DEF ListInv
<1>10. FileInv'
  BY <1>a DEF FileInv, Dying, ListInv
<1> QED BY <1>1, <1>2, <1>3, <1>4, <1>5, <1>6, <1>7, <1>8, <1>9, <1>10

\* The place and user_ref are set together.
LEMMA PublishInv ==
    ASSUME NEW p \in Proc, IInv, UsePublish(p), UNCHANGED claim
    PROVE  IInv'
<1> USE NullAssumption DEF IInv, TypeOK, Storing, Removing
<1> USE DEF UsePublish, At, Return
<1>a. l_cctx[p] \notin freed
  BY DEF StoringInv, ListInv
<1>1. TypeOK'
  BY <1>a DEF Places
<1>2. ClaimType' /\ NoFault'
  BY <1>a DEF ClaimType, NoFault
<1>3. PlaceInv'
  BY <1>a DEF PlaceInv, UserInv, StoringInv
<1>4. UserInv'
  BY <1>a DEF PlaceInv, UserInv, StoringInv
<1>5. StoringInv'
  BY <1>a DEF StoringInv, PlaceInv, UserInv
<1>6. RemovingInv'
  BY <1>a DEF RemovingInv, UserInv, StoringInv
<1>7. LocalsInv'
  BY <1>a DEF LocalsInv
<1>8. LockInv'
  BY <1>a DEF LockInv, LocalsInv
<1>9. ListInv'
  BY <1>a DEF ListInv
<1>10. FileInv'
  BY <1>a DEF FileInv, Dying, ListInv
<1> QED BY <1>1, <1>2, <1>3, <1>4, <1>5, <1>6, <1>7, <1>8, <1>9, <1>10

\* __remove_ctx looks at user_ref.
LEMMA RemoveBeginInv ==
    ASSUME NEW p \in Proc, IInv, RemoveBegin(p), UNCHANGED claim
    PROVE  IInv'
<1> USE NullAssumption DEF IInv, TypeOK, Storing, Removing
<1> USE DEF RemoveBegin, At, CheckUser, Goto, kernVars, locals
<1>a. l_cctx[p] \notin freed
  BY DEF RemovingInv, ListInv
<1>1. TypeOK'
  BY <1>a DEF Places
<1>2. ClaimType' /\ NoFault'
  BY <1>a DEF ClaimType, NoFault
<1>3. PlaceInv'
  BY <1>a DEF PlaceInv, UserInv
<1>4. UserInv'
  BY <1>a DEF PlaceInv, UserInv
<1>5. StoringInv'
  BY <1>a DEF StoringInv, PlaceInv, UserInv
<1>6. RemovingInv'
  BY <1>a DEF RemovingInv, UserInv
<1>7. LocalsInv'
  BY <1>a DEF LocalsInv
<1>8. LockInv'
  BY <1>a DEF LockInv, LocalsInv, RemovingInv
<1>9. ListInv'
  BY <1>a DEF ListInv
<1>10. FileInv'
  BY <1>a DEF FileInv, Dying, ListInv, RemovingInv
<1> QED BY <1>1, <1>2, <1>3, <1>4, <1>5, <1>6, <1>7, <1>8, <1>9, <1>10

\* __remove_ctx empties the place.
LEMMA UnrefInv ==
    ASSUME NEW p \in Proc, IInv, RemoveUnref(p), UNCHANGED claim
    PROVE  IInv'
<1> USE NullAssumption DEF IInv, TypeOK, Storing, Removing
<1> USE DEF RemoveUnref, At, Goto, kernVars, locals
<1>a. l_cctx[p] \notin freed /\ user_ref[l_cctx[p]] # NULL /\ user_ref[l_cctx[p]] \in plugged
  BY DEF RemovingInv, ListInv, UserInv
<1>1. TypeOK'
  BY <1>a DEF Places
<1>2. ClaimType' /\ NoFault'
  BY <1>a DEF ClaimType, NoFault
<1>3. PlaceInv'
  BY <1>a DEF PlaceInv, UserInv, RemovingInv
<1>4. UserInv'
  BY <1>a DEF PlaceInv, UserInv, RemovingInv
<1>5. StoringInv'
  BY <1>a DEF StoringInv, PlaceInv, UserInv, RemovingInv
<1>6. RemovingInv'
  BY <1>a DEF RemovingInv, UserInv, PlaceInv
<1>7. LocalsInv'
  BY <1>a DEF LocalsInv
<1>8. LockInv'
  BY <1>a DEF LockInv, LocalsInv
<1>9. ListInv'
  BY <1>a DEF ListInv
<1>10. FileInv'
  BY <1>a DEF FileInv, Dying, ListInv
<1> QED BY <1>1, <1>2, <1>3, <1>4, <1>5, <1>6, <1>7, <1>8, <1>9, <1>10

\* list_del.
LEMMA UnlinkInv ==
    ASSUME NEW p \in Proc, IInv, RemoveUnlink(p), UNCHANGED claim
    PROVE  IInv'
<1> USE NullAssumption DEF IInv, TypeOK, Storing, Removing
<1> USE DEF RemoveUnlink, At, Goto, locals
<1>a. l_cctx[p] \notin freed /\ l_cctx[p] \in ctx_list
  BY DEF RemovingInv, ListInv
<1>1. TypeOK'
  BY <1>a DEF Places
<1>2. ClaimType' /\ NoFault'
  BY <1>a DEF ClaimType, NoFault
<1>3. PlaceInv'
  BY <1>a DEF PlaceInv, UserInv, RemovingInv
<1>4. UserInv'
  BY <1>a DEF PlaceInv, UserInv
<1>5. StoringInv'
  BY <1>a DEF StoringInv, PlaceInv, UserInv, RemovingInv
<1>6. RemovingInv'
  BY <1>a DEF RemovingInv, UserInv
<1>7. LocalsInv'
  BY <1>a DEF LocalsInv
<1>8. LockInv'
  BY <1>a DEF LockInv, LocalsInv, RemovingInv
<1>9. ListInv'
  BY <1>a DEF ListInv, RemovingInv
<1>10. FileInv'
  BY <1>a DEF FileInv, Dying, ListInv, RemovingInv
<1> QED BY <1>1, <1>2, <1>3, <1>4, <1>5, <1>6, <1>7, <1>8, <1>9, <1>10

\* destroy_crypto_ctx.
LEMMA FreeInv ==
    ASSUME NEW p \in Proc, IInv, Free(p), UNCHANGED claim
    PROVE  IInv'
<1> USE NullAssumption DEF IInv, TypeOK, Storing, Removing
<1> USE DEF Free, At, Goto, Return
<1>a. l_cctx[p] # NULL /\ l_cctx[p] \notin freed /\ (l_file[p] # NULL => private_data[l_file[p]] = l_cctx[p])
  BY DEF RemovingInv
<1>1. TypeOK'
  BY <1>a DEF Places
<1>2. ClaimType' /\ NoFault'
  BY <1>a DEF ClaimType, NoFault
<1>3. PlaceInv'
  BY <1>a DEF PlaceInv, UserInv, RemovingInv
<1>4. UserInv'
  BY <1>a DEF PlaceInv, UserInv
<1>5. StoringInv'
  BY <1>a DEF StoringInv, PlaceInv, UserInv
<1>6. RemovingInv'
  BY <1>a DEF RemovingInv, UserInv
<1>7. LocalsInv'
  BY <1>a DEF LocalsInv, RemovingInv
<1>8. LockInv'
  BY <1>a DEF LockInv, LocalsInv, RemovingInv
<1>9. ListInv'
  BY <1>a DEF ListInv, RemovingInv
<1>10. FileInv'
  BY <1>a DEF FileInv, Dying, ListInv, RemovingInv
<1> QED BY <1>1, <1>2, <1>3, <1>4, <1>5, <1>6, <1>7, <1>8, <1>9, <1>10

\* priv_pid_death_action takes the list lock.
LEMMA DeathBeginInv ==
    ASSUME NEW p \in Proc, IInv, DeathBegin(p), UNCHANGED claim
    PROVE  IInv'
<1> USE NullAssumption DEF IInv, TypeOK, Storing, Removing
<1> USE DEF DeathBegin, At, Goto, kernVars, locals
<1>1. TypeOK'
  BY DEF Places
<1>2. ClaimType' /\ NoFault'
  BY DEF ClaimType, NoFault
<1>3. PlaceInv'
  BY DEF PlaceInv, UserInv
<1>4. UserInv'
  BY DEF PlaceInv, UserInv
<1>5. StoringInv'
  BY DEF StoringInv, PlaceInv, UserInv
<1>6. RemovingInv'
  BY DEF RemovingInv, UserInv
<1>7. LocalsInv'
  BY DEF LocalsInv
<1>8. LockInv'
  BY DEF LockInv, LocalsInv
<1>9. ListInv'
  BY DEF ListInv
<1>10. FileInv'
  BY DEF FileInv, Dying, ListInv
<1> QED BY <1>1, <1>2, <1>3, <1>4, <1>5, <1>6, <1>7, <1>8, <1>9, <1>10

\* The next context of the dying process.
LEMMA DeathNextInv ==
    ASSUME NEW p \in Proc, IInv, NEW c \in Ctx, DeathNext(p, c), UNCHANGED claim
    PROVE  IInv'
<1> USE NullAssumption DEF IInv, TypeOK, Storing, Removing
<1> USE DEF DeathNext, At, CheckUser, Goto, kernVars
<1>a. ListIsSound
  BY DEF ListIsSound, ListInv
<1>1. TypeOK'
  BY <1>a DEF Places
<1>2. ClaimType' /\ NoFault'
  BY <1>a DEF ClaimType, NoFault
<1>3. PlaceInv'
  BY <1>a DEF PlaceInv, UserInv
<1>4. UserInv'
  BY <1>a DEF PlaceInv, UserInv
<1>5. StoringInv'
  BY <1>a DEF StoringInv, PlaceInv, UserInv
<1>6. RemovingInv'
  BY <1>a DEF RemovingInv, UserInv, LocalsInv
<1>7. LocalsInv'
  BY <1>a DEF LocalsInv
<1>8. LockInv'
  BY <1>a DEF LockInv, LocalsInv
<1>9. ListInv'
  BY <1>a DEF ListInv
<1>10. FileInv'
  BY <1>a DEF FileInv, Dying, ListInv, LocalsInv
<1> QED BY <1>1, <1>2, <1>3, <1>4, <1>5, <1>6, <1>7, <1>8, <1>9, <1>10

\* No context of the dying process is left; its devices are given back.
LEMMA DeathEndInv ==
    ASSUME NEW p \in Proc, IInv, DeathEnd(p),
           claim' = [d \in Dev |-> IF claim[d] = p THEN NULL ELSE claim[d]]
    PROVE  IInv'
<1> USE NullAssumption DEF IInv, TypeOK, Storing, Removing
<1> USE DEF DeathEnd, At, Goto, kernVars, locals
<1>1. TypeOK'
  BY DEF Places
<1>2. ClaimType' /\ NoFault'
  BY DEF ClaimType, NoFault
<1>3. PlaceInv'
  BY DEF PlaceInv, UserInv
<1>4. UserInv'
  BY DEF PlaceInv, UserInv
<1>5. StoringInv'
  BY DEF StoringInv, PlaceInv, UserInv
<1>6. RemovingInv'
  BY DEF RemovingInv, UserInv
<1>7. LocalsInv'
  BY DEF LocalsInv
<1>8. LockInv'
  BY DEF LockInv, LocalsInv
<1>9. ListInv'
  BY DEF ListInv
<1>10. FileInv'
  BY DEF FileInv, Dying, ListInv
<1> QED BY <1>1, <1>2, <1>3, <1>4, <1>5, <1>6, <1>7, <1>8, <1>9, <1>10

\* do_exit.
LEMMA ExitInv ==
    ASSUME NEW p \in Proc, IInv, Exit(p), UNCHANGED claim
    PROVE  IInv'
<1> USE NullAssumption DEF IInv, TypeOK, Storing, Removing
<1> USE DEF Exit, At, Goto, kernVars, locals
<1>1. TypeOK'
  BY DEF Places
<1>2. ClaimType' /\ NoFault'
  BY DEF ClaimType, NoFault
<1>3. PlaceInv'
  BY DEF PlaceInv, UserInv
<1>4. UserInv'
  BY DEF PlaceInv, UserInv
<1>5. StoringInv'
  BY DEF StoringInv, PlaceInv, UserInv
<1>6. RemovingInv'
  BY DEF RemovingInv, UserInv
<1>7. LocalsInv'
  BY DEF LocalsInv
<1>8. LockInv'
  BY DEF LockInv, LocalsInv
<1>9. ListInv'
  BY DEF ListInv
<1>10. FileInv'
  BY DEF FileInv, Dying, ListInv
<1> QED BY <1>1, <1>2, <1>3, <1>4, <1>5, <1>6, <1>7, <1>8, <1>9, <1>10

\* The pid is used again.
LEMMA SpawnInv ==
    ASSUME NEW p \in Proc, IInv, ClientSpawn(p)
    PROVE  IInv'
<1> USE NullAssumption DEF IInv, TypeOK, Storing, Removing
<1> USE DEF ClientSpawn, Spawn, At, Return, kernVars, Owns
<1>1. TypeOK'
  BY DEF Places
<1>2. ClaimType' /\ NoFault'
  BY DEF ClaimType, NoFault
<1>3. PlaceInv'
  BY DEF PlaceInv, UserInv
<1>4. UserInv'
  BY DEF PlaceInv, UserInv
<1>5. StoringInv'
  BY DEF StoringInv, PlaceInv, UserInv
<1>6. RemovingInv'
  BY DEF RemovingInv, UserInv
<1>7. LocalsInv'
  BY DEF LocalsInv
<1>8. LockInv'
  BY DEF LockInv, LocalsInv
<1>9. ListInv'
  BY DEF ListInv
<1>10. FileInv'
  BY DEF FileInv, Dying, ListInv
<1> QED BY <1>1, <1>2, <1>3, <1>4, <1>5, <1>6, <1>7, <1>8, <1>9, <1>10

\* The file of a dead process is opened anew.
LEMMA OpenInv ==
    ASSUME NEW p \in Proc, IInv, NEW f \in File, ClientOpen(p, f)
    PROVE  IInv'
<1> USE NullAssumption DEF IInv, TypeOK, Storing, Removing
<1> USE DEF ClientOpen, Orphan, Open, At, kernVars, locals
<1>1. TypeOK'
  BY DEF Places
<1>2. ClaimType' /\ NoFault'
  BY DEF ClaimType, NoFault
<1>3. PlaceInv'
  BY DEF PlaceInv, UserInv
<1>4. UserInv'
  BY DEF PlaceInv, UserInv
<1>5. StoringInv'
  BY DEF StoringInv, PlaceInv, UserInv
<1>6. RemovingInv'
  BY DEF RemovingInv, UserInv, ListInv, FileInv
<1>7. LocalsInv'
  BY DEF LocalsInv
<1>8. LockInv'
  BY DEF LockInv, LocalsInv
<1>9. ListInv'
  BY DEF ListInv
<1>10. FileInv'
  BY DEF FileInv, Dying, ListInv
<1> QED BY <1>1, <1>2, <1>3, <1>4, <1>5, <1>6, <1>7, <1>8, <1>9, <1>10

\* NEW_CTX.
LEMMA NewInv ==
    ASSUME NEW p \in Proc, IInv, NEW f \in File, NEW c \in Ctx, ClientNew(p, f, c)
    PROVE  IInv'
<1> USE NullAssumption DEF IInv, TypeOK, Storing, Removing
<1> USE DEF ClientNew, NewCtx, FreshId, At, locals
<1>1. TypeOK'
  BY DEF Places
<1>2. ClaimType' /\ NoFault'
  BY DEF ClaimType, NoFault
<1>3. PlaceInv'
  BY DEF PlaceInv, UserInv, ListInv
<1>4. UserInv'
  BY DEF PlaceInv, UserInv
<1>5. StoringInv'
  BY DEF StoringInv, PlaceInv, UserInv, ListInv
<1>6. RemovingInv'
  BY DEF RemovingInv, UserInv, ListInv
<1>7. LocalsInv'
  BY DEF LocalsInv
<1>8. LockInv'
  BY DEF LockInv, LocalsInv
<1>9. ListInv'
  BY DEF ListInv
<1>10. FileInv'
  BY DEF FileInv, Dying, ListInv
<1> QED BY <1>1, <1>2, <1>3, <1>4, <1>5, <1>6, <1>7, <1>8, <1>9, <1>10

\* ACTIVATE and DEACTIVATE.
LEMMA ActivateInv ==
    ASSUME NEW p \in Proc, IInv, NEW f \in File, NEW on \in BOOLEAN, ClientActivate(p, f, on)
    PROVE  IInv'
<1> USE NullAssumption DEF IInv, TypeOK, Storing, Removing
<1> USE DEF ClientActivate, Owns, SetActivated, At, locals
<1>a. private_data[f] \notin freed
  BY DEF FileInv, Dying, ListInv
<1>1. TypeOK'
  BY <1>a DEF Places
<1>2. ClaimType' /\ NoFault'
  BY <1>a DEF ClaimType, NoFault
<1>3. PlaceInv'
  BY <1>a DEF PlaceInv, UserInv
<1>4. UserInv'
  BY <1>a DEF PlaceInv, UserInv
<1>5. StoringInv'
  BY <1>a DEF StoringInv, PlaceInv, UserInv
<1>6. RemovingInv'
  BY <1>a DEF RemovingInv, UserInv
<1>7. LocalsInv'
  BY <1>a DEF LocalsInv
<1>8. LockInv'
  BY <1>a DEF LockInv, LocalsInv
<1>9. ListInv'
  BY <1>a DEF ListInv
<1>10. FileInv'
  BY <1>a DEF FileInv, Dying, ListInv
<1> QED BY <1>1, <1>2, <1>3, <1>4, <1>5, <1>6, <1>7, <1>8, <1>9, <1>10

\* DESTROY.
LEMMA DestroyInv ==
    ASSUME NEW p \in Proc, IInv, NEW f \in File, ClientDestroy(p, f)
    PROVE  IInv'
<1> USE NullAssumption DEF IInv, TypeOK, Storing, Removing
<1> USE DEF ClientDestroy, Owns, Destroy, At, Goto, kernVars
<1>1. TypeOK'
  BY DEF Places
<1>2. ClaimType' /\ NoFault'
  BY DEF ClaimType, NoFault
<1>3. PlaceInv'
  BY DEF PlaceInv, UserInv
<1>4. UserInv'
  BY DEF PlaceInv, UserInv
<1>5. StoringInv'
  BY DEF StoringInv, PlaceInv, UserInv
<1>6. RemovingInv'
  BY DEF RemovingInv, UserInv, FileInv, Dying
<1>7. LocalsInv'
  BY DEF LocalsInv
<1>8. LockInv'
  BY DEF LockInv, LocalsInv
<1>9. ListInv'
  BY DEF ListInv
<1>10. FileInv'
  BY DEF FileInv, Dying, ListInv
<1> QED BY <1>1, <1>2, <1>3, <1>4, <1>5, <1>6, <1>7, <1>8, <1>9, <1>10

\* A write to crypt_ctx_id: the place is empty, so unuse_ctx does nothing.
LEMMA StoreInv ==
    ASSUME NEW p \in Proc, IInv, NEW d \in Dev, NEW c \in Ctx, ClientStore(p, d, c)
    PROVE  IInv'
<1> USE NullAssumption DEF IInv, TypeOK, Storing, Removing
<1> USE DEF ClientStore, Store, At, Goto
<1>a. ref[d] = NULL /\ UNCHANGED <<user_lock, user_ref, fault>>
  BY DEF PlaceInv, ListInv, Unuse
<1>1. TypeOK'
  BY <1>a DEF Places
<1>2. ClaimType' /\ NoFault'
  BY <1>a DEF ClaimType, NoFault
<1>3. PlaceInv'
  BY <1>a DEF PlaceInv, UserInv
<1>4. UserInv'
  BY <1>a DEF PlaceInv, UserInv
<1>5. StoringInv'
  BY <1>a DEF StoringInv, PlaceInv, UserInv, ListInv, ClaimType
<1>6. RemovingInv'
  BY <1>a DEF RemovingInv, UserInv
<1>7. LocalsInv'
  BY <1>a DEF LocalsInv
<1>8. LockInv'
  BY <1>a DEF LockInv, LocalsInv
<1>9. ListInv'
  BY <1>a DEF ListInv
<1>10. FileInv'
  BY <1>a DEF FileInv, Dying, ListInv
<1> QED BY <1>1, <1>2, <1>3, <1>4, <1>5, <1>6, <1>7, <1>8, <1>9, <1>10

\* The device goes away and lets go of its context.
LEMMA UnplugInv ==
    ASSUME NEW d \in Dev, IInv, ClientUnplug(d)
    PROVE  IInv'
<1> USE NullAssumption DEF IInv, TypeOK, Storing, Removing
<1> USE DEF ClientUnplug, Unplug, Unuse, locals
<1>a. ref[d] \notin freed /\ (ref[d] # NULL => user_lock[ref[d]] = 0)
  BY DEF PlaceInv, ListInv
<1>1. TypeOK'
  BY <1>a DEF Places
<1>2. ClaimType' /\ NoFault'
  BY <1>a DEF ClaimType, NoFault
<1>3. PlaceInv'
  BY <1>a DEF PlaceInv, UserInv
<1>4. UserInv'
  BY <1>a DEF PlaceInv, UserInv
<1>5. StoringInv'
  BY <1>a DEF StoringInv, PlaceInv, UserInv
<1>6. RemovingInv'
  BY <1>a DEF RemovingInv, UserInv
<1>7. LocalsInv'
  BY <1>a DEF LocalsInv
<1>8. LockInv'
  BY <1>a DEF LockInv, LocalsInv
<1>9. ListInv'
  BY <1>a DEF ListInv
<1>10. FileInv'
  BY <1>a DEF FileInv, Dying, ListInv
<1> QED BY <1>1, <1>2, <1>3, <1>4, <1>5, <1>6, <1>7, <1>8, <1>9, <1>10

\* A device appears, with an empty place.
LEMMA PlugInv ==
    ASSUME NEW d \in Dev, IInv, ClientPlug(d)
    PROVE  IInv'
<1> USE NullAssumption DEF IInv, TypeOK, Storing, Removing
<1> USE DEF ClientPlug, Plug, kernVars, locals
<1>1. TypeOK'
  BY DEF Places
<1>2. ClaimType' /\ NoFault'
  BY DEF ClaimType, NoFault
<1>3. PlaceInv'
  BY DEF PlaceInv, UserInv
<1>4. UserInv'
  BY DEF PlaceInv, UserInv
<1>5. StoringInv'
  BY DEF StoringInv, PlaceInv, UserInv
<1>6. RemovingInv'
  BY DEF RemovingInv, UserInv
<1>7. LocalsInv'
  BY DEF LocalsInv
<1>8. LockInv'
  BY DEF LockInv, LocalsInv
<1>9. ListInv'
  BY DEF ListInv
<1>10. FileInv'
  BY DEF FileInv, Dying, ListInv
<1> QED BY <1>1, <1>2, <1>3, <1>4, <1>5, <1>6, <1>7, <1>8, <1>9, <1>10


\* A step of a system call leaves the claims alone, but for the last one.
LEMMA ContinueInv ==
    ASSUME NEW p \in Proc, IInv, ClientContinue(p)
    PROVE  IInv'
<1>1. CASE DeathEnd(p)
  <2>1. pc'[p] = "gone"
    BY <1>1 DEF DeathEnd, Goto, IInv, TypeOK
  <2> QED BY <1>1, <2>1, DeathEndInv DEF ClientContinue
<1>2. CASE ~DeathEnd(p)
  <2>1. pc'[p] # "gone"
    BY <1>2 DEF ClientContinue, Continue, UseFind, UseTrylock, UsePublish,
                RemoveBegin, RemoveUnref, RemoveUnlink, Free, DeathBegin,
                DeathNext, CheckUser, Fault, Goto, Return, At, IInv, TypeOK
  <2>2. UNCHANGED claim
    BY <2>1 DEF ClientContinue, IInv, ClaimType
  <2> QED BY <1>2, <2>2, FindInv, TrylockInv, PublishInv, RemoveBeginInv, UnrefInv,
             UnlinkInv, FreeInv, DeathBeginInv, DeathNextInv
          DEF ClientContinue, Continue
<1> QED BY <1>1, <1>2

\* A step that changes nothing keeps IInv.
LEMMA StutterInv == IInv /\ UNCHANGED cvars => IInv'
BY DEF IInv, TypeOK, ClaimType, NoFault, PlaceInv, UserInv, StoringInv, RemovingInv,
       LocalsInv, LockInv, ListInv, FileInv, Dying, cvars

\* IInv is inductive.
LEMMA NextInv == IInv /\ [ClientNext]_cvars => IInv'
<1> SUFFICES ASSUME IInv, [ClientNext]_cvars PROVE IInv'
  OBVIOUS
<1>1. CASE UNCHANGED cvars
  BY <1>1, StutterInv
<1>2. CASE ClientNext
  <2>1. ASSUME NEW p \in Proc, ClientContinue(p) \/ ClientExit(p) \/ ClientSpawn(p)
        PROVE  IInv'
    BY <2>1, ContinueInv, ExitInv, SpawnInv DEF ClientExit
  <2>2. ASSUME NEW p \in Proc, NEW f \in File, ClientOpen(p, f) \/ ClientDestroy(p, f)
        PROVE  IInv'
    BY <2>2, OpenInv, DestroyInv
  <2>3. ASSUME NEW d \in Dev, ClientUnplug(d) \/ ClientPlug(d)
        PROVE  IInv'
    BY <2>3, UnplugInv, PlugInv
  <2> QED BY <1>2, <2>1, <2>2, <2>3, NewInv, ActivateInv, StoreInv DEF ClientNext
<1> QED BY <1>1, <1>2

\* IInv holds in every state: the list, the places, user_lock and the local
\* variables of the system calls always fit together.
THEOREM InvariantHolds == ClientSpec => []IInv
BY InitInv, NextInv, PTL DEF ClientSpec

\* Used as QEMU uses it, the driver never touches a freed context, a place that
\* went away or a NULL pointer, for any number of processes, files and devices.
THEOREM NeverFaults == ClientSpec => []NoFault
<1>1. IInv => NoFault
  BY DEF IInv
<1> QED BY <1>1, InvariantHolds, PTL

\* Every field of the driver always has its type; user_lock stays a count of 0
\* or 1 although unuse_ctx unlocks it without having locked it.
THEOREM TypeCorrect == ClientSpec => []TypeOK
<1>1. IInv => TypeOK
  BY DEF IInv
<1> QED BY <1>1, InvariantHolds, PTL

\* No two plugged devices ever hold the same context (use_ctx, user_lock).
THEOREM UseIsExclusive == ClientSpec => []ExclusiveUse
<1>1. IInv => ExclusiveUse
  BY DEF IInv, PlaceInv, ExclusiveUse
<1> QED BY <1>1, InvariantHolds, PTL

\* A process that is gone has left no context behind (priv_pid_death_action).
THEOREM DeathCleansUp == ClientSpec => []DeadLeaveNothing
<1>1. IInv => DeadLeaveNothing
  <2> SUFFICES ASSUME IInv, NEW p \in Proc, NEW c \in Ctx,
                      pc[p] = "gone", alloc_pid[c] = p
               PROVE  c \notin ctx_list /\ c \in freed
    BY DEF DeadLeaveNothing
  <2> QED BY NullAssumption DEF IInv, ListInv
<1> QED BY <1>1, InvariantHolds, PTL

-----------------------------------------------------------------------------
(* PrivCryptClient implements CtxService. *)

\* The initial states map to initial states of CtxService.
LEMMA MapInit == ClientInit => Svc!SvcInit
BY DEF ClientInit, Init, Svc!SvcInit

\* Steps that leave list, owners, activation, places and devices alone.
LEMMA MapStutter ==
    ASSUME UNCHANGED <<ctx_list, alloc_pid, activated, ref, plugged>>
    PROVE  UNCHANGED Svc!svcVars
BY DEF Svc!svcVars

\* A step inside a system call is a step of CtxService or leaves it alone: a bind
\* is where the place is set, a removal where it is emptied.
LEMMA MapContinue ==
    ASSUME NEW p \in Proc, IInv, Continue(p)
    PROVE  [Svc!SvcNext]_(Svc!svcVars)
<1> USE NullAssumption
<1>1. CASE UsePublish(p)
  <2>1. PICK c \in Ctx, d \in Dev :
          /\ c = l_cctx[p] /\ d = l_dev[p] /\ d \in plugged /\ c \in ctx_list
          /\ ref[d] = NULL /\ user_ref[c] = NULL /\ c \notin freed
    BY <1>1 DEF UsePublish, At, IInv, TypeOK, StoringInv, Storing, ListInv
  <2>2. ref' = [ref EXCEPT ![d] = c] /\ UNCHANGED <<ctx_list, alloc_pid, activated, plugged>>
    BY <1>1, <2>1 DEF UsePublish
  <2>3. Svc!Bind(d, c)
    <3>1. \A e \in plugged : ref[e] # c
      BY <2>1 DEF IInv, TypeOK, PlaceInv
    <3>2. [e \in Dev |-> IF e \in plugged THEN ref[e] ELSE NULL]'
            = [[e \in Dev |-> IF e \in plugged THEN ref[e] ELSE NULL] EXCEPT ![d] = c]
      BY <2>1, <2>2, ZenonT(30) DEF IInv, TypeOK
    <3> QED BY <2>1, <2>2, <3>1, <3>2 DEF Svc!Bind
  <2> QED BY <2>3 DEF Svc!SvcNext
<1>2. CASE RemoveUnref(p)
  <2>1. PICK c \in Ctx, d \in Dev :
          c = l_cctx[p] /\ d = user_ref[c] /\ d \in plugged /\ ref[d] = c /\ c \notin freed
    BY <1>2 DEF RemoveUnref, At, IInv, TypeOK, RemovingInv, Removing, UserInv, ListInv
  <2>2. ref' = [ref EXCEPT ![d] = NULL] /\ UNCHANGED <<ctx_list, alloc_pid, activated, plugged>>
    BY <1>2, <2>1 DEF RemoveUnref, kernVars
  <2>3. Svc!Unbind(d)
    BY <2>1, <2>2 DEF Svc!Unbind, IInv, TypeOK
  <2> QED BY <2>3 DEF Svc!SvcNext
<1>3. CASE RemoveUnlink(p)
  <2>1. PICK c \in Ctx :
          /\ c = l_cctx[p] /\ c \in ctx_list /\ c \notin freed
          /\ \A d \in plugged : ref[d] # c
    BY <1>3 DEF RemoveUnlink, At, IInv, TypeOK, RemovingInv, Removing, ListInv, PlaceInv
  <2>2. ctx_list' = ctx_list \ {c} /\ UNCHANGED <<alloc_pid, activated, ref, plugged>>
    BY <1>3, <2>1 DEF RemoveUnlink
  <2>3. Svc!RemoveCtx(c)
    BY <2>1, <2>2 DEF Svc!RemoveCtx, IInv, TypeOK, PlaceInv
  <2> QED BY <2>3 DEF Svc!SvcNext
<1>4. CASE UseFind(p) \/ UseTrylock(p) \/ RemoveBegin(p) \/ Free(p)
  BY <1>4, MapStutter DEF UseFind, UseTrylock, RemoveBegin, Free, Fault, kernVars
<1>5. CASE DeathBegin(p) \/ DeathEnd(p) \/ \E c \in Ctx : DeathNext(p, c)
  BY <1>5, MapStutter DEF DeathBegin, DeathEnd, DeathNext, Fault, kernVars
<1> QED BY <1>1, <1>2, <1>3, <1>4, <1>5 DEF Continue

\* So is every other step.
LEMMA MapNext == IInv /\ [ClientNext]_cvars => [Svc!SvcNext]_(Svc!svcVars)
<1> SUFFICES ASSUME IInv, [ClientNext]_cvars PROVE [Svc!SvcNext]_(Svc!svcVars)
  OBVIOUS
<1> USE NullAssumption
<1>1. CASE UNCHANGED cvars
  BY <1>1, MapStutter DEF cvars
<1>2. ASSUME NEW p \in Proc, ClientContinue(p) \/ ClientExit(p) \/ ClientSpawn(p)
      PROVE  [Svc!SvcNext]_(Svc!svcVars)
  BY <1>2, MapContinue, MapStutter
     DEF ClientContinue, ClientExit, ClientSpawn, Exit, Spawn, kernVars
<1>3. ASSUME NEW p \in Proc, NEW f \in File, ClientOpen(p, f) \/ ClientDestroy(p, f)
      PROVE  [Svc!SvcNext]_(Svc!svcVars)
  BY <1>3, MapStutter DEF ClientOpen, ClientDestroy, Open, Destroy, kernVars
<1>4. ASSUME NEW p \in Proc, NEW f \in File, NEW c \in Ctx, ClientNew(p, f, c)
      PROVE  [Svc!SvcNext]_(Svc!svcVars)
  <2>1. Svc!Create(c)
    BY <1>4 DEF ClientNew, NewCtx, FreshId, Svc!Create, IInv, TypeOK
  <2> QED BY <2>1 DEF Svc!SvcNext
<1>5. ASSUME NEW p \in Proc, NEW f \in File, NEW on \in BOOLEAN, ClientActivate(p, f, on)
      PROVE  [Svc!SvcNext]_(Svc!svcVars)
  <2>1. PICK c \in ctx_list : c = private_data[f] /\ c \notin freed
    BY <1>5 DEF ClientActivate, Owns, SetActivated, At, IInv, TypeOK, FileInv, Dying,
                ListInv, Storing, Removing
  <2>2. Svc!Toggle(c, on)
    BY <1>5, <2>1 DEF ClientActivate, SetActivated, Svc!Toggle
  <2> QED BY <2>2 DEF Svc!SvcNext, IInv, TypeOK
<1>6. ASSUME NEW p \in Proc, NEW d \in Dev, NEW c \in Ctx, ClientStore(p, d, c)
      PROVE  [Svc!SvcNext]_(Svc!svcVars)
  BY <1>6, MapStutter DEF ClientStore, Store
<1>7. ASSUME NEW d \in Dev, ClientUnplug(d)
      PROVE  [Svc!SvcNext]_(Svc!svcVars)
  <2>1. d \in plugged /\ plugged' = plugged \ {d} /\ UNCHANGED <<ctx_list, alloc_pid, activated, ref>>
    BY <1>7 DEF ClientUnplug, Unplug
  <2>2. CASE ref[d] = NULL
    BY <2>1, <2>2 DEF Svc!svcVars, IInv, TypeOK
  <2>3. CASE ref[d] # NULL
    <3>1. Svc!Unbind(d)
      BY <2>1, <2>3 DEF Svc!Unbind, IInv, TypeOK
    <3> QED BY <3>1 DEF Svc!SvcNext
  <2> QED BY <2>2, <2>3
<1>8. ASSUME NEW d \in Dev, ClientPlug(d)
      PROVE  [Svc!SvcNext]_(Svc!svcVars)
  BY <1>8 DEF ClientPlug, Plug, kernVars, Svc!svcVars, IInv, TypeOK
<1> QED BY <1>1, <1>2, <1>3, <1>4, <1>5, <1>6, <1>7, <1>8 DEF ClientNext

\* Used as QEMU uses it, the driver implements the promise of priv_crypt.h.
THEOREM Implements == ClientSpec => KeepsPromise
BY MapInit, MapNext, InvariantHolds, PTL DEF ClientSpec, KeepsPromise, Svc!SvcSpec
=============================================================================
