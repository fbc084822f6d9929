---------------------------- MODULE PrivMmProofs -----------------------------
(***************************************************************************)
(* Proofs about PrivMm, for any finite numbers of processes and areas and  *)
(* any contexts and bounds.  The heart of it is CountInv: mapcount is the  *)
(* number of holders, corrected by the references that were lost and the   *)
(* ones that were never taken.                                             *)
(***************************************************************************)
EXTENDS PrivMm, FiniteSetTheorems, TLAPS

\* A process that does not run holds nothing.
IdleInv == \A p \in Proc \ running : mmctx[p] = NULL /\ areas[p] = NoAreas

\* What mapcount counts.
CountInv == \A c \in Ctx : mapcount[c] = Cardinality(Holders(c)) + lost[c] - owed[c]

\* A context that was not yet made counts nothing.  A context is live exactly as
\* long as mapcount is positive; no get revives it.
StateInv ==
    \A c \in Ctx :
        /\ state[c] = "new" => mapcount[c] = 0 /\ lost[c] = 0 /\ owed[c] = 0
        /\ state[c] = "new" => pagecount[c] = 0
        /\ state[c] = "live" => mapcount[c] > 0
        /\ state[c] \in {"destroyed", "freed"} => mapcount[c] <= 0

\* pagecount covers the entries of the tree and the one on its way out; a put that
\* saw mapcount at 0 will find it there or below.
PageInv ==
    \A c \in Ctx :
        /\ pagecount[c] >= entries[c] + (IF putting[c] = "no" THEN 0 ELSE 1)
        /\ putting[c] = "zero" => mapcount[c] <= 0

MmInv == MmTypeOK /\ IdleInv /\ CountInv /\ StateInv /\ PageInv

-----------------------------------------------------------------------------
(* Counting holders. *)

Value == Ctx \cup {NULL, None}
Bit(x, c) == IF x = c THEN 1 ELSE 0
AreasIn(f, c) == {a \in Area : f[a] = c}

\* The holders for given contexts mm of the processes and ar of their areas.
Held(mm, ar, c) ==
    {h \in Proc \X Area : ar[h[1]][h[2]] = c}
        \cup {<<p, NULL>> : p \in {q \in Proc : mm[q] = c}}
Rest(mm, ar, p, c) == {h \in Held(mm, ar, c) : h[1] # p}

\* Setting one area changes the number of areas with a context by at most one.
LEMMA AreaCount ==
    ASSUME NEW f \in [Area -> Value], NEW a \in Area, NEW v \in Value, NEW c \in Ctx
    PROVE  /\ Cardinality(AreasIn(f, c)) \in Nat
           /\ Cardinality(AreasIn([f EXCEPT ![a] = v], c))
                = Cardinality(AreasIn(f, c)) - Bit(f[a], c) + Bit(v, c)
<1> DEFINE R == AreasIn(f, c) \ {a}
           g == [f EXCEPT ![a] = v]
<1>1. IsFiniteSet(Area)
  BY MmAssumption
<1>2. IsFiniteSet(R) /\ IsFiniteSet(AreasIn(f, c)) /\ a \notin R
  BY <1>1, FS_Subset DEF AreasIn
<1>3. Cardinality(R) \in Nat /\ Cardinality(AreasIn(f, c)) \in Nat
  BY <1>2, FS_CardinalityType
<1>4. Cardinality(R \cup {a}) = Cardinality(R) + 1
  BY <1>2, FS_AddElement
<1>5. AreasIn(f, c) = IF f[a] = c THEN R \cup {a} ELSE R
  BY DEF AreasIn
<1>6. AreasIn(g, c) = IF v = c THEN R \cup {a} ELSE R
  BY DEF AreasIn
<1> HIDE DEF R, g
<1>7. Cardinality(AreasIn(f, c)) = Cardinality(R) + Bit(f[a], c)
  BY <1>3, <1>4, <1>5 DEF Bit
<1>8. Cardinality(AreasIn(g, c)) = Cardinality(R) + Bit(v, c)
  BY <1>3, <1>4, <1>6 DEF Bit
<1> QED BY <1>3, <1>7, <1>8 DEF g, Bit

\* The size of a disjoint union.
LEMMA DisjointCount ==
    ASSUME NEW S, NEW T, IsFiniteSet(S), IsFiniteSet(T), S \cap T = {}
    PROVE  IsFiniteSet(S \cup T) /\ Cardinality(S \cup T) = Cardinality(S) + Cardinality(T)
<1>1. Cardinality(S) \in Nat /\ Cardinality(T) \in Nat
  BY FS_CardinalityType
<1>2. Cardinality(S \cap T) = 0
  BY FS_EmptySet
<1>3. /\ IsFiniteSet(S \cup T)
      /\ Cardinality(S \cup T) = Cardinality(S) + Cardinality(T) - Cardinality(S \cap T)
  BY FS_Union
<1> QED BY <1>1, <1>2, <1>3

\* The holders of c are those of one process and the rest.
LEMMA HeldCount ==
    ASSUME NEW mm \in [Proc -> Ctx \cup {NULL}], NEW ar \in [Proc -> [Area -> Value]],
           NEW p \in Proc, NEW c \in Ctx
    PROVE  /\ IsFiniteSet(Held(mm, ar, c))
           /\ Cardinality(Rest(mm, ar, p, c)) \in Nat
           /\ Cardinality(AreasIn(ar[p], c)) \in Nat
           /\ Cardinality(Held(mm, ar, c))
                = Cardinality(Rest(mm, ar, p, c)) + Cardinality(AreasIn(ar[p], c)) + Bit(mm[p], c)
<1> DEFINE R == Rest(mm, ar, p, c)
           A == {p} \X AreasIn(ar[p], c)
           M == IF mm[p] = c THEN {<<p, NULL>>} ELSE {}
<1>1. IsFiniteSet(Proc) /\ IsFiniteSet(Area) /\ NULL \notin Area
  BY MmAssumption
<1>2. IsFiniteSet(Held(mm, ar, c))
  <2>1. IsFiniteSet(Area \cup {NULL})
    BY <1>1, FS_AddElement
  <2>2. IsFiniteSet(Proc \X (Area \cup {NULL}))
    BY <1>1, <2>1, FS_Product
  <2>3. Held(mm, ar, c) \subseteq Proc \X (Area \cup {NULL})
    BY DEF Held
  <2> QED BY <2>2, <2>3, FS_Subset
<1>3. IsFiniteSet(R) /\ Cardinality(R) \in Nat
  BY <1>2, FS_Subset, FS_CardinalityType DEF Rest
<1>4. IsFiniteSet(AreasIn(ar[p], c)) /\ Cardinality(AreasIn(ar[p], c)) \in Nat
  BY <1>1, FS_Subset, FS_CardinalityType DEF AreasIn
<1>5. IsFiniteSet(A) /\ Cardinality(A) = Cardinality(AreasIn(ar[p], c))
  <2>1. IsFiniteSet({p}) /\ Cardinality({p}) = 1
    BY FS_Singleton
  <2>2. IsFiniteSet(A) /\ Cardinality(A) = Cardinality({p}) * Cardinality(AreasIn(ar[p], c))
    BY <1>4, <2>1, FS_Product
  <2>3. \A n \in Nat : 1 * n = n
    OBVIOUS
  <2> HIDE DEF A
  <2> QED BY <1>4, <2>1, <2>2, <2>3
<1>6. IsFiniteSet(M) /\ Cardinality(M) = Bit(mm[p], c)
  BY FS_Singleton, FS_EmptySet DEF Bit
<1>7. Held(mm, ar, c) = (R \cup A) \cup M
  <2>1. ASSUME NEW h \in Held(mm, ar, c), h[1] = p
        PROVE  h \in A \cup M
    BY <2>1 DEF Held, AreasIn
  <2>2. A \subseteq Held(mm, ar, c)
    BY DEF Held, AreasIn
  <2>3. M \subseteq Held(mm, ar, c)
    BY DEF Held
  <2> QED BY <2>1, <2>2, <2>3 DEF Rest
<1>8. R \cap A = {} /\ (R \cup A) \cap M = {}
  <2>1. \A h \in A \cup M : h[1] = p
    BY DEF AreasIn
  <2>2. \A h \in R : h[1] # p
    BY DEF Rest
  <2>3. \A h \in A : h[2] # NULL
    BY <1>1 DEF AreasIn
  <2>4. \A h \in M : h[2] = NULL
    OBVIOUS
  <2> HIDE DEF R, A, M
  <2> QED BY <2>1, <2>2, <2>3, <2>4
<1> HIDE DEF R, A, M
<1>9. IsFiniteSet(R \cup A) /\ Cardinality(R \cup A) = Cardinality(R) + Cardinality(A)
  BY <1>3, <1>5, <1>8, DisjointCount
<1>10. Cardinality((R \cup A) \cup M) = Cardinality(R \cup A) + Cardinality(M)
  BY <1>6, <1>8, <1>9, DisjointCount
<1> QED BY <1>2, <1>3, <1>4, <1>5, <1>6, <1>7, <1>9, <1>10 DEF R

\* The number of areas of p with c, and of holders of c.
Areas(p, c) == Cardinality(AreasIn(areas[p], c))
Count(c) == Cardinality(Held(mmctx, areas, c))

\* The counts are numbers, and a context is held unless its count is 0.
LEMMA Counts ==
    ASSUME MmTypeOK, NEW c \in Ctx
    PROVE  /\ Holders(c) = Held(mmctx, areas, c)
           /\ Count(c) \in Nat
           /\ Holders(c) = {} <=> Count(c) = 0
           /\ \A p \in Proc : Areas(p, c) \in Nat
           /\ \A p \in Proc : Count(c) >= Areas(p, c) + Bit(mmctx[p], c)
<1>1. Holders(c) = Held(mmctx, areas, c)
  BY DEF Holders, Held
<1>2. mmctx \in [Proc -> Ctx \cup {NULL}] /\ areas \in [Proc -> [Area -> Value]]
  BY DEF MmTypeOK, Value
<1>3. IsFiniteSet(Held(mmctx, areas, c))
  <2>1. CASE Proc = {}
    <3>1. Held(mmctx, areas, c) = {}
      BY <2>1 DEF Held
    <3> QED BY <3>1, FS_EmptySet
  <2>2. CASE Proc # {}
    <3>1. PICK p \in Proc : TRUE
      BY <2>2
    <3> QED BY <1>2, <3>1, HeldCount
  <2> QED BY <2>1, <2>2
<1>4. Count(c) \in Nat /\ (Held(mmctx, areas, c) = {} <=> Count(c) = 0)
  BY <1>3, FS_CardinalityType, FS_EmptySet DEF Count
<1>5. ASSUME NEW p \in Proc
      PROVE  Areas(p, c) \in Nat /\ Count(c) >= Areas(p, c) + Bit(mmctx[p], c)
  <2>1. /\ Cardinality(Rest(mmctx, areas, p, c)) \in Nat
        /\ Cardinality(AreasIn(areas[p], c)) \in Nat
        /\ Cardinality(Held(mmctx, areas, c))
             = Cardinality(Rest(mmctx, areas, p, c)) + Cardinality(AreasIn(areas[p], c))
                   + Bit(mmctx[p], c)
    BY <1>2, HeldCount
  <2> QED BY <2>1 DEF Areas, Count, Bit
<1> QED BY <1>1, <1>4, <1>5

\* When the mm and the areas of p alone change, the count changes by theirs.
LEMMA ChangeOne ==
    ASSUME MmTypeOK, MmTypeOK', NEW p \in Proc, NEW c \in Ctx,
           \A q \in Proc \ {p} : mmctx'[q] = mmctx[q] /\ areas'[q] = areas[q]
    PROVE  Count(c)' = Count(c) + (Areas(p, c)' - Areas(p, c))
                           + (Bit(mmctx'[p], c) - Bit(mmctx[p], c))
<1>1. /\ mmctx \in [Proc -> Ctx \cup {NULL}] /\ areas \in [Proc -> [Area -> Value]]
      /\ mmctx' \in [Proc -> Ctx \cup {NULL}] /\ areas' \in [Proc -> [Area -> Value]]
  BY DEF MmTypeOK, Value
<1>2. Rest(mmctx', areas', p, c) = Rest(mmctx, areas, p, c)
  <2> DEFINE A == {h \in Proc \X Area : areas[h[1]][h[2]] = c /\ h[1] # p}
             A1 == {h \in Proc \X Area : areas'[h[1]][h[2]] = c /\ h[1] # p}
             M == {q \in Proc : mmctx[q] = c /\ q # p}
             M1 == {q \in Proc : mmctx'[q] = c /\ q # p}
  <2>1. A = A1
    OBVIOUS
  <2>2. M = M1
    OBVIOUS
  <2>3. Rest(mmctx, areas, p, c) = A \cup {<<q, NULL>> : q \in M}
    BY DEF Rest, Held
  <2>4. Rest(mmctx', areas', p, c) = A1 \cup {<<q, NULL>> : q \in M1}
    BY DEF Rest, Held
  <2> HIDE DEF A, A1, M, M1
  <2> QED BY <2>1, <2>2, <2>3, <2>4
<1>3. /\ Cardinality(Rest(mmctx, areas, p, c)) \in Nat
      /\ Cardinality(AreasIn(areas[p], c)) \in Nat
      /\ Cardinality(Held(mmctx, areas, c))
           = Cardinality(Rest(mmctx, areas, p, c)) + Cardinality(AreasIn(areas[p], c))
                 + Bit(mmctx[p], c)
  BY <1>1, HeldCount
<1>4. /\ Cardinality(AreasIn(areas'[p], c)) \in Nat
      /\ Cardinality(Held(mmctx', areas', c))
           = Cardinality(Rest(mmctx', areas', p, c)) + Cardinality(AreasIn(areas'[p], c))
                 + Bit(mmctx'[p], c)
  BY <1>1, HeldCount
<1> QED BY <1>2, <1>3, <1>4 DEF Areas, Count, Bit

\* Areas without a context are not counted.
LEMMA NoneCounted ==
    ASSUME NEW f \in [Area -> {NULL, None}], NEW c \in Ctx
    PROVE  Cardinality(AreasIn(f, c)) = 0
<1>1. AreasIn(f, c) = {}
  BY MmAssumption DEF AreasIn
<1> QED BY <1>1, FS_EmptySet

\* The references that are given back, in terms of the counts.
LEMMA PutCounts ==
    ASSUME MmTypeOK, NEW p \in Proc
    PROVE  /\ AreaPuts(p, Area) = [c \in Ctx |-> Areas(p, c)]
           /\ ExitPuts(p) = [c \in Ctx |-> Areas(p, c) + Bit(mmctx[p], c)]
           /\ \A a \in Area : AreaPuts(p, {a}) = [c \in Ctx |-> Bit(areas[p][a], c)]
           /\ \A S \in SUBSET Area, c \in Ctx :
                 AreaPuts(p, S)[c] \in Nat /\ AreaPuts(p, S)[c] <= Areas(p, c)
<1>1. ASSUME NEW c \in Ctx
      PROVE  AreasWith(p, c) = AreasIn(areas[p], c) /\ IsFiniteSet(AreasWith(p, c))
  BY MmAssumption, FS_Subset DEF AreasWith, AreasIn
<1>2. AreaPuts(p, Area) = [c \in Ctx |-> Areas(p, c)]
  <2>1. \A c \in Ctx : Area \cap AreasWith(p, c) = AreasIn(areas[p], c)
    BY DEF AreasWith, AreasIn
  <2> QED BY <2>1 DEF AreaPuts, Areas
<1>3. ExitPuts(p) = [c \in Ctx |-> Areas(p, c) + Bit(mmctx[p], c)]
  BY <1>1 DEF ExitPuts, Areas, Bit
<1>4. ASSUME NEW a \in Area, NEW c \in Ctx
      PROVE  Cardinality({a} \cap AreasWith(p, c)) = Bit(areas[p][a], c)
  <2>1. {a} \cap AreasWith(p, c) = IF areas[p][a] = c THEN {a} ELSE {}
    BY DEF AreasWith
  <2> QED BY <2>1, FS_Singleton, FS_EmptySet DEF Bit
<1>5. ASSUME NEW S \in SUBSET Area, NEW c \in Ctx
      PROVE  AreaPuts(p, S)[c] \in Nat /\ AreaPuts(p, S)[c] <= Areas(p, c)
  <2>1. /\ IsFiniteSet(S \cap AreasWith(p, c))
        /\ Cardinality(S \cap AreasWith(p, c)) <= Cardinality(AreasWith(p, c))
    BY <1>1, FS_Subset
  <2>2. Cardinality(S \cap AreasWith(p, c)) \in Nat
    BY <2>1, FS_CardinalityType
  <2> QED BY <1>1, <2>1, <2>2 DEF AreaPuts, Areas
<1> QED BY <1>2, <1>3, <1>4, <1>5 DEF AreaPuts

\* Nothing holds a context that was not yet made.
LEMMA NewUnheld ==
    ASSUME MmInv, NEW c \in Ctx, state[c] = "new"
    PROVE  /\ Count(c) = 0
           /\ \A p \in Proc : mmctx[p] # c /\ Areas(p, c) = 0 /\ \A a \in Area : areas[p][a] # c
<1>1. Count(c) = 0
  <2>1. Count(c) + lost[c] - owed[c] = 0 /\ lost[c] = 0 /\ owed[c] = 0
    BY Counts DEF MmInv, CountInv, StateInv, Count
  <2> QED BY <2>1, Counts DEF MmInv
<1>2. ASSUME NEW p \in Proc
      PROVE  Areas(p, c) = 0 /\ mmctx[p] # c
  BY <1>1, Counts DEF MmInv, Bit
<1>3. ASSUME NEW p \in Proc, NEW a \in Area
      PROVE  areas[p][a] # c
  <2>1. Holders(c) = {}
    BY <1>1, Counts DEF MmInv
  <2>2. ASSUME areas[p][a] = c
        PROVE  <<p, a>> \in Holders(c)
    BY <2>2 DEF Holders
  <2> QED BY <2>1, <2>2
<1> QED BY <1>1, <1>2, <1>3
\* Nothing of a process that does not run is counted.
LEMMA IdleUncounted ==
    ASSUME MmInv, NEW p \in Proc, p \notin running, NEW c \in Ctx
    PROVE  Areas(p, c) = 0 /\ Bit(mmctx[p], c) = 0
<1>1. areas[p] \in [Area -> {NULL, None}] /\ mmctx[p] = NULL
  BY DEF MmInv, IdleInv, NoAreas
<1> QED BY <1>1, NoneCounted, MmAssumption DEF Areas, Bit

-----------------------------------------------------------------------------
(* What a step does to a context: it takes at most one reference, unless the
   context has none, gives some back, or makes it. *)

Kept(c) ==
    /\ state'[c] = state[c]
    /\ \/ mapcount'[c] = mapcount[c]
       \/ mapcount[c] # 0 /\ mapcount'[c] = mapcount[c] + 1
GivenBack(c, k) ==
    /\ k \in Nat
    /\ mapcount'[c] = mapcount[c] - k
    /\ state'[c] = IF state[c] = "live" /\ mapcount[c] > 0 /\ mapcount[c] <= k
                   THEN IF pagecount[c] = 0 THEN "freed" ELSE "destroyed"
                   ELSE state[c]
Made(c) == state[c] = "new" /\ state'[c] = "live" /\ mapcount'[c] = 1

\* Steps of processes and areas keep the parts of the invariant about contexts.
LEMMA ContextsKept ==
    ASSUME MmInv, UNCHANGED pageVars, mapcount' \in [Ctx -> Int],
           \A c \in Ctx : Kept(c) \/ Made(c) \/ \E k : GivenBack(c, k),
           \A c \in Ctx : state'[c] = "new" =>
               mapcount'[c] = mapcount[c] /\ lost'[c] = lost[c] /\ owed'[c] = owed[c]
    PROVE  /\ \A c \in Ctx : state'[c] \in {"new", "live", "destroyed", "freed"}
           /\ StateInv' /\ PageInv'
<1> SUFFICES ASSUME NEW c \in Ctx
             PROVE  /\ state'[c] \in {"new", "live", "destroyed", "freed"}
                    /\ state'[c] = "new" => mapcount'[c] = 0 /\ lost'[c] = 0 /\ owed'[c] = 0
                    /\ state'[c] = "new" => pagecount[c] = 0
                    /\ state'[c] = "live" => mapcount'[c] > 0
                    /\ state'[c] \in {"destroyed", "freed"} => mapcount'[c] <= 0
                    /\ putting[c] = "zero" => mapcount'[c] <= 0
  BY DEF StateInv, PageInv, pageVars, MmInv
<1>1. /\ mapcount[c] \in Int /\ pagecount[c] \in Nat /\ entries[c] \in Nat
      /\ state[c] \in {"new", "live", "destroyed", "freed"}
      /\ putting[c] \in {"no", "zero", "mapped"}
      /\ mapcount'[c] \in Int
  BY DEF MmInv, MmTypeOK
<1>2. /\ state[c] = "new" => mapcount[c] = 0 /\ lost[c] = 0 /\ owed[c] = 0
      /\ state[c] = "new" => pagecount[c] = 0
      /\ state[c] = "live" => mapcount[c] > 0
      /\ state[c] \in {"destroyed", "freed"} => mapcount[c] <= 0
      /\ pagecount[c] >= entries[c] + (IF putting[c] = "no" THEN 0 ELSE 1)
      /\ putting[c] = "zero" => mapcount[c] <= 0
  BY DEF MmInv, StateInv, PageInv
<1>3. CASE Kept(c)
  BY <1>1, <1>2, <1>3 DEF Kept
<1>4. CASE Made(c)
  BY <1>1, <1>2, <1>4 DEF Made
<1>5. CASE \E k : GivenBack(c, k)
  <2>1. PICK k : GivenBack(c, k)
    BY <1>5
  <2> QED BY <1>1, <1>2, <2>1 DEF GivenBack
<1> QED BY <1>3, <1>4, <1>5

\* The count of holders and the corrections move together.
LEMMA CountKept ==
    ASSUME MmInv, MmTypeOK',
           \A c \in Ctx : /\ Count(c)' \in Int
                          /\ mapcount'[c] - lost'[c] + owed'[c] - Count(c)'
                               = mapcount[c] - lost[c] + owed[c] - Count(c)
    PROVE  CountInv'
<1> SUFFICES ASSUME NEW c \in Ctx
             PROVE  mapcount'[c] = Cardinality(Holders(c)') + lost'[c] - owed'[c]
  BY DEF CountInv
<1>1. Holders(c)' = Held(mmctx', areas', c)
  BY DEF Holders, Held
<1>2. mapcount[c] = Count(c) + lost[c] - owed[c] /\ Count(c) \in Nat
  BY Counts DEF MmInv, CountInv, Count
<1>3. /\ mapcount[c] \in Int /\ lost[c] \in Nat /\ owed[c] \in Nat
      /\ mapcount'[c] \in Int /\ lost'[c] \in Nat /\ owed'[c] \in Nat
  BY DEF MmInv, MmTypeOK
<1>4. Count(c)' = Cardinality(Held(mmctx', areas', c))
  BY DEF Count
<1> QED BY <1>1, <1>2, <1>3, <1>4

\* Both together, for a step that changes the mm and the areas of p alone.
LEMMA StepKeeps ==
    ASSUME MmInv, MmTypeOK', IdleInv', UNCHANGED pageVars, NEW p \in Proc,
           \A q \in Proc \ {p} : mmctx'[q] = mmctx[q] /\ areas'[q] = areas[q],
           \A c \in Ctx : Kept(c) \/ Made(c) \/ \E k : GivenBack(c, k),
           \A c \in Ctx : state'[c] = "new" =>
               mapcount'[c] = mapcount[c] /\ lost'[c] = lost[c] /\ owed'[c] = owed[c],
           \A c \in Ctx :
               mapcount'[c] - lost'[c] + owed'[c]
                 = mapcount[c] - lost[c] + owed[c] + (Areas(p, c)' - Areas(p, c))
                       + (Bit(mmctx'[p], c) - Bit(mmctx[p], c))
    PROVE  MmInv'
<1>1. MmTypeOK
  BY DEF MmInv
<1>2. mapcount' \in [Ctx -> Int]
  BY DEF MmTypeOK
<1>3. StateInv' /\ PageInv'
  BY <1>2, ContextsKept
<1>4. ASSUME NEW c \in Ctx
      PROVE  /\ Count(c)' \in Int
             /\ mapcount'[c] - lost'[c] + owed'[c] - Count(c)'
                  = mapcount[c] - lost[c] + owed[c] - Count(c)
  <2>1. Count(c)' = Count(c) + (Areas(p, c)' - Areas(p, c)) + (Bit(mmctx'[p], c) - Bit(mmctx[p], c))
    BY <1>1, ChangeOne
  <2>2. Count(c) \in Nat /\ Areas(p, c) \in Nat
    BY <1>1, Counts
  <2>3. Areas(p, c)' \in Nat
    <3>1. IsFiniteSet(AreasIn(areas'[p], c))
      BY MmAssumption, FS_Subset DEF AreasIn
    <3> QED BY <3>1, FS_CardinalityType DEF Areas
  <2>4. /\ mapcount[c] \in Int /\ lost[c] \in Nat /\ owed[c] \in Nat
        /\ mapcount'[c] \in Int /\ lost'[c] \in Nat /\ owed'[c] \in Nat
    BY <1>1 DEF MmTypeOK
  <2> QED BY <2>1, <2>2, <2>3, <2>4 DEF Bit
<1>5. CountInv'
  BY <1>4, CountKept
<1> QED BY <1>3, <1>5 DEF MmInv

-----------------------------------------------------------------------------
(* The steps of processes. *)

LEMMA StartPrivateKeeps ==
    ASSUME MmInv, NEW p \in Proc, NEW c \in Ctx, NEW a \in Area, StartPrivate(p, c, a)
    PROVE  MmInv'
<1> USE DEF MmInv
<1>1. MmTypeOK' /\ IdleInv' /\ UNCHANGED pageVars
  BY DEF StartPrivate, MmTypeOK, IdleInv, pageVars, NoAreas
<1>2. \A q \in Proc \ {p} : mmctx'[q] = mmctx[q] /\ areas'[q] = areas[q]
  BY DEF StartPrivate, MmTypeOK
<1>3. \A d \in Ctx : Kept(d) \/ Made(d)
  BY DEF StartPrivate, MmTypeOK, New, Kept, Made
<1>4. \A d \in Ctx : state'[d] = "new" =>
          mapcount'[d] = mapcount[d] /\ lost'[d] = lost[d] /\ owed'[d] = owed[d]
  BY DEF StartPrivate, MmTypeOK
<1>5. ASSUME NEW d \in Ctx
      PROVE  mapcount'[d] - lost'[d] + owed'[d]
               = mapcount[d] - lost[d] + owed[d] + (Areas(p, d)' - Areas(p, d))
                     + (Bit(mmctx'[p], d) - Bit(mmctx[p], d))
  <2>1. Areas(p, d) = 0 /\ Bit(mmctx[p], d) = 0
    BY IdleUncounted DEF StartPrivate
  <2>2. Areas(p, d)' = 0 /\ mmctx'[p] = c
    <3>1. areas'[p] \in [Area -> {NULL, None}] /\ mmctx'[p] = c
      BY DEF StartPrivate, MmTypeOK, NoAreas
    <3>2. Areas(p, d)' = Cardinality(AreasIn(areas'[p], d))
      BY DEF Areas
    <3> QED BY <3>1, <3>2, NoneCounted
  <2>3. mapcount'[d] = mapcount[d] + Bit(c, d) /\ lost' = lost /\ owed' = owed
    BY DEF StartPrivate, New, StateInv, MmTypeOK, Bit
  <2>4. mapcount[d] \in Int /\ lost[d] \in Nat /\ owed[d] \in Nat /\ Bit(c, d) \in Nat
    BY DEF MmTypeOK, Bit
  <2> QED BY <2>1, <2>2, <2>3, <2>4
<1> HIDE DEF MmInv
<1> QED BY <1>1, <1>2, <1>3, <1>4, <1>5, StepKeeps

LEMMA ForkKeeps ==
    ASSUME MmInv, NEW p \in Proc, NEW q \in Proc, Fork(p, q)
    PROVE  MmInv'
<1> USE DEF MmInv
<1> DEFINE got == IF CanGet(mmctx[p]) THEN One(mmctx[p]) ELSE Nothing
<1>1. AreaPuts(p, Area) = [c \in Ctx |-> Areas(p, c)] /\ \A c \in Ctx : Areas(p, c) \in Nat
  BY PutCounts, Counts
<1>2. /\ got \in [Ctx -> 0 .. 1]
      /\ \A c \in Ctx : got[c] = 1 => mapcount[c] # 0
      /\ mapcount' = Plus(mapcount, got)
      /\ owed' = Plus(owed, AreaPuts(p, Area))
  <2>1. Plus(mapcount, Nothing) = mapcount
    BY DEF Plus, Nothing, MmTypeOK
  <2> QED BY <2>1 DEF Fork, CanGet, One, Nothing
<1>3. mmctx' = [mmctx EXCEPT ![q] = IF CanGet(mmctx[p]) THEN mmctx[p] ELSE NULL]
  BY DEF Fork, IdleInv, MmTypeOK
<1>4. /\ running' = running \cup {q} /\ areas' = [areas EXCEPT ![q] = areas[p]]
      /\ UNCHANGED <<state, pageVars, lost>> /\ p \in running /\ q \notin running
  BY DEF Fork
<1> HIDE DEF got
<1>5. MmTypeOK' /\ IdleInv' /\ UNCHANGED pageVars
  <2>1. mapcount' \in [Ctx -> Int] /\ owed' \in [Ctx -> Nat]
    BY <1>1, <1>2 DEF MmTypeOK, Plus
  <2>2. /\ mmctx' \in [Proc -> Ctx \cup {NULL}]
        /\ areas' \in [Proc -> [Area -> Ctx \cup {NULL, None}]]
    BY <1>3, <1>4 DEF MmTypeOK
  <2>3. MmTypeOK'
    BY <1>4, <2>1, <2>2 DEF MmTypeOK, pageVars
  <2>4. IdleInv'
    BY <1>3, <1>4 DEF MmTypeOK, IdleInv, NoAreas
  <2> QED BY <1>4, <2>3, <2>4
<1>6. \A r \in Proc \ {q} : mmctx'[r] = mmctx[r] /\ areas'[r] = areas[r]
  BY <1>3, <1>4 DEF MmTypeOK
<1>7. \A c \in Ctx : Kept(c)
  BY <1>2, <1>4 DEF MmTypeOK, Kept, Plus
<1>8. \A c \in Ctx : state'[c] = "new" =>
          mapcount'[c] = mapcount[c] /\ lost'[c] = lost[c] /\ owed'[c] = owed[c]
  BY <1>1, <1>2, <1>4, NewUnheld DEF MmTypeOK, Plus, StateInv
<1>9. ASSUME NEW d \in Ctx
      PROVE  mapcount'[d] - lost'[d] + owed'[d]
               = mapcount[d] - lost[d] + owed[d] + (Areas(q, d)' - Areas(q, d))
                     + (Bit(mmctx'[q], d) - Bit(mmctx[q], d))
  <2>1. Areas(q, d) = 0 /\ Bit(mmctx[q], d) = 0
    BY <1>4, IdleUncounted
  <2>2. Areas(q, d)' = Areas(p, d)
    BY <1>4 DEF Areas, MmTypeOK
  <2>3. Bit(mmctx'[q], d) = got[d]
    BY <1>3, MmAssumption DEF got, One, Nothing, Bit, CanGet, MmTypeOK
  <2>4. /\ mapcount'[d] = mapcount[d] + got[d] /\ owed'[d] = owed[d] + Areas(p, d)
        /\ lost' = lost
    BY <1>1, <1>2, <1>4 DEF Plus
  <2>5. /\ mapcount[d] \in Int /\ lost[d] \in Nat /\ owed[d] \in Nat /\ got[d] \in Nat
        /\ Areas(p, d) \in Nat
    BY <1>1, <1>2 DEF MmTypeOK
  <2> QED BY <2>1, <2>2, <2>3, <2>4, <2>5
<1> HIDE DEF MmInv
<1> QED BY <1>5, <1>6, <1>7, <1>8, <1>9, StepKeeps
LEMMA ForkPrivateKeeps ==
    ASSUME MmInv, NEW p \in Proc, NEW q \in Proc, NEW c \in Ctx, ForkPrivate(p, q, c)
    PROVE  MmInv'
<1> USE DEF MmInv
<1> DEFINE leak == IF CanGet(mmctx[p]) THEN One(mmctx[p]) ELSE Nothing
<1>1. AreaPuts(p, Area) = [d \in Ctx |-> Areas(p, d)] /\ \A d \in Ctx : Areas(p, d) \in Nat
  BY PutCounts, Counts
<1>2. /\ leak \in [Ctx -> 0 .. 1]
      /\ \A d \in Ctx : leak[d] = 1 => mapcount[d] # 0
  BY DEF CanGet, One, Nothing
<1>3. /\ mapcount' = Plus(Plus(mapcount, leak), One(c))
      /\ lost' = Plus(lost, leak)
      /\ owed' = Plus(owed, AreaPuts(p, Area))
  BY DEF ForkPrivate
<1>4. /\ running' = running \cup {q} /\ areas' = [areas EXCEPT ![q] = areas[p]]
      /\ mmctx' = [mmctx EXCEPT ![q] = c]
      /\ UNCHANGED pageVars /\ p \in running /\ q \notin running
      /\ state[c] = "new" /\ state' = [state EXCEPT ![c] = "live"]
  BY DEF ForkPrivate, New
<1> HIDE DEF leak
<1>5. MmTypeOK' /\ IdleInv'
  <2>1. /\ mapcount' \in [Ctx -> Int] /\ owed' \in [Ctx -> Nat] /\ lost' \in [Ctx -> Nat]
    BY <1>1, <1>2, <1>3 DEF MmTypeOK, Plus, One
  <2>2. /\ mmctx' \in [Proc -> Ctx \cup {NULL}]
        /\ areas' \in [Proc -> [Area -> Ctx \cup {NULL, None}]]
    BY <1>4 DEF MmTypeOK
  <2>3. MmTypeOK'
    BY <1>4, <2>1, <2>2 DEF MmTypeOK, pageVars
  <2>4. IdleInv'
    BY <1>4 DEF MmTypeOK, IdleInv, NoAreas
  <2> QED BY <2>3, <2>4
<1>6. \A r \in Proc \ {q} : mmctx'[r] = mmctx[r] /\ areas'[r] = areas[r]
  BY <1>4 DEF MmTypeOK
<1>7. \A d \in Ctx : /\ mapcount'[d] = mapcount[d] + leak[d] + Bit(c, d)
                     /\ lost'[d] = lost[d] + leak[d]
                     /\ owed'[d] = owed[d] + Areas(p, d)
                     /\ mapcount[d] \in Int /\ lost[d] \in Nat /\ owed[d] \in Nat
                     /\ leak[d] \in 0 .. 1 /\ Areas(p, d) \in Nat /\ Bit(c, d) \in 0 .. 1
  BY <1>1, <1>2, <1>3 DEF MmTypeOK, Plus, One, Bit
<1>8. \A d \in Ctx : Kept(d) \/ Made(d)
  <2>1. mapcount[c] = 0
    BY <1>4 DEF StateInv
  <2> QED BY <1>2, <1>4, <1>7, <2>1 DEF MmTypeOK, Kept, Made, Bit
<1>9. \A d \in Ctx : state'[d] = "new" =>
          mapcount'[d] = mapcount[d] /\ lost'[d] = lost[d] /\ owed'[d] = owed[d]
  <2> SUFFICES ASSUME NEW d \in Ctx, state'[d] = "new"
               PROVE  leak[d] = 0 /\ Bit(c, d) = 0 /\ Areas(p, d) = 0
    BY <1>7
  <2>1. state[d] = "new" /\ d # c
    BY <1>4 DEF MmTypeOK
  <2> QED BY <1>2, <2>1, NewUnheld DEF StateInv, Bit
<1>10. ASSUME NEW d \in Ctx
       PROVE  mapcount'[d] - lost'[d] + owed'[d]
                = mapcount[d] - lost[d] + owed[d] + (Areas(q, d)' - Areas(q, d))
                      + (Bit(mmctx'[q], d) - Bit(mmctx[q], d))
  <2>1. Areas(q, d) = 0 /\ Bit(mmctx[q], d) = 0
    BY <1>4, IdleUncounted
  <2>2. Areas(q, d)' = Areas(p, d) /\ mmctx'[q] = c
    BY <1>4 DEF Areas, MmTypeOK
  <2> QED BY <1>7, <2>1, <2>2
<1> HIDE DEF MmInv
<1> QED BY <1>4, <1>5, <1>6, <1>8, <1>9, <1>10, StepKeeps

LEMMA ForkFailsKeeps ==
    ASSUME MmInv, NEW p \in Proc, NEW S \in SUBSET Area, ForkFails(p, S)
    PROVE  MmInv'
<1> USE DEF MmInv
<1> DEFINE n == AreaPuts(p, S)
<1>1. \A d \in Ctx : n[d] \in Nat /\ n[d] <= Areas(p, d) /\ Areas(p, d) \in Nat
  BY PutCounts, Counts
<1>2. /\ owed' = Plus(owed, n) /\ mapcount' = [d \in Ctx |-> mapcount[d] - n[d]]
      /\ state' = AfterPuts(n) /\ UNCHANGED <<procVars, pageVars, lost>>
  BY DEF ForkFails, Puts
<1> HIDE DEF n
<1>3. \A d \in Ctx : GivenBack(d, n[d])
  BY <1>1, <1>2 DEF GivenBack, AfterPuts
<1>4. MmTypeOK' /\ IdleInv'
  <2>1. mapcount' \in [Ctx -> Int] /\ owed' \in [Ctx -> Nat]
    BY <1>1, <1>2 DEF MmTypeOK, Plus
  <2>2. state' \in [Ctx -> {"new", "live", "destroyed", "freed"}]
    BY <1>2 DEF MmTypeOK, AfterPuts
  <2> QED BY <1>2, <2>1, <2>2 DEF MmTypeOK, IdleInv, procVars, pageVars
<1>5. \A r \in Proc \ {p} : mmctx'[r] = mmctx[r] /\ areas'[r] = areas[r]
  BY <1>2 DEF procVars
<1>6. \A d \in Ctx : /\ mapcount'[d] = mapcount[d] - n[d]
                     /\ lost'[d] = lost[d]
                     /\ owed'[d] = owed[d] + n[d]
                     /\ mapcount[d] \in Int /\ lost[d] \in Nat /\ owed[d] \in Nat
  BY <1>1, <1>2 DEF MmTypeOK, Plus
<1>7. \A d \in Ctx : state'[d] = "new" =>
          mapcount'[d] = mapcount[d] /\ lost'[d] = lost[d] /\ owed'[d] = owed[d]
  <2> SUFFICES ASSUME NEW d \in Ctx, state'[d] = "new"
               PROVE  n[d] = 0
    BY <1>6
  <2>1. state[d] = "new"
    BY <1>2 DEF AfterPuts
  <2> QED BY <1>1, <2>1, NewUnheld
<1>8. ASSUME NEW d \in Ctx
      PROVE  mapcount'[d] - lost'[d] + owed'[d]
               = mapcount[d] - lost[d] + owed[d] + (Areas(p, d)' - Areas(p, d))
                     + (Bit(mmctx'[p], d) - Bit(mmctx[p], d))
  <2>1. Areas(p, d)' = Areas(p, d) /\ mmctx' = mmctx
    BY <1>2 DEF Areas, procVars
  <2> QED BY <1>1, <1>6, <2>1 DEF Bit
<1> HIDE DEF MmInv
<1> QED BY <1>2, <1>3, <1>4, <1>5, <1>7, <1>8, StepKeeps

LEMMA ExecKeeps ==
    ASSUME MmInv, NEW p \in Proc, NEW c \in Ctx, NEW a \in Area, Exec(p, c, a)
    PROVE  MmInv'
<1> USE DEF MmInv
<1> DEFINE n == ExitPuts(p)
<1>1. n = [d \in Ctx |-> Areas(p, d) + Bit(mmctx[p], d)] /\ \A d \in Ctx : Areas(p, d) \in Nat
  BY PutCounts, Counts
<1>2. n \in [Ctx -> Nat]
  BY <1>1 DEF Bit
<1>3. /\ mapcount' = [d \in Ctx |-> IF d = c THEN 1 ELSE mapcount[d] - n[d]]
      /\ state' = [AfterPuts(n) EXCEPT ![c] = "live"] /\ state[c] = "new"
      /\ areas' = [areas EXCEPT ![p] = [NoAreas EXCEPT ![a] = NULL]]
      /\ mmctx' = [mmctx EXCEPT ![p] = c]
      /\ p \in running
      /\ UNCHANGED <<running, pageVars, lost, owed>>
  BY DEF Exec, New
<1> HIDE DEF n
<1>4. \A d \in Ctx : Made(d) \/ GivenBack(d, n[d])
  BY <1>2, <1>3 DEF Made, GivenBack, AfterPuts
<1>5. MmTypeOK' /\ IdleInv'
  <2>1. mapcount' \in [Ctx -> Int]
    BY <1>2, <1>3 DEF MmTypeOK
  <2>2. state' \in [Ctx -> {"new", "live", "destroyed", "freed"}]
    BY <1>3 DEF MmTypeOK, AfterPuts
  <2>3. /\ mmctx' \in [Proc -> Ctx \cup {NULL}]
        /\ areas' \in [Proc -> [Area -> Ctx \cup {NULL, None}]]
    BY <1>3 DEF MmTypeOK, NoAreas
  <2>4. MmTypeOK'
    BY <1>3, <2>1, <2>2, <2>3 DEF MmTypeOK, pageVars
  <2>5. IdleInv'
    BY <1>3 DEF IdleInv, MmTypeOK
  <2> QED BY <2>4, <2>5
<1>6. \A r \in Proc \ {p} : mmctx'[r] = mmctx[r] /\ areas'[r] = areas[r]
  BY <1>3 DEF MmTypeOK
<1>7. \A d \in Ctx : state'[d] = "new" =>
          mapcount'[d] = mapcount[d] /\ lost'[d] = lost[d] /\ owed'[d] = owed[d]
  <2> SUFFICES ASSUME NEW d \in Ctx, state'[d] = "new"
               PROVE  d # c /\ n[d] = 0
    BY <1>3 DEF MmTypeOK
  <2>1. state[d] = "new" /\ d # c
    BY <1>3 DEF AfterPuts
  <2> QED BY <1>1, <2>1, NewUnheld DEF Bit
<1>8. ASSUME NEW d \in Ctx
      PROVE  mapcount'[d] - lost'[d] + owed'[d]
               = mapcount[d] - lost[d] + owed[d] + (Areas(p, d)' - Areas(p, d))
                     + (Bit(mmctx'[p], d) - Bit(mmctx[p], d))
  <2>1. Areas(p, d)' = 0 /\ mmctx'[p] = c
    <3>1. areas'[p] \in [Area -> {NULL, None}] /\ mmctx'[p] = c
      BY <1>3 DEF MmTypeOK, NoAreas
    <3>2. Areas(p, d)' = Cardinality(AreasIn(areas'[p], d))
      BY DEF Areas
    <3> QED BY <3>1, <3>2, NoneCounted
  <2>2. d = c => mapcount[d] = 0 /\ n[d] = 0
    BY <1>1, <1>3, NewUnheld DEF StateInv, Bit
  <2>3. mapcount[d] \in Int /\ lost[d] \in Nat /\ owed[d] \in Nat
    BY DEF MmTypeOK
  <2>4. mapcount'[d] = mapcount[d] - n[d] + Bit(c, d)
    BY <1>2, <1>3, <2>2, <2>3 DEF Bit
  <2> QED BY <1>1, <1>3, <2>1, <2>3, <2>4 DEF Bit
<1> HIDE DEF MmInv
<1> QED BY <1>3, <1>4, <1>5, <1>6, <1>7, <1>8, StepKeeps
LEMMA ExecFailsKeeps ==
    ASSUME MmInv, NEW p \in Proc, ExecFails(p)
    PROVE  MmInv'
<1> USE DEF MmInv
<1> DEFINE got == One(mmctx[p])
<1>1. got \in [Ctx -> 0 .. 1] /\ \A d \in Ctx : got[d] = 1 => mapcount[d] # 0
  BY DEF ExecFails, CanGet, One
<1>2. /\ mapcount' = Plus(mapcount, got) /\ lost' = Plus(lost, got)
      /\ UNCHANGED <<procVars, state, pageVars, owed>>
  BY DEF ExecFails
<1> HIDE DEF got
<1>3. MmTypeOK' /\ IdleInv'
  <2>1. mapcount' \in [Ctx -> Int] /\ lost' \in [Ctx -> Nat]
    BY <1>1, <1>2 DEF MmTypeOK, Plus
  <2> QED BY <1>2, <2>1 DEF MmTypeOK, IdleInv, procVars, pageVars
<1>4. \A d \in Ctx : /\ mapcount'[d] = mapcount[d] + got[d]
                     /\ lost'[d] = lost[d] + got[d]
                     /\ owed'[d] = owed[d]
                     /\ mapcount[d] \in Int /\ lost[d] \in Nat /\ owed[d] \in Nat
  BY <1>1, <1>2 DEF MmTypeOK, Plus
<1>5. \A d \in Ctx : Kept(d)
  BY <1>1, <1>2, <1>4 DEF Kept
<1>6. \A d \in Ctx : state'[d] = "new" =>
          mapcount'[d] = mapcount[d] /\ lost'[d] = lost[d] /\ owed'[d] = owed[d]
  BY <1>1, <1>2, <1>4 DEF StateInv
<1>7. ASSUME NEW d \in Ctx
      PROVE  mapcount'[d] - lost'[d] + owed'[d]
               = mapcount[d] - lost[d] + owed[d] + (Areas(p, d)' - Areas(p, d))
                     + (Bit(mmctx'[p], d) - Bit(mmctx[p], d))
  <2>1. Areas(p, d)' = Areas(p, d) /\ mmctx' = mmctx
    BY <1>2 DEF Areas, procVars
  <2>2. Areas(p, d) \in Nat
    BY Counts
  <2> QED BY <1>1, <1>4, <2>1, <2>2 DEF Bit
<1> HIDE DEF MmInv
<1>8. \A r \in Proc \ {p} : mmctx'[r] = mmctx[r] /\ areas'[r] = areas[r]
  BY <1>2 DEF procVars
<1> QED BY <1>2, <1>3, <1>5, <1>6, <1>7, <1>8, StepKeeps

LEMMA ExitKeeps ==
    ASSUME MmInv, NEW p \in Proc, Exit(p)
    PROVE  MmInv'
<1> USE DEF MmInv
<1> DEFINE n == ExitPuts(p)
<1>1. n = [d \in Ctx |-> Areas(p, d) + Bit(mmctx[p], d)] /\ \A d \in Ctx : Areas(p, d) \in Nat
  BY PutCounts, Counts
<1>2. n \in [Ctx -> Nat]
  BY <1>1 DEF Bit
<1>3. /\ mapcount' = [d \in Ctx |-> mapcount[d] - n[d]] /\ state' = AfterPuts(n)
      /\ mmctx' = [mmctx EXCEPT ![p] = NULL] /\ areas' = [areas EXCEPT ![p] = NoAreas]
      /\ running' = running \ {p}
      /\ UNCHANGED <<pageVars, lost, owed>>
  BY DEF Exit, Puts
<1> HIDE DEF n
<1>4. \A d \in Ctx : GivenBack(d, n[d])
  BY <1>2, <1>3 DEF GivenBack, AfterPuts
<1>5. MmTypeOK' /\ IdleInv'
  <2>1. mapcount' \in [Ctx -> Int]
    BY <1>2, <1>3 DEF MmTypeOK
  <2>2. state' \in [Ctx -> {"new", "live", "destroyed", "freed"}]
    BY <1>3 DEF MmTypeOK, AfterPuts
  <2>3. /\ mmctx' \in [Proc -> Ctx \cup {NULL}]
        /\ areas' \in [Proc -> [Area -> Ctx \cup {NULL, None}]]
    BY <1>3 DEF MmTypeOK, NoAreas
  <2>4. MmTypeOK'
    BY <1>3, <2>1, <2>2, <2>3 DEF MmTypeOK, pageVars
  <2>5. IdleInv'
    BY <1>3 DEF IdleInv, MmTypeOK
  <2> QED BY <2>4, <2>5
<1>6. \A r \in Proc \ {p} : mmctx'[r] = mmctx[r] /\ areas'[r] = areas[r]
  BY <1>3 DEF MmTypeOK
<1>7. \A d \in Ctx : state'[d] = "new" =>
          mapcount'[d] = mapcount[d] /\ lost'[d] = lost[d] /\ owed'[d] = owed[d]
  <2> SUFFICES ASSUME NEW d \in Ctx, state'[d] = "new"
               PROVE  n[d] = 0
    BY <1>3 DEF MmTypeOK
  <2>1. state[d] = "new"
    BY <1>3 DEF AfterPuts
  <2> QED BY <1>1, <2>1, NewUnheld DEF Bit
<1>8. ASSUME NEW d \in Ctx
      PROVE  mapcount'[d] - lost'[d] + owed'[d]
               = mapcount[d] - lost[d] + owed[d] + (Areas(p, d)' - Areas(p, d))
                     + (Bit(mmctx'[p], d) - Bit(mmctx[p], d))
  <2>1. Areas(p, d)' = 0 /\ mmctx'[p] = NULL
    <3>1. areas'[p] \in [Area -> {NULL, None}] /\ mmctx'[p] = NULL
      BY <1>3 DEF MmTypeOK, NoAreas
    <3>2. Areas(p, d)' = Cardinality(AreasIn(areas'[p], d))
      BY DEF Areas
    <3> QED BY <3>1, <3>2, NoneCounted
  <2>2. mapcount[d] \in Int /\ lost[d] \in Nat /\ owed[d] \in Nat
    BY DEF MmTypeOK
  <2>3. Bit(NULL, d) = 0
    BY MmAssumption DEF Bit
  <2> QED BY <1>1, <1>3, <2>1, <2>2, <2>3 DEF Bit
<1> HIDE DEF MmInv
<1> QED BY <1>3, <1>4, <1>5, <1>6, <1>7, <1>8, StepKeeps

-----------------------------------------------------------------------------
(* The steps of areas. *)

LEMMA LinkKeeps ==
    ASSUME MmInv, NEW p \in Proc, NEW a \in Area, NEW shared \in BOOLEAN, Link(p, a, shared)
    PROVE  MmInv'
<1> USE DEF MmInv
<1> DEFINE private == ~shared /\ CanGet(mmctx[p])
           v == IF private THEN mmctx[p] ELSE NULL
<1>1. /\ p \in running /\ areas[p][a] = None
      /\ areas' = [areas EXCEPT ![p][a] = v]
      /\ mapcount' = IF private THEN Plus(mapcount, One(mmctx[p])) ELSE mapcount
      /\ UNCHANGED <<running, mmctx, state, pageVars, lost, owed>>
  BY DEF Link
<1>2. v \in Ctx \cup {NULL} /\ (v \in Ctx => mapcount[v] # 0)
  BY MmAssumption DEF MmTypeOK, CanGet
<1>3. \A d \in Ctx : mapcount'[d] = mapcount[d] + Bit(v, d) /\ mapcount[d] \in Int
  BY <1>1, MmAssumption DEF MmTypeOK, Plus, One, Bit, CanGet
<1>4. mapcount' \in [Ctx -> Int]
  BY <1>1 DEF MmTypeOK, Plus, One
<1> HIDE DEF private, v
<1>5. MmTypeOK' /\ IdleInv'
  <2>1. areas' \in [Proc -> [Area -> Ctx \cup {NULL, None}]]
    BY <1>1, <1>2 DEF MmTypeOK
  <2>2. MmTypeOK'
    BY <1>1, <1>4, <2>1 DEF MmTypeOK, pageVars
  <2>3. IdleInv'
    BY <1>1 DEF IdleInv, MmTypeOK
  <2> QED BY <2>2, <2>3
<1>6. \A d \in Ctx : Kept(d)
  BY <1>1, <1>2, <1>3 DEF Kept, Bit
<1>7. \A d \in Ctx : state'[d] = "new" =>
          mapcount'[d] = mapcount[d] /\ lost'[d] = lost[d] /\ owed'[d] = owed[d]
  BY <1>1, <1>2, <1>3 DEF StateInv, Bit
<1>8. ASSUME NEW d \in Ctx
      PROVE  mapcount'[d] - lost'[d] + owed'[d]
               = mapcount[d] - lost[d] + owed[d] + (Areas(p, d)' - Areas(p, d))
                     + (Bit(mmctx'[p], d) - Bit(mmctx[p], d))
  <2>1. areas[p] \in [Area -> Value] /\ areas'[p] = [areas[p] EXCEPT ![a] = v] /\ v \in Value
    BY <1>1, <1>2 DEF MmTypeOK, Value
  <2>2. /\ Cardinality(AreasIn(areas[p], d)) \in Nat
        /\ Cardinality(AreasIn([areas[p] EXCEPT ![a] = v], d))
             = Cardinality(AreasIn(areas[p], d)) - Bit(areas[p][a], d) + Bit(v, d)
    BY <2>1, AreaCount
  <2>3. Bit(areas[p][a], d) = 0
    BY <1>1, MmAssumption DEF Bit
  <2>4. Areas(p, d)' = Areas(p, d) + Bit(v, d) /\ Areas(p, d) \in Nat
    BY <2>1, <2>2, <2>3 DEF Areas, Bit
  <2>5. lost[d] \in Nat /\ owed[d] \in Nat
    BY DEF MmTypeOK
  <2> QED BY <1>1, <1>3, <2>4, <2>5 DEF Bit
<1>9. \A r \in Proc \ {p} : mmctx'[r] = mmctx[r] /\ areas'[r] = areas[r]
  BY <1>1 DEF MmTypeOK
<1> HIDE DEF MmInv
<1> QED BY <1>1, <1>5, <1>6, <1>7, <1>8, <1>9, StepKeeps

LEMMA UnmapKeeps ==
    ASSUME MmInv, NEW p \in Proc, NEW a \in Area, Unmap(p, a)
    PROVE  MmInv'
<1> USE DEF MmInv
<1> DEFINE n == AreaPuts(p, {a})
<1>1. n = [d \in Ctx |-> Bit(areas[p][a], d)]
  BY PutCounts
<1>2. n \in [Ctx -> Nat]
  BY <1>1 DEF Bit
<1>3. /\ mapcount' = [d \in Ctx |-> mapcount[d] - n[d]] /\ state' = AfterPuts(n)
      /\ p \in running /\ areas' = [areas EXCEPT ![p][a] = None]
      /\ UNCHANGED <<running, mmctx, pageVars, lost, owed>>
  BY DEF Unmap, Puts
<1> HIDE DEF n
<1>4. \A d \in Ctx : GivenBack(d, n[d])
  BY <1>2, <1>3 DEF GivenBack, AfterPuts
<1>5. MmTypeOK' /\ IdleInv'
  <2>1. mapcount' \in [Ctx -> Int]
    BY <1>2, <1>3 DEF MmTypeOK
  <2>2. state' \in [Ctx -> {"new", "live", "destroyed", "freed"}]
    BY <1>3 DEF MmTypeOK, AfterPuts
  <2>3. areas' \in [Proc -> [Area -> Ctx \cup {NULL, None}]]
    BY <1>3 DEF MmTypeOK
  <2>4. MmTypeOK'
    BY <1>3, <2>1, <2>2, <2>3 DEF MmTypeOK, pageVars
  <2>5. IdleInv'
    BY <1>3 DEF IdleInv, MmTypeOK
  <2> QED BY <2>4, <2>5
<1>6. \A r \in Proc \ {p} : mmctx'[r] = mmctx[r] /\ areas'[r] = areas[r]
  BY <1>3 DEF MmTypeOK
<1>7. \A d \in Ctx : state'[d] = "new" =>
          mapcount'[d] = mapcount[d] /\ lost'[d] = lost[d] /\ owed'[d] = owed[d]
  <2> SUFFICES ASSUME NEW d \in Ctx, state'[d] = "new"
               PROVE  n[d] = 0
    BY <1>3 DEF MmTypeOK
  <2>1. state[d] = "new"
    BY <1>3 DEF AfterPuts
  <2> QED BY <1>1, <2>1, NewUnheld DEF Bit
<1>8. ASSUME NEW d \in Ctx
      PROVE  mapcount'[d] - lost'[d] + owed'[d]
               = mapcount[d] - lost[d] + owed[d] + (Areas(p, d)' - Areas(p, d))
                     + (Bit(mmctx'[p], d) - Bit(mmctx[p], d))
  <2>1. areas[p] \in [Area -> Value] /\ areas'[p] = [areas[p] EXCEPT ![a] = None] /\ None \in Value
    BY <1>3 DEF MmTypeOK, Value
  <2>2. /\ Cardinality(AreasIn(areas[p], d)) \in Nat
        /\ Cardinality(AreasIn([areas[p] EXCEPT ![a] = None], d))
             = Cardinality(AreasIn(areas[p], d)) - Bit(areas[p][a], d) + Bit(None, d)
    BY <2>1, AreaCount
  <2>3. Bit(None, d) = 0
    BY MmAssumption DEF Bit
  <2>4. Areas(p, d)' = Areas(p, d) - Bit(areas[p][a], d) /\ Areas(p, d) \in Nat
    BY <2>1, <2>2, <2>3 DEF Areas, Bit
  <2>5. mapcount[d] \in Int /\ lost[d] \in Nat /\ owed[d] \in Nat
    BY DEF MmTypeOK
  <2> QED BY <1>1, <1>3, <2>4, <2>5 DEF Bit
<1> HIDE DEF MmInv
<1> QED BY <1>3, <1>4, <1>5, <1>6, <1>7, <1>8, StepKeeps
\* How many of two areas hold a context.
LEMMA PairCount ==
    ASSUME NEW x, NEW y, NEW c
    PROVE  Cardinality({i \in 1 .. 2 : <<x, y>>[i] = c}) = Bit(x, c) + Bit(y, c)
<1> DEFINE S == {i \in 1 .. 2 : <<x, y>>[i] = c}
<1>1. S = (IF x = c THEN {1} ELSE {}) \cup (IF y = c THEN {2} ELSE {})
  OBVIOUS
<1>2. CASE x = c /\ y = c
  <2>1. S = {1} \cup {2}
    BY <1>1, <1>2
  <2>2. IsFiniteSet({1}) /\ Cardinality({1}) = 1
    BY FS_Singleton
  <2>3. IsFiniteSet({2}) /\ Cardinality({2}) = 1
    BY FS_Singleton
  <2>4. Cardinality({1} \cup {2}) = Cardinality({1}) + Cardinality({2})
    BY <2>2, <2>3, DisjointCount
  <2> QED BY <1>2, <2>1, <2>2, <2>3, <2>4 DEF Bit
<1>3. CASE x = c /\ y # c
  <2>1. S = {1}
    BY <1>1, <1>3
  <2> QED BY <1>3, <2>1, FS_Singleton DEF Bit
<1>4. CASE x # c /\ y = c
  <2>1. S = {2}
    BY <1>1, <1>4
  <2> QED BY <1>4, <2>1, FS_Singleton DEF Bit
<1>5. CASE x # c /\ y # c
  <2>1. S = {}
    BY <1>1, <1>5
  <2> QED BY <1>5, <2>1, FS_EmptySet DEF Bit
<1> QED BY <1>2, <1>3, <1>4, <1>5

\* What vma_adjust leaves is what was there, NULL or the context of the mm.
LEMMA AdjustedValues ==
    ASSUME NEW p, NEW a, NEW b
    PROVE  \E u, w : /\ Adjusted(p, a, b) = <<u, w>>
                     /\ {u, w} \subseteq {areas[p][a], areas[p][b], NULL, mmctx[p]}
BY DEF Adjusted

LEMMA VmaAdjustKeeps ==
    ASSUME MmInv, NEW p \in Proc, NEW a \in Area, NEW b \in Area,
           NEW remove_next \in BOOLEAN, VmaAdjust(p, a, b, remove_next)
    PROVE  MmInv' /\ \A c \in Ctx : owed'[c] >= owed[c]
<1> USE DEF MmInv
<1> DEFINE z == Adjusted(p, a, b)
<1>0. PICK x, y : x = areas[p][a] /\ y = areas[p][b]
  OBVIOUS
<1>1. PICK u, w : z = <<u, w>> /\ {u, w} \subseteq {x, y, NULL, mmctx[p]}
  BY <1>0, AdjustedValues
<1>2. /\ x \in Value /\ y \in Value /\ u \in Value /\ w \in Value
      /\ mmctx[p] \in Ctx \cup {NULL}
  BY <1>0, <1>1 DEF MmTypeOK, Value
<1> DEFINE get == IF u \in Ctx /\ z # <<x, y>> /\ CanGet(u) THEN One(u) ELSE Nothing
           more == [c \in Ctx |-> (Bit(u, c) + Bit(w, c)) - (Bit(x, c) + Bit(y, c))]
           missing == [c \in Ctx |-> more[c] - get[c]]
           unlinked == IF remove_next /\ w \in Ctx THEN One(w) ELSE Nothing
           v == IF remove_next THEN None ELSE w
<1>3. z[1] = u /\ z[2] = w
  BY <1>1
<1>4. \A c \in Ctx : more[c] = Cardinality({i \in 1 .. 2 : z[i] = c})
                                  - Cardinality({i \in 1 .. 2 : <<x, y>>[i] = c})
  <2> TAKE c \in Ctx
  <2>1. Cardinality({i \in 1 .. 2 : <<u, w>>[i] = c}) = Bit(u, c) + Bit(w, c)
    BY PairCount
  <2>2. Cardinality({i \in 1 .. 2 : <<x, y>>[i] = c}) = Bit(x, c) + Bit(y, c)
    BY PairCount
  <2>3. {i \in 1 .. 2 : z[i] = c} = {i \in 1 .. 2 : <<u, w>>[i] = c}
    BY <1>1
  <2> QED BY <2>1, <2>2, <2>3 DEF Bit
<1>5. /\ p \in running /\ a # b
      /\ areas' = [areas EXCEPT ![p][a] = u, ![p][b] = v]
      /\ mapcount' = Plus(mapcount, get)
      /\ UNCHANGED <<running, mmctx, state, pageVars>>
  BY <1>0, <1>3 DEF VmaAdjust
<1>6. /\ owed' = [c \in Ctx |-> IF missing[c] > 0 THEN owed[c] + missing[c] ELSE owed[c]]
      /\ lost' = [c \in Ctx |-> unlinked[c]
                     + (IF missing[c] < 0 THEN lost[c] - missing[c] ELSE lost[c])]
  BY <1>0, <1>3, <1>4 DEF VmaAdjust
<1>7. /\ get \in [Ctx -> 0 .. 1]
      /\ unlinked \in [Ctx -> 0 .. 1]
      /\ \A c \in Ctx : get[c] = 1 => mapcount[c] # 0
      /\ \A c \in Ctx : get[c] = 1 => c = u
      /\ \A c \in Ctx : unlinked[c] = Bit(w, c) - Bit(v, c)
  <2>1. get \in [Ctx -> 0 .. 1] /\ \A c \in Ctx : get[c] = 1 => mapcount[c] # 0 /\ c = u
    BY DEF One, Nothing, CanGet
  <2>2. unlinked \in [Ctx -> 0 .. 1]
    BY DEF One, Nothing
  <2>3. \A c \in Ctx : unlinked[c] = Bit(w, c) - Bit(v, c)
    BY MmAssumption DEF One, Nothing, Bit
  <2> QED BY <2>1, <2>2, <2>3
<1>8. v \in Value
  BY <1>2 DEF Value
<1>9. \A c \in Ctx : /\ more[c] \in Int /\ missing[c] \in Int
                     /\ missing[c] = (Bit(u, c) + Bit(w, c)) - (Bit(x, c) + Bit(y, c)) - get[c]
  <2> HIDE DEF get
  <2> QED BY <1>7 DEF Bit
<1> HIDE DEF get, unlinked, v, z, more, missing
<1>10. ASSUME NEW c \in Ctx
       PROVE  /\ mapcount'[c] = mapcount[c] + get[c]
              /\ lost'[c] \in Nat /\ owed'[c] \in Nat /\ owed'[c] >= owed[c]
              /\ owed'[c] - lost'[c] = owed[c] - lost[c] + missing[c] - unlinked[c]
              /\ mapcount[c] \in Int /\ lost[c] \in Nat /\ owed[c] \in Nat
  <2>1. mapcount[c] \in Int /\ lost[c] \in Nat /\ owed[c] \in Nat
    BY DEF MmTypeOK
  <2>2. unlinked[c] \in 0 .. 1 /\ missing[c] \in Int
    BY <1>7, <1>9
  <2>3. mapcount'[c] = mapcount[c] + get[c]
    BY <1>5 DEF Plus
  <2>4. owed'[c] = IF missing[c] > 0 THEN owed[c] + missing[c] ELSE owed[c]
    BY <1>6
  <2>5. lost'[c] = unlinked[c] + (IF missing[c] < 0 THEN lost[c] - missing[c] ELSE lost[c])
    BY <1>6
  <2> QED BY <2>1, <2>2, <2>3, <2>4, <2>5
<1>11. MmTypeOK' /\ IdleInv'
  <2>1. mapcount' \in [Ctx -> Int]
    BY <1>5, <1>7 DEF MmTypeOK, Plus
  <2>2. owed' \in [Ctx -> Nat] /\ lost' \in [Ctx -> Nat]
    BY <1>6, <1>10
  <2>3. areas' \in [Proc -> [Area -> Ctx \cup {NULL, None}]]
    BY <1>2, <1>5, <1>8 DEF MmTypeOK, Value
  <2>4. MmTypeOK'
    BY <1>5, <2>1, <2>2, <2>3 DEF MmTypeOK, pageVars
  <2>5. IdleInv'
    BY <1>5 DEF IdleInv, MmTypeOK
  <2> QED BY <2>4, <2>5
<1>12. \A d \in Ctx : Kept(d)
  BY <1>5, <1>7, <1>10 DEF Kept
<1>13. ASSUME NEW d \in Ctx, state'[d] = "new"
       PROVE  mapcount'[d] = mapcount[d] /\ lost'[d] = lost[d] /\ owed'[d] = owed[d]
  <2>1. x # d /\ y # d /\ mmctx[p] # d
    BY <1>0, <1>5, <1>13, NewUnheld
  <2>2. u # d /\ w # d
    BY <1>1, <2>1, MmAssumption
  <2>3. get[d] = 0 /\ missing[d] = 0
    BY <1>7, <1>9, <2>1, <2>2 DEF Bit
  <2>4. unlinked[d] = 0
    BY <1>7, <2>2 DEF Bit
  <2> QED BY <1>6, <1>10, <2>3, <2>4
<1>14. ASSUME NEW d \in Ctx
       PROVE  mapcount'[d] - lost'[d] + owed'[d]
                = mapcount[d] - lost[d] + owed[d] + (Areas(p, d)' - Areas(p, d))
                      + (Bit(mmctx'[p], d) - Bit(mmctx[p], d))
  <2> DEFINE f == areas[p]
             g == [f EXCEPT ![a] = u]
  <2>1. f \in [Area -> Value] /\ g \in [Area -> Value] /\ g[b] = y /\ f[a] = x
    BY <1>0, <1>2, <1>5 DEF MmTypeOK, Value
  <2>2. areas'[p] = [g EXCEPT ![b] = v]
    BY <1>5 DEF MmTypeOK
  <2> HIDE DEF f, g
  <2>3. /\ Cardinality(AreasIn(f, d)) \in Nat
        /\ Cardinality(AreasIn([f EXCEPT ![a] = u], d))
             = Cardinality(AreasIn(f, d)) - Bit(f[a], d) + Bit(u, d)
    BY <1>2, <2>1, AreaCount
  <2>4. Cardinality(AreasIn([g EXCEPT ![b] = v], d))
             = Cardinality(AreasIn(g, d)) - Bit(g[b], d) + Bit(v, d)
    BY <1>8, <2>1, AreaCount
  <2>5. Areas(p, d)' = Areas(p, d) - Bit(x, d) + Bit(u, d) - Bit(y, d) + Bit(v, d)
    BY <2>1, <2>2, <2>3, <2>4 DEF Areas, f, g, Bit
  <2>6. Areas(p, d) \in Nat
    BY <2>3 DEF Areas, f
  <2>7. unlinked[d] = Bit(w, d) - Bit(v, d) /\ get[d] \in 0 .. 1 /\ mmctx' = mmctx
    BY <1>5, <1>7
  <2>8. /\ owed'[d] - lost'[d] = owed[d] - lost[d] + missing[d] - unlinked[d]
        /\ missing[d] = (Bit(u, d) + Bit(w, d)) - (Bit(x, d) + Bit(y, d)) - get[d]
    BY <1>9, <1>10
  <2>9. /\ mapcount'[d] = mapcount[d] + get[d] /\ lost'[d] \in Nat /\ owed'[d] \in Nat
        /\ mapcount[d] \in Int /\ lost[d] \in Nat /\ owed[d] \in Nat
    BY <1>10
  <2> QED BY <2>5, <2>6, <2>7, <2>8, <2>9, SMTT(30) DEF Bit
<1>15. \A r \in Proc \ {p} : mmctx'[r] = mmctx[r] /\ areas'[r] = areas[r]
  BY <1>5 DEF MmTypeOK
<1> HIDE DEF MmInv
<1>16. MmInv'
  BY <1>5, <1>11, <1>12, <1>13, <1>14, <1>15, StepKeeps
<1> QED BY <1>10, <1>16

-----------------------------------------------------------------------------
(* The steps of pages. *)

\* Pages leave the counts of the holders alone.
LEMMA PagesLeaveCounts ==
    ASSUME MmInv, UNCHANGED <<procVars, mapcount, lost, owed>>
    PROVE  IdleInv' /\ CountInv'
BY DEF MmInv, IdleInv, CountInv, Holders, procVars

LEMMA RegisterKeeps ==
    ASSUME MmInv, NEW p \in Proc, NEW a \in Area, NEW stored \in BOOLEAN, Register(p, a, stored)
    PROVE  MmInv'
<1>1. IdleInv' /\ CountInv'
  BY PagesLeaveCounts DEF Register
<1>2. MmTypeOK'
  BY DEF MmInv, MmTypeOK, Register, procVars
<1>3. StateInv'
  <2>1. state[areas[p][a]] # "new"
    BY NewUnheld DEF Register
  <2> QED BY <2>1 DEF MmInv, MmTypeOK, StateInv, Register, procVars
<1>4. PageInv'
  BY DEF MmInv, MmTypeOK, PageInv, Register, procVars
<1> QED BY <1>1, <1>2, <1>3, <1>4 DEF MmInv

LEMMA EntryPutKeeps ==
    ASSUME MmInv, NEW c \in Ctx, EntryPut(c)
    PROVE  MmInv'
<1>1. IdleInv' /\ CountInv'
  BY PagesLeaveCounts DEF EntryPut
<1>2. MmTypeOK'
  BY DEF MmInv, MmTypeOK, EntryPut, procVars
<1>3. StateInv'
  BY DEF MmInv, MmTypeOK, StateInv, EntryPut, procVars
<1>4. PageInv'
  BY DEF MmInv, MmTypeOK, PageInv, EntryPut, procVars
<1> QED BY <1>1, <1>2, <1>3, <1>4 DEF MmInv

LEMMA EntryPutEndKeeps ==
    ASSUME MmInv, NEW c \in Ctx, EntryPutEnd(c)
    PROVE  MmInv'
<1>1. IdleInv' /\ CountInv'
  BY PagesLeaveCounts DEF EntryPutEnd
<1>2. pagecount[c] >= 1 + entries[c] /\ state[c] # "new"
  BY DEF MmInv, MmTypeOK, PageInv, StateInv, EntryPutEnd
<1>3. MmTypeOK'
  BY <1>2 DEF MmInv, MmTypeOK, EntryPutEnd, procVars
<1>4. StateInv'
  BY <1>2 DEF MmInv, MmTypeOK, StateInv, PageInv, EntryPutEnd, procVars
<1>5. PageInv'
  <2> SUFFICES ASSUME NEW d \in Ctx
               PROVE  /\ pagecount'[d] >= entries'[d] + (IF putting'[d] = "no" THEN 0 ELSE 1)
                      /\ putting'[d] = "zero" => mapcount'[d] <= 0
    BY DEF PageInv
  <2>1. CASE d = c
    BY <1>2, <2>1 DEF MmInv, MmTypeOK, PageInv, EntryPutEnd
  <2>2. CASE d # c
    BY <2>2 DEF MmInv, MmTypeOK, PageInv, EntryPutEnd
  <2> QED BY <2>1, <2>2
<1> QED BY <1>1, <1>3, <1>4, <1>5 DEF MmInv

-----------------------------------------------------------------------------
LEMMA MmInitInv == MmInit => MmInv
<1> SUFFICES ASSUME MmInit
             PROVE  MmInv
  OBVIOUS
<1>1. MmTypeOK
  BY DEF MmInit, MmTypeOK, NoAreas
<1>2. IdleInv /\ StateInv /\ PageInv
  BY DEF MmInit, IdleInv, StateInv, PageInv
<1>3. CountInv
  <2>1. \A c \in Ctx : Holders(c) = {}
    BY MmAssumption DEF MmInit, Holders, NoAreas
  <2> QED BY <2>1, FS_EmptySet DEF CountInv, MmInit
<1> QED BY <1>1, <1>2, <1>3 DEF MmInv

LEMMA MmNextInv == MmInv /\ [MmNext /\ Bounded]_mmVars => MmInv'
<1> SUFFICES ASSUME MmInv, [MmNext]_mmVars
             PROVE  MmInv'
  OBVIOUS
<1>1. CASE \E p \in Proc, c \in Ctx, a \in Area : StartPrivate(p, c, a) \/ Exec(p, c, a)
  BY <1>1, StartPrivateKeeps, ExecKeeps
<1>2. CASE \E p, q \in Proc : Fork(p, q)
  BY <1>2, ForkKeeps
<1>3. CASE \E p, q \in Proc, c \in Ctx : ForkPrivate(p, q, c)
  BY <1>3, ForkPrivateKeeps
<1>4. CASE \E p \in Proc, S \in SUBSET Area : ForkFails(p, S)
  BY <1>4, ForkFailsKeeps
<1>5. CASE \E p \in Proc : ExecFails(p) \/ Exit(p)
  BY <1>5, ExecFailsKeeps, ExitKeeps
<1>6. CASE \E p \in Proc, a \in Area : Unmap(p, a)
  BY <1>6, UnmapKeeps
<1>7. CASE \E p \in Proc, a \in Area, shared \in BOOLEAN : Link(p, a, shared)
  BY <1>7, LinkKeeps
<1>8. CASE \E p \in Proc, a, b \in Area, remove_next \in BOOLEAN :
              VmaAdjust(p, a, b, remove_next)
  BY <1>8, VmaAdjustKeeps
<1>9. CASE \E p \in Proc, a \in Area, stored \in BOOLEAN : Register(p, a, stored)
  BY <1>9, RegisterKeeps
<1>10. CASE \E c \in Ctx : EntryPut(c) \/ EntryPutEnd(c)
  BY <1>10, EntryPutKeeps, EntryPutEndKeeps
<1>11. CASE UNCHANGED mmVars
  BY <1>11 DEF mmVars, procVars, pageVars, MmInv, MmTypeOK, IdleInv, CountInv, Holders,
               StateInv, PageInv
<1> QED BY <1>1, <1>2, <1>3, <1>4, <1>5, <1>6, <1>7, <1>8, <1>9, <1>10, <1>11 DEF MmNext

\* The reference count of a context is the number of processes and areas that hold it,
\* and its key and pages are those of the state that the count has led to.
THEOREM MmInvariant == MmSpec => []MmInv
BY MmInitInv, MmNextInv, PTL DEF MmSpec

\* Type correctness: pagecount never becomes negative, whatever the order of the
\* puts of pages and of references.
THEOREM MmTypeCorrect == MmSpec => []MmTypeOK
<1>1. MmInv => MmTypeOK
  BY DEF MmInv
<1> QED BY <1>1, MmInvariant, PTL

LEMMA HoldersLive == MmInv => KeyLives
<1> SUFFICES ASSUME MmInv, NEW c \in Ctx, Holders(c) # {}, owed[c] = 0
             PROVE  state[c] = "live"
  BY DEF KeyLives
<1>1. Count(c) \in Nat /\ Count(c) > 0 /\ Holders(c) = Held(mmctx, areas, c)
  BY Counts DEF MmInv
<1>2. mapcount[c] = Count(c) + lost[c] /\ lost[c] \in Nat
  BY <1>1 DEF MmInv, CountInv, MmTypeOK, Count
<1> QED BY <1>1, <1>2 DEF MmInv, StateInv, MmTypeOK

\* The key of a context that anything holds is not destroyed, unless a fork copied
\* areas without a reference: mapcount is at least the number of holders.
THEOREM KeyOfHoldersLives == MmSpec => []KeyLives
BY HoldersLive, MmInvariant, PTL

\* The key of a context that nothing holds is destroyed, unless a reference was
\* dropped without a put: mapcount is at most 0.
THEOREM KeyOfNobodyDies == MmSpec => []KeyDies
<1>1. MmInv => KeyDies
  <2> SUFFICES ASSUME MmInv, NEW c \in Ctx, Holders(c) = {}, lost[c] = 0
               PROVE  state[c] # "live"
    BY DEF KeyDies
  <2>1. Count(c) = 0 /\ Holders(c) = Held(mmctx, areas, c)
    BY Counts DEF MmInv
  <2>2. mapcount[c] = 0 - owed[c] /\ owed[c] \in Nat
    BY <2>1 DEF MmInv, CountInv, MmTypeOK, Count
  <2> QED BY <2>1, <2>2 DEF MmInv, StateInv, MmTypeOK
<1> QED BY <1>1, MmInvariant, PTL

-----------------------------------------------------------------------------
(* A context that was freed. *)

\* A step reads or writes the counts of c, or its state.
Touched(c) ==
    \/ state'[c] # state[c] \/ mapcount'[c] # mapcount[c] \/ pagecount'[c] # pagecount[c]
    \/ entries'[c] # entries[c] \/ putting'[c] # putting[c]

\* A key that was destroyed does not come back, and a freed context is not touched,
\* unless a fork copied areas that hold it without a reference.
StaysDead ==
    \A c \in Ctx :
        /\ state[c] \in {"destroyed", "freed"} => state'[c] \in {"destroyed", "freed"}
        /\ state[c] = "freed" /\ owed[c] = 0 => ~Touched(c)

\* Nothing holds a freed context: no put or get reaches it.
LEMMA FreedUnheld ==
    ASSUME MmInv, NEW c \in Ctx, state[c] = "freed", owed[c] = 0
    PROVE  /\ \A p \in Proc : mmctx[p] # c /\ ExitPuts(p)[c] = 0
           /\ \A p \in Proc, a \in Area : areas[p][a] # c
           /\ \A p \in Proc, S \in SUBSET Area : AreaPuts(p, S)[c] = 0
<1>1. Holders(c) = {}
  BY HoldersLive DEF KeyLives
<1>2. \A p \in Proc : mmctx[p] # c
  BY <1>1 DEF Holders
<1>3. \A p \in Proc, a \in Area : areas[p][a] # c
  <2> SUFFICES ASSUME NEW p \in Proc, NEW a \in Area, areas[p][a] = c
               PROVE  FALSE
    OBVIOUS
  <2>1. <<p, a>> \in Holders(c)
    BY DEF Holders
  <2> QED BY <1>1, <2>1
<1>4. \A p \in Proc : AreasWith(p, c) = {}
  BY <1>3 DEF AreasWith
<1>5. \A p \in Proc, S \in SUBSET Area : AreaPuts(p, S)[c] = 0
  <2>1. \A p \in Proc, S \in SUBSET Area : S \cap AreasWith(p, c) = {}
    BY <1>4
  <2> QED BY <2>1, FS_EmptySet DEF AreaPuts
<1>6. \A p \in Proc : ExitPuts(p)[c] = 0
  BY <1>2, <1>4, FS_EmptySet DEF ExitPuts
<1> QED BY <1>2, <1>3, <1>5, <1>6

\* The references that were never taken are never taken.
LEMMA OwedGrows ==
    ASSUME MmInv, MmNext, NEW c \in Ctx, owed'[c] = 0
    PROVE  owed[c] = 0
<1>1. owed[c] \in Nat
  BY DEF MmInv, MmTypeOK
<1>2. ASSUME NEW p \in Proc, NEW S \in SUBSET Area, owed' = Plus(owed, AreaPuts(p, S))
      PROVE  owed[c] = 0
  <2>1. AreaPuts(p, S)[c] \in Nat
    BY PutCounts DEF MmInv
  <2>2. owed'[c] = owed[c] + AreaPuts(p, S)[c]
    BY <1>2 DEF Plus
  <2> QED BY <1>1, <2>1, <2>2
<1>3. CASE \/ \E p, q \in Proc : Fork(p, q)
           \/ \E p, q \in Proc, d \in Ctx : ForkPrivate(p, q, d)
           \/ \E p \in Proc, S \in SUBSET Area : ForkFails(p, S)
  <2>1. PICK p \in Proc, S \in SUBSET Area : owed' = Plus(owed, AreaPuts(p, S))
    BY <1>3 DEF Fork, ForkPrivate, ForkFails
  <2> QED BY <1>2, <2>1
<1>4. ASSUME NEW p \in Proc, NEW a \in Area, NEW b \in Area, NEW remove_next \in BOOLEAN,
             VmaAdjust(p, a, b, remove_next)
      PROVE  owed[c] = 0
  <2>1. owed'[c] >= owed[c]
    BY <1>4, VmaAdjustKeeps
  <2> QED BY <1>1, <2>1
<1>5. CASE UNCHANGED owed
  BY <1>5
<1> QED BY <1>3, <1>4, <1>5 DEF MmNext, StartPrivate, Exec, ExecFails, Exit, Unmap, Link, Register,
                                EntryPut, EntryPutEnd

LEMMA KeyStaysDestroyed ==
    ASSUME MmInv, MmNext, NEW c \in Ctx, state[c] \in {"destroyed", "freed"}
    PROVE  state'[c] \in {"destroyed", "freed"}
<1>1. \A n : AfterPuts(n)[c] = state[c]
  BY DEF AfterPuts
<1>2. \A d \in Ctx : New(d) => d # c
  BY DEF New
<1>3. state \in [Ctx -> {"new", "live", "destroyed", "freed"}]
  BY DEF MmInv, MmTypeOK
<1>4. CASE state' = state
  BY <1>4
<1>5. ASSUME NEW d \in Ctx, New(d), state' = [state EXCEPT ![d] = "live"]
      PROVE  state'[c] \in {"destroyed", "freed"}
  BY <1>2, <1>3, <1>5
<1>6. ASSUME NEW n, NEW d \in Ctx, New(d), state' = [AfterPuts(n) EXCEPT ![d] = "live"]
      PROVE  state'[c] \in {"destroyed", "freed"}
  <2>1. state'[c] = AfterPuts(n)[c]
    BY <1>2, <1>6 DEF AfterPuts
  <2> QED BY <1>1, <2>1
<1>7. ASSUME NEW n, state' = AfterPuts(n)
      PROVE  state'[c] \in {"destroyed", "freed"}
  BY <1>1, <1>7
<1>8. ASSUME NEW d \in Ctx, EntryPutEnd(d)
      PROVE  state'[c] \in {"destroyed", "freed"}
  BY <1>3, <1>8 DEF EntryPutEnd
<1>9. ASSUME NEW p \in Proc, NEW d \in Ctx, NEW a \in Area, StartPrivate(p, d, a) \/ Exec(p, d, a)
      PROVE  state'[c] \in {"destroyed", "freed"}
  BY <1>5, <1>6, <1>9 DEF StartPrivate, Exec
<1>10. CASE \E p, q \in Proc, d \in Ctx : ForkPrivate(p, q, d)
  BY <1>5, <1>10 DEF ForkPrivate
<1>11. CASE \/ \E p \in Proc, S \in SUBSET Area : ForkFails(p, S)
            \/ \E p \in Proc : Exit(p)
            \/ \E p \in Proc, a \in Area : Unmap(p, a)
  BY <1>7, <1>11 DEF ForkFails, Exit, Unmap, Puts
<1>12. CASE \E p, q \in Proc : Fork(p, q)
  BY <1>4, <1>12 DEF Fork
<1>13. CASE \E p \in Proc : ExecFails(p)
  BY <1>4, <1>13 DEF ExecFails
<1>14. CASE \E p \in Proc, a \in Area, shared \in BOOLEAN : Link(p, a, shared)
  BY <1>4, <1>14 DEF Link
<1>15. CASE \E p \in Proc, a, b \in Area, remove_next \in BOOLEAN :
               VmaAdjust(p, a, b, remove_next)
  <2>1. \A p, a, b, remove_next : VmaAdjust(p, a, b, remove_next) => state' = state
    BY DEF VmaAdjust
  <2> QED BY <1>4, <1>15, <2>1
<1>16. CASE \/ \E p \in Proc, a \in Area, stored \in BOOLEAN : Register(p, a, stored)
            \/ \E d \in Ctx : EntryPut(d)
  BY <1>4, <1>16 DEF Register, EntryPut
<1> QED BY <1>8, <1>9, <1>10, <1>11, <1>12, <1>13, <1>14, <1>15, <1>16 DEF MmNext

\* A put frees a context that no page is counted for; a page is entered for an area
\* that holds the context.
LEMMA FreeStep == MmInv /\ SafeFree /\ [MmNext /\ Bounded]_mmVars => SafeFree'
<1> SUFFICES ASSUME MmInv, SafeFree, [MmNext]_mmVars, NEW c \in Ctx,
                    state'[c] = "freed", owed'[c] = 0
             PROVE  entries'[c] = 0 /\ putting'[c] = "no"
  BY DEF SafeFree
<1>1. MmTypeOK /\ PageInv
  BY DEF MmInv
<1>2. CASE MmNext
  <2>1. owed[c] = 0
    BY <1>2, OwedGrows
  <2>2. state[c] = "freed" => entries[c] = 0 /\ putting[c] = "no"
    BY <2>1 DEF SafeFree
  <2>3. ASSUME UNCHANGED pageVars, state[c] = "freed" \/ pagecount[c] = 0
        PROVE  entries'[c] = 0 /\ putting'[c] = "no"
    BY <1>1, <2>2, <2>3 DEF PageInv, MmTypeOK, pageVars
  <2>4. \A n : AfterPuts(n)[c] = "freed" => state[c] = "freed" \/ pagecount[c] = 0
    BY DEF AfterPuts
  <2>5. ASSUME NEW p \in Proc, NEW d \in Ctx, NEW a \in Area, StartPrivate(p, d, a) \/ Exec(p, d, a)
        PROVE  entries'[c] = 0 /\ putting'[c] = "no"
    <3>1. CASE StartPrivate(p, d, a)
      <4>1. state[c] = "freed"
        BY <1>1, <3>1 DEF StartPrivate, MmTypeOK
      <4> QED BY <2>3, <3>1, <4>1 DEF StartPrivate
    <3>2. CASE Exec(p, d, a)
      <4>1. AfterPuts(ExitPuts(p))[c] = "freed"
        BY <3>2 DEF Exec, AfterPuts
      <4> QED BY <2>3, <2>4, <3>2, <4>1 DEF Exec
    <3> QED BY <2>5, <3>1, <3>2
  <2>6. CASE \E p, q \in Proc, d \in Ctx : ForkPrivate(p, q, d)
    <3>1. state[c] = "freed" /\ UNCHANGED pageVars
      BY <1>1, <2>6 DEF ForkPrivate, MmTypeOK
    <3> QED BY <2>3, <3>1
  <2>7. CASE \/ \E p \in Proc, S \in SUBSET Area : ForkFails(p, S)
             \/ \E p \in Proc : Exit(p)
             \/ \E p \in Proc, a \in Area : Unmap(p, a)
    <3>1. PICK n : state' = AfterPuts(n)
      BY <2>7 DEF ForkFails, Exit, Unmap, Puts
    <3>2. UNCHANGED pageVars
      BY <2>7 DEF ForkFails, Exit, Unmap
    <3> QED BY <2>3, <2>4, <3>1, <3>2
  <2>8. CASE \/ \E p, q \in Proc : Fork(p, q)
             \/ \E p \in Proc : ExecFails(p)
             \/ \E p \in Proc, a \in Area, shared \in BOOLEAN : Link(p, a, shared)
    BY <2>3, <2>8 DEF Fork, ExecFails, Link
  <2>9. CASE \E p \in Proc, a, b \in Area, remove_next \in BOOLEAN :
                 VmaAdjust(p, a, b, remove_next)
    <3>1. UNCHANGED <<state, pageVars>>
      BY <2>9 DEF VmaAdjust
    <3> QED BY <2>3, <3>1
  <2>10. ASSUME NEW p \in Proc, NEW a \in Area, NEW stored \in BOOLEAN, Register(p, a, stored)
         PROVE  entries'[c] = 0 /\ putting'[c] = "no"
    <3>1. state[c] = "freed" /\ areas[p][a] \in Ctx
      BY <2>10 DEF Register
    <3>2. areas[p][a] # c
      BY <2>1, <3>1, FreedUnheld
    <3>3. entries'[c] = entries[c] /\ putting' = putting
      BY <1>1, <2>10, <3>1, <3>2 DEF Register, MmTypeOK
    <3> QED BY <2>2, <3>1, <3>3
  <2>11. ASSUME NEW d \in Ctx, EntryPut(d)
         PROVE  entries'[c] = 0 /\ putting'[c] = "no"
    <3>1. state[c] = "freed"
      BY <2>11 DEF EntryPut
    <3>2. d # c
      BY <1>1, <2>2, <2>11, <3>1 DEF EntryPut, MmTypeOK
    <3> QED BY <1>1, <2>2, <2>11, <3>1, <3>2 DEF EntryPut, MmTypeOK
  <2>12. ASSUME NEW d \in Ctx, EntryPutEnd(d)
         PROVE  entries'[c] = 0 /\ putting'[c] = "no"
    <3>1. CASE d # c
      BY <1>1, <2>2, <2>12, <3>1 DEF EntryPutEnd, MmTypeOK
    <3>2. CASE d = c
      <4>1. pagecount[c] = 1
        BY <1>1, <2>2, <2>12, <3>2 DEF EntryPutEnd, MmTypeOK
      <4>2. entries[c] = 0
        BY <1>1, <2>12, <3>2, <4>1 DEF EntryPutEnd, MmTypeOK, PageInv
      <4> QED BY <1>1, <2>12, <3>2, <4>2 DEF EntryPutEnd, MmTypeOK
    <3> QED BY <3>1, <3>2
  <2> QED BY <1>2, <2>5, <2>6, <2>7, <2>8, <2>9, <2>10, <2>11, <2>12 DEF MmNext
<1>3. CASE UNCHANGED mmVars
  BY <1>3 DEF mmVars, pageVars, SafeFree
<1> QED BY <1>2, <1>3

\* No page points at a context that was freed, in any interleaving of priv_ctx_put and
\* priv_ctx_entry_put, unless a fork copied areas that hold it without a reference.
THEOREM FreedAfterLastPage == MmSpec => []SafeFree
<1>1. MmInit => SafeFree
  BY DEF MmInit, SafeFree
<1> QED BY <1>1, FreeStep, MmInvariant, PTL DEF MmSpec

LEMMA FreedUntouched ==
    ASSUME MmInv, SafeFree, MmNext, NEW c \in Ctx, state[c] = "freed", owed[c] = 0
    PROVE  ~Touched(c)
<1>1. /\ \A p \in Proc : mmctx[p] # c /\ ExitPuts(p)[c] = 0
      /\ \A p \in Proc, a \in Area : areas[p][a] # c
      /\ \A p \in Proc, S \in SUBSET Area : AreaPuts(p, S)[c] = 0
  BY FreedUnheld
<1>2. entries[c] = 0 /\ putting[c] = "no"
  BY DEF SafeFree
<1>3. MmTypeOK
  BY DEF MmInv
<1>4. \A n : AfterPuts(n)[c] = state[c]
  BY DEF AfterPuts
<1>5. \A d \in Ctx : New(d) => d # c
  BY DEF New
<1>6. \A d : d # c => One(d)[c] = 0
  BY DEF One
<1>7. mapcount[c] \in Int /\ mapcount[c] + 0 = mapcount[c] /\ mapcount[c] - 0 = mapcount[c]
  BY <1>3 DEF MmTypeOK
<1>8. ASSUME NEW p \in Proc, NEW d \in Ctx, NEW a \in Area, StartPrivate(p, d, a)
      PROVE  ~Touched(c)
  BY <1>3, <1>5, <1>8 DEF StartPrivate, Touched, MmTypeOK, pageVars
<1>9. ASSUME NEW p \in Proc, NEW d \in Ctx, NEW a \in Area, Exec(p, d, a)
      PROVE  ~Touched(c)
  <2>1. d # c /\ ExitPuts(p)[c] = 0
    BY <1>1, <1>5, <1>9 DEF Exec
  <2>2. state'[c] = AfterPuts(ExitPuts(p))[c]
    BY <1>9, <2>1 DEF Exec, AfterPuts
  <2>3. mapcount'[c] = mapcount[c] - ExitPuts(p)[c]
    BY <1>9, <2>1 DEF Exec
  <2>4. UNCHANGED <<pagecount, entries, putting>>
    BY <1>9 DEF Exec, pageVars
  <2> QED BY <1>4, <1>7, <2>1, <2>2, <2>3, <2>4 DEF Touched
<1>10. ASSUME NEW p \in Proc, NEW q \in Proc, Fork(p, q)
       PROVE  ~Touched(c)
  <2>1. mapcount'[c] = mapcount[c]
    BY <1>1, <1>6, <1>7, <1>10 DEF Fork, Plus
  <2> QED BY <1>10, <2>1 DEF Fork, Touched, pageVars
<1>11. ASSUME NEW p \in Proc, NEW q \in Proc, NEW d \in Ctx, ForkPrivate(p, q, d)
       PROVE  ~Touched(c)
  <2>1. d # c /\ mmctx[p] # c
    BY <1>1, <1>5, <1>11 DEF ForkPrivate
  <2>2. One(d)[c] = 0 /\ One(mmctx[p])[c] = 0 /\ Nothing[c] = 0
    BY <1>6, <2>1 DEF Nothing
  <2>3. mapcount'[c] = mapcount[c]
    BY <1>7, <1>11, <2>2 DEF ForkPrivate, Plus
  <2>4. state'[c] = state[c]
    BY <1>3, <1>11, <2>1 DEF ForkPrivate, MmTypeOK
  <2> QED BY <1>11, <2>3, <2>4 DEF ForkPrivate, Touched, pageVars
<1>12. ASSUME NEW n, n[c] = 0, Puts(n), UNCHANGED pageVars
       PROVE  ~Touched(c)
  BY <1>4, <1>7, <1>12 DEF Puts, Touched, pageVars
<1>13. CASE \E p \in Proc, S \in SUBSET Area : ForkFails(p, S)
  BY <1>1, <1>12, <1>13 DEF ForkFails
<1>14. CASE \E p \in Proc : Exit(p)
  BY <1>1, <1>12, <1>14 DEF Exit
<1>15. CASE \E p \in Proc, a \in Area : Unmap(p, a)
  <2> PICK p \in Proc, a \in Area : Unmap(p, a)
    BY <1>15
  <2>1. AreaPuts(p, {a})[c] = 0
    BY <1>1
  <2> QED BY <1>12, <2>1 DEF Unmap
<1>16. ASSUME NEW p \in Proc, ExecFails(p)
       PROVE  ~Touched(c)
  <2>1. mapcount'[c] = mapcount[c]
    BY <1>1, <1>6, <1>7, <1>16 DEF ExecFails, Plus
  <2> QED BY <1>16, <2>1 DEF ExecFails, Touched, pageVars
<1>17. ASSUME NEW p \in Proc, NEW a \in Area, NEW shared \in BOOLEAN, Link(p, a, shared)
       PROVE  ~Touched(c)
  <2>1. mapcount'[c] = mapcount[c]
    BY <1>1, <1>6, <1>7, <1>17 DEF Link, Plus
  <2> QED BY <1>17, <2>1 DEF Link, Touched, pageVars
<1>18. ASSUME NEW p \in Proc, NEW a \in Area, NEW b \in Area, NEW remove_next \in BOOLEAN,
              VmaAdjust(p, a, b, remove_next)
       PROVE  ~Touched(c)
  <2> DEFINE z == Adjusted(p, a, b)
             get == IF z[1] \in Ctx /\ z # <<areas[p][a], areas[p][b]>> /\ CanGet(z[1])
                    THEN One(z[1]) ELSE Nothing
  <2>1. z[1] \in {NULL, mmctx[p], areas[p][a]}
    BY DEF Adjusted
  <2>2. z[1] \in Ctx => z[1] # c
    BY <1>1, <2>1, MmAssumption
  <2> HIDE DEF z
  <2>3. get[c] = 0
    BY <1>6, <2>2 DEF Nothing
  <2>4. mapcount' = Plus(mapcount, get)
    BY <1>18 DEF VmaAdjust, z
  <2> HIDE DEF get
  <2>5. mapcount'[c] = mapcount[c]
    BY <1>7, <2>3, <2>4 DEF Plus
  <2> QED BY <1>18, <2>5 DEF VmaAdjust, Touched, pageVars
<1>19. ASSUME NEW p \in Proc, NEW a \in Area, NEW stored \in BOOLEAN, Register(p, a, stored)
       PROVE  ~Touched(c)
  BY <1>1, <1>3, <1>19 DEF Register, Touched, MmTypeOK
<1>20. ASSUME NEW d \in Ctx, EntryPut(d) \/ EntryPutEnd(d)
       PROVE  ~Touched(c)
  <2>1. d # c
    BY <1>2, <1>20 DEF EntryPut, EntryPutEnd
  <2> QED BY <1>3, <1>20, <2>1 DEF EntryPut, EntryPutEnd, Touched, MmTypeOK
<1> QED BY <1>8, <1>9, <1>10, <1>11, <1>13, <1>14, <1>15, <1>16, <1>17, <1>18, <1>19, <1>20
        DEF MmNext

\* priv_ctx_put and priv_ctx_entry_put never bring a key back, and no hook in fork,
\* exec, exit or mmap uses a context after it was freed, as long as no fork copied the
\* areas that hold it without a reference.
THEOREM NoUseAfterFree == MmSpec => [][StaysDead]_mmVars
<1>1. MmInv /\ SafeFree /\ [MmNext /\ Bounded]_mmVars => [StaysDead]_mmVars
  BY KeyStaysDestroyed, FreedUntouched DEF StaysDead
<1> QED BY <1>1, MmInvariant, FreedAfterLastPage, PTL DEF MmSpec
=============================================================================
