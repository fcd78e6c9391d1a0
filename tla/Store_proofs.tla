---------------------------- MODULE Store_proofs ----------------------------
(***************************************************************************)
(* Theorems about KernelStore, for every set of names, kernels, templated  *)
(* kernels and parameter values, each under the client rules it names; and *)
(* about TemplatedKernel, for every template, that it implements that.     *)
(***************************************************************************)
EXTENDS TemplatedKernel, Induction_proofs

(* Only finitely many names were ever stored.                              *)
Finite == IsFiniteSet(DOMAIN kernelByName)

(* A name is in the store with its kernel, one that was constructed.       *)
Stored == \A n \in DOMAIN kernelByName : /\ n \in DOMAIN kernelOwnedByName
                                         /\ kernelByName[n] \in made

(* A kernel not yet constructed was not deleted.                           *)
UnmadeUndeleted == \A k \in Kernels : k \notin made => deleted[k] = 0

(* An owned name has a kernel that was constructed.                        *)
OwnedMade == \A n \in OwnedNames : kernelByName[n] \in made

(* A kernel is owned under one name.                                       *)
OwnedOnce == \A m, n \in OwnedNames : kernelByName[m] = kernelByName[n] => m = n

(* The name for p is that of an owned kernel rendered with p.              *)
NamedForParams ==
  \A p \in Params : NameFor[p] \in DOMAIN kernelByName =>
    NameFor[p] \in OwnedNames /\ built[kernelByName[NameFor[p]]] = p

-----------------------------------------------------------------------------
(* What Put does.                                                          *)
LEMMA PutDef ==
  ASSUME NEW f, NEW n, NEW v
  PROVE  /\ DOMAIN Put(f, n, v) = DOMAIN f \cup {n}
         /\ Put(f, n, v)[n] = v
         /\ \A m \in DOMAIN f : m # n => Put(f, n, v)[m] = f[m]
BY DEF Put

(* How often ~EasyCL deletes a kernel is a number.                         *)
LEMMA OwnedCount ==
  ASSUME TypeOK, Finite, NEW k
  PROVE  Cardinality({n \in OwnedNames : kernelByName[n] = k}) \in Nat
<1>1. {n \in OwnedNames : kernelByName[n] = k} \subseteq DOMAIN kernelByName
  BY DEF OwnedNames, TypeOK
<1> QED
  BY <1>1, FS_Subset, FS_CardinalityType DEF Finite

(* ... and is 0 or 1 if the kernel is owned once at most.                  *)
LEMMA OwnedCountOnce ==
  ASSUME OwnedOnce, NEW k
  PROVE  Cardinality({n \in OwnedNames : kernelByName[n] = k}) = IF Owned(k) THEN 1 ELSE 0
<1>1. CASE Owned(k)
  <2>1. PICK n \in OwnedNames : kernelByName[n] = k
    BY <1>1 DEF Owned
  <2>2. {m \in OwnedNames : kernelByName[m] = k} = {n}
    BY <2>1 DEF OwnedOnce
  <2> QED
    BY <1>1, <2>2, FS_Singleton
<1>2. CASE ~Owned(k)
  <2>1. {m \in OwnedNames : kernelByName[m] = k} = {}
    BY <1>2 DEF Owned
  <2> QED
    BY <1>2, <2>1, FS_EmptySet
<1> QED
  BY <1>1, <1>2

(* What storing a kernel under a new name does.                            *)
LEMMA StoreEffect ==
  ASSUME TypeOK, NEW n \in Names, NEW k \in Kernels, NEW deleteWithCl \in BOOLEAN,
         Store(n, k, deleteWithCl)
  PROVE  /\ n \notin DOMAIN kernelByName /\ n \notin OwnedNames
         /\ DOMAIN kernelByName' = DOMAIN kernelByName \cup {n}
         /\ DOMAIN kernelOwnedByName' = DOMAIN kernelOwnedByName \cup {n}
         /\ kernelByName'[n] = k
         /\ \A m \in DOMAIN kernelByName : kernelByName'[m] = kernelByName[m]
         /\ kernelOwnedByName'[n] = deleteWithCl
         /\ \A m \in DOMAIN kernelOwnedByName :
              kernelOwnedByName'[m] = kernelOwnedByName[m]
         /\ OwnedNames \subseteq DOMAIN kernelByName
<1>1. /\ n \notin DOMAIN kernelByName
      /\ kernelByName' = Put(kernelByName, n, k)
      /\ kernelOwnedByName' = Put(kernelOwnedByName, n, deleteWithCl)
  BY DEF Store
<1>2. /\ DOMAIN kernelByName' = DOMAIN kernelByName \cup {n}
      /\ kernelByName'[n] = k
      /\ \A m \in DOMAIN kernelByName : kernelByName'[m] = kernelByName[m]
  BY <1>1 DEF Put
<1>3. /\ n \notin DOMAIN kernelOwnedByName
      /\ DOMAIN kernelOwnedByName \subseteq DOMAIN kernelByName
  BY <1>1 DEF TypeOK
<1>4. /\ DOMAIN kernelOwnedByName' = DOMAIN kernelOwnedByName \cup {n}
      /\ kernelOwnedByName'[n] = deleteWithCl
      /\ \A m \in DOMAIN kernelOwnedByName : kernelOwnedByName'[m] = kernelOwnedByName[m]
  BY <1>1, <1>3 DEF Put
<1> QED
  BY <1>1, <1>2, <1>3, <1>4 DEF OwnedNames

(* ... and to what is owned.                                               *)
LEMMA StoreOwned ==
  ASSUME TypeOK, NEW n \in Names, NEW k \in Kernels, Store(n, k, TRUE)
  PROVE  OwnedNames' = OwnedNames \cup {n}
<1>1. /\ n \notin DOMAIN kernelOwnedByName
      /\ kernelOwnedByName' = Put(kernelOwnedByName, n, TRUE)
  BY DEF Store, TypeOK
<1> QED
  BY <1>1 DEF Put, OwnedNames

LEMMA StoreNotOwned ==
  ASSUME TypeOK, NEW n \in Names, NEW k \in Kernels, Store(n, k, FALSE)
  PROVE  OwnedNames' = OwnedNames
<1>1. /\ n \notin DOMAIN kernelOwnedByName
      /\ kernelOwnedByName' = Put(kernelOwnedByName, n, FALSE)
  BY DEF Store, TypeOK
<1> QED
  BY <1>1 DEF Put, OwnedNames

(* What getKernel does to the store.                                       *)
LEMMA LookupEffect ==
  ASSUME TypeOK, NEW n \in Names, GetKernel(n)
  PROVE  /\ DOMAIN kernelByName' = DOMAIN kernelByName \cup {n}
         /\ \A m \in DOMAIN kernelByName : kernelByName'[m] = kernelByName[m]
         /\ n \notin DOMAIN kernelByName => kernelByName'[n] = Null
         /\ UNCHANGED kernelOwnedByName
         /\ OwnedNames \subseteq DOMAIN kernelByName
         /\ OwnedNames' = OwnedNames
<1>1. /\ kernelByName' = Put(kernelByName, n, Lookup(n))
      /\ UNCHANGED kernelOwnedByName
  BY DEF GetKernel
<1>2. n \in DOMAIN kernelByName => Lookup(n) = kernelByName[n]
  BY DEF Lookup
<1>3. n \notin DOMAIN kernelByName => Lookup(n) = Null
  BY DEF Lookup
<1> QED
  BY <1>1, <1>2, <1>3 DEF Put, OwnedNames, TypeOK

(* What buildKernel does: it returns a stored kernel, or constructs one    *)
(* and may store it.                                                       *)
LEMMA BuildEffect ==
  ASSUME NEW t \in Templated, NEW n \in Names, NEW useKernelStore \in BOOLEAN,
         BuildTemplated(t, n, useKernelStore)
  PROVE  /\ open
         /\ Rule("namePerParams") => n = NameFor[params[t]]
         /\ \/ /\ n \in DOMAIN kernelByName
               /\ got' = [kernel |-> kernelByName[n], wanted |-> params[t]]
               /\ UNCHANGED <<store, made, built>>
            \/ \E k \in Kernels :
                 /\ Construct(k, params[t])
                 /\ Store(n, k, TRUE) \/ UNCHANGED store
                 /\ got' = [kernel |-> k, wanted |-> params[t]]
         /\ UNCHANGED <<deleted, params, open>>
BY DEF BuildTemplated, KernelExists

-----------------------------------------------------------------------------
(* The state is well formed, and the store finite, whatever the client     *)
(* does.                                                                   *)
LEMMA StoreType ==
  ASSUME TypeOK, Finite, NEW n \in Names, NEW k \in Kernels,
         NEW deleteWithCl \in BOOLEAN, Store(n, k, deleteWithCl)
  PROVE  /\ DOMAIN kernelByName' \subseteq Names
         /\ \A m \in DOMAIN kernelByName' : kernelByName'[m] \in Kernels \cup {Null}
         /\ DOMAIN kernelOwnedByName' \subseteq DOMAIN kernelByName'
         /\ \A m \in DOMAIN kernelOwnedByName' : kernelOwnedByName'[m] \in BOOLEAN
         /\ Finite'
<1>1. /\ DOMAIN kernelByName' = DOMAIN kernelByName \cup {n}
      /\ DOMAIN kernelOwnedByName' = DOMAIN kernelOwnedByName \cup {n}
      /\ kernelByName'[n] = k
      /\ \A m \in DOMAIN kernelByName : kernelByName'[m] = kernelByName[m]
      /\ kernelOwnedByName'[n] = deleteWithCl
      /\ \A m \in DOMAIN kernelOwnedByName : kernelOwnedByName'[m] = kernelOwnedByName[m]
  BY StoreEffect
<1>2. IsFiniteSet(DOMAIN kernelByName \cup {n})
  BY FS_AddElement DEF Finite
<1>3. Finite'
  BY <1>1, <1>2 DEF Finite
<1> QED
  BY <1>1, <1>3 DEF TypeOK

(* Every step keeps it well formed.                                        *)
LEMMA NextType ==
  ASSUME TypeOK, Finite, [Next]_vars
  PROVE  TypeOK' /\ Finite'
<1> USE DEF TypeOK
<1>1. ASSUME NEW k \in Kernels, Build(k) PROVE TypeOK' /\ Finite'
  BY <1>1 DEF Build, Construct, store, Finite
<1>2. ASSUME NEW k \in Kernels, DeleteKernel(k) PROVE TypeOK' /\ Finite'
  BY <1>2 DEF DeleteKernel, store, Finite
<1>3. ASSUME NEW n \in Names, NEW k \in Kernels, NEW deleteWithCl \in BOOLEAN,
             StoreKernel(n, k, deleteWithCl)
      PROVE  TypeOK' /\ Finite'
  BY <1>3, StoreType DEF StoreKernel
<1>4. ASSUME NEW n \in Names, GetKernel(n) PROVE TypeOK' /\ Finite'
  <2>1. Finite'
    <3>1. DOMAIN kernelByName' = DOMAIN kernelByName \cup {n}
      BY <1>4, LookupEffect
    <3>2. IsFiniteSet(DOMAIN kernelByName \cup {n})
      BY FS_AddElement DEF Finite
    <3> QED
      BY <3>1, <3>2 DEF Finite
  <2>2. Lookup(n) \in Kernels \cup {Null}
    BY DEF Lookup
  <2>3. /\ DOMAIN kernelByName' \subseteq Names
        /\ \A m \in DOMAIN kernelByName' : kernelByName'[m] \in Kernels \cup {Null}
        /\ DOMAIN kernelOwnedByName' \subseteq DOMAIN kernelByName'
    BY <1>4, LookupEffect
  <2> QED
    BY <1>4, <2>1, <2>2, <2>3 DEF GetKernel
<1>5. ASSUME NEW t \in Templated, NEW p \in Params, SetParam(t, p)
      PROVE  TypeOK' /\ Finite'
  BY <1>5 DEF SetParam, store, Finite
<1>6. ASSUME NEW t \in Templated, NEW n \in Names, NEW useKernelStore \in BOOLEAN,
             BuildTemplated(t, n, useKernelStore)
      PROVE  TypeOK' /\ Finite'
  <2>1. params[t] \in Params
    OBVIOUS
  <2>2. CASE /\ n \in DOMAIN kernelByName
             /\ got' = [kernel |-> kernelByName[n], wanted |-> params[t]]
             /\ UNCHANGED <<store, made, built>>
    BY <1>6, <2>1, <2>2, BuildEffect DEF store, Finite
  <2>3. ASSUME NEW k \in Kernels, Construct(k, params[t]),
               Store(n, k, TRUE) \/ UNCHANGED store,
               got' = [kernel |-> k, wanted |-> params[t]]
        PROVE  TypeOK' /\ Finite'
    <3>1. UNCHANGED <<deleted, params, open>>
      BY <1>6, BuildEffect
    <3>2. /\ made' \subseteq Kernels
          /\ built' \in [Kernels -> Params \cup {Null}]
          /\ got' \in [kernel : Kernels \cup {Null}, wanted : Params \cup {Null}]
      BY <2>1, <2>3 DEF Construct
    <3>3. CASE Store(n, k, TRUE)
      BY <3>1, <3>2, <3>3, StoreType
    <3>4. CASE UNCHANGED store
      BY <3>1, <3>2, <3>4 DEF store, Finite
    <3> QED
      BY <2>3, <3>3, <3>4
  <2> QED
    BY <1>6, <2>2, <2>3, BuildEffect
<1>7. CASE Delete
  <2>1. \A k \in Kernels :
          deleted[k] + Cardinality({n \in OwnedNames : kernelByName[n] = k}) \in Nat
    <3> SUFFICES ASSUME NEW k \in Kernels
                 PROVE  deleted[k]
                          + Cardinality({n \in OwnedNames : kernelByName[n] = k}) \in Nat
      OBVIOUS
    <3>1. Cardinality({n \in OwnedNames : kernelByName[n] = k}) \in Nat
      BY OwnedCount
    <3>2. deleted[k] \in Nat
      OBVIOUS
    <3> HIDE DEF TypeOK
    <3> QED
      BY <3>1, <3>2
  <2> QED
    BY <1>7, <2>1 DEF Delete, store, Finite
<1>8. CASE UNCHANGED vars
  BY <1>8 DEF vars, store, Finite
<1> QED
  BY <1>1, <1>2, <1>3, <1>4, <1>5, <1>6, <1>7, <1>8 DEF Next

(* It is at first.                                                         *)
LEMMA InitType == Init => TypeOK /\ Finite
BY FS_EmptySet DEF Init, Nothing, TypeOK, Finite

(* The two maps of the store, what was constructed and deleted, and what   *)
(* was returned stay well formed (EasyCL::kernelByName,                    *)
(* EasyCL::kernelOwnedByName), whatever the client does.                   *)
THEOREM StoreTypeCorrect == Spec => []TypeOK
<1>1. TypeOK /\ Finite /\ [Next]_vars => TypeOK' /\ Finite'
  BY NextType
<1> QED
  BY <1>1, InitType, PTL DEF Spec

-----------------------------------------------------------------------------
(* From here on a kernel is handed to the store once, and then not deleted *)
(* by the client.                                                          *)
Deletion == OwnedMade /\ UnmadeUndeleted /\ OwnedOnce /\ DeletedOnce

(* Names that are not owned come and go without changing what is deleted.  *)
LEMMA SameDeletion ==
  ASSUME TypeOK, Deletion, OwnedNames' = OwnedNames, UNCHANGED <<deleted, open>>,
         made \subseteq made',
         \A n \in OwnedNames : kernelByName'[n] = kernelByName[n]
  PROVE  Deletion'
<1>1. OwnedMade' /\ OwnedOnce'
  BY DEF Deletion, OwnedMade, OwnedOnce
<1>2. UnmadeUndeleted'
  BY DEF Deletion, UnmadeUndeleted
<1>3. DeletedOnce'
  BY DEF Deletion, DeletedOnce
<1> QED
  BY <1>1, <1>2, <1>3 DEF Deletion

(* A kernel is stored that was constructed, not deleted, and, if it is to  *)
(* be owned, is not owned yet.                                             *)
LEMMA StoreDeletion ==
  ASSUME TypeOK, Deletion, open, NEW n \in Names, NEW k \in Kernels,
         NEW deleteWithCl \in BOOLEAN, Store(n, k, deleteWithCl),
         deleteWithCl => ~Owned(k),
         k \in made', deleted[k] = 0, made \subseteq made', UNCHANGED <<deleted, open>>
  PROVE  Deletion'
<1>1. CASE deleteWithCl = FALSE
  <2>1. /\ OwnedNames' = OwnedNames
        /\ \A m \in OwnedNames : kernelByName'[m] = kernelByName[m]
    BY <1>1, StoreEffect, StoreNotOwned
  <2> QED
    BY <2>1, SameDeletion
<1>2. CASE deleteWithCl = TRUE
  <2>1. /\ OwnedNames' = OwnedNames \cup {n} /\ n \notin OwnedNames
        /\ \A m \in OwnedNames : kernelByName'[m] = kernelByName[m]
        /\ kernelByName'[n] = k
    BY <1>2, StoreEffect, StoreOwned
  <2>2. \A m \in OwnedNames : kernelByName[m] # k
    BY <1>2 DEF Owned
  <2>3. OwnedMade' /\ OwnedOnce'
    BY <2>1, <2>2 DEF Deletion, OwnedMade, OwnedOnce
  <2>4. UnmadeUndeleted'
    BY DEF Deletion, UnmadeUndeleted
  <2>5. \A m \in OwnedNames' : deleted'[kernelByName'[m]] = 0
    <3>1. \A m \in OwnedNames : deleted[kernelByName[m]] = 0
      BY DEF Deletion, DeletedOnce
    <3> QED
      BY <2>1, <3>1
  <2>6. DeletedOnce'
    BY <2>5 DEF Deletion, DeletedOnce
  <2> QED
    BY <2>3, <2>4, <2>6 DEF Deletion
<1> QED
  BY <1>1, <1>2

(* The destructor deletes each owned kernel once.                          *)
LEMMA DeleteDeletion ==
  ASSUME TypeOK, Deletion, Delete
  PROVE  Deletion'
<1>1. \A k \in Kernels : deleted'[k] = deleted[k] + (IF Owned(k) THEN 1 ELSE 0)
  <2>1. \A k \in Kernels : Cardinality({n \in OwnedNames : kernelByName[n] = k})
                             = IF Owned(k) THEN 1 ELSE 0
    BY OwnedCountOnce DEF Deletion
  <2> QED
    BY <2>1 DEF Delete
<1>2. UNCHANGED <<store, made>> /\ open /\ ~open' /\ OwnedNames' = OwnedNames
  BY DEF Delete, store, OwnedNames
<1>3. \A k \in Kernels : Owned(k) => deleted[k] = 0
  BY <1>2 DEF Owned, Deletion, DeletedOnce
<1>4. \A n \in OwnedNames : kernelByName[n] \in Kernels /\ Owned(kernelByName[n])
  BY DEF Owned, Deletion, OwnedMade, TypeOK
<1>5. OwnedMade' /\ OwnedOnce'
  BY <1>2 DEF Deletion, OwnedMade, OwnedOnce, store
<1>6. UnmadeUndeleted'
  BY <1>1, <1>2 DEF Deletion, UnmadeUndeleted, OwnedMade, Owned
<1>7. DeletedOnce'
  <2>1. \A k \in Kernels : deleted'[k] <= 1
    BY <1>1, <1>3 DEF Deletion, DeletedOnce, TypeOK
  <2>2. \A n \in OwnedNames : deleted'[kernelByName[n]] = 1
    BY <1>1, <1>3, <1>4
  <2> QED
    BY <1>2, <2>1, <2>2 DEF DeletedOnce, store
<1> QED
  BY <1>5, <1>6, <1>7 DEF Deletion

(* Every step keeps what is owned, and deleted, in order.                  *)
LEMMA NextDeletion ==
  ASSUME TypeOK, Deletion, Rule("oneOwner"), [Next]_vars
  PROVE  Deletion'
<1>1. ASSUME NEW k \in Kernels, Build(k) PROVE Deletion'
  BY <1>1, SameDeletion DEF Build, Construct, store, OwnedNames
<1>2. ASSUME NEW k \in Kernels, DeleteKernel(k) PROVE Deletion'
  <2>1. /\ ~Owned(k) /\ k \in made /\ deleted[k] = 0
        /\ deleted' = [deleted EXCEPT ![k] = 1]
        /\ UNCHANGED <<store, made, open>> /\ OwnedNames' = OwnedNames
    BY <1>2 DEF DeleteKernel, Alive, store, OwnedNames
  <2>2. \A n \in OwnedNames : kernelByName[n] # k
    BY <2>1 DEF Owned
  <2>3. OwnedMade' /\ OwnedOnce'
    BY <2>1 DEF Deletion, OwnedMade, OwnedOnce, store
  <2>4. UnmadeUndeleted'
    BY <2>1 DEF Deletion, UnmadeUndeleted, TypeOK
  <2>5. DeletedOnce'
    <3>1. \A n \in OwnedNames : kernelByName[n] \in Kernels
      BY DEF Deletion, OwnedMade, TypeOK
    <3> QED
      BY <2>1, <2>2, <3>1 DEF Deletion, DeletedOnce, TypeOK, store
  <2> QED
    BY <2>3, <2>4, <2>5 DEF Deletion
<1>3. ASSUME NEW n \in Names, NEW k \in Kernels, NEW deleteWithCl \in BOOLEAN,
             StoreKernel(n, k, deleteWithCl)
      PROVE  Deletion'
  BY <1>3, StoreDeletion DEF StoreKernel, Alive
<1>4. ASSUME NEW n \in Names, GetKernel(n) PROVE Deletion'
  <2>1. /\ OwnedNames' = OwnedNames
        /\ \A m \in OwnedNames : kernelByName'[m] = kernelByName[m]
    BY <1>4, LookupEffect
  <2> QED
    BY <1>4, <2>1, SameDeletion DEF GetKernel
<1>5. ASSUME NEW t \in Templated, NEW p \in Params, SetParam(t, p) PROVE Deletion'
  BY <1>5, SameDeletion DEF SetParam, store, OwnedNames
<1>6. ASSUME NEW t \in Templated, NEW n \in Names, NEW useKernelStore \in BOOLEAN,
             BuildTemplated(t, n, useKernelStore)
      PROVE  Deletion'
  <2>1. open /\ UNCHANGED <<deleted, open>>
    BY <1>6, BuildEffect
  <2>2. CASE UNCHANGED <<store, made>>
    BY <2>1, <2>2, SameDeletion DEF store, OwnedNames
  <2>3. ASSUME NEW k \in Kernels, Construct(k, params[t]), UNCHANGED store
        PROVE  Deletion'
    BY <2>1, <2>3, SameDeletion DEF Construct, store, OwnedNames
  <2>4. ASSUME NEW k \in Kernels, Construct(k, params[t]), Store(n, k, TRUE)
        PROVE  Deletion'
    <3>1. k \notin made /\ k \in made' /\ made \subseteq made'
      BY <2>4 DEF Construct
    <3>2. deleted[k] = 0 /\ ~Owned(k)
      BY <3>1 DEF Deletion, UnmadeUndeleted, OwnedMade, Owned
    <3> QED
      BY <2>1, <2>4, <3>1, <3>2, StoreDeletion
  <2> QED
    BY <1>6, <2>2, <2>3, <2>4, BuildEffect
<1>7. CASE Delete
  BY <1>7, DeleteDeletion
<1>8. CASE UNCHANGED vars
  BY <1>8, SameDeletion DEF vars, store, OwnedNames
<1> QED
  BY <1>1, <1>2, <1>3, <1>4, <1>5, <1>6, <1>7, <1>8 DEF Next

(* Nothing was stored at first.                                            *)
LEMMA InitDeletion == Init => Deletion
BY DEF Init, Nothing, Deletion, OwnedMade, UnmadeUndeleted, OwnedOnce, DeletedOnce,
       OwnedNames

(* So it is always.                                                        *)
LEMMA DeletionCorrect ==
  ASSUME Rule("oneOwner")
  PROVE  Spec => []Deletion
<1>1. TypeOK /\ Deletion /\ [Next]_vars => Deletion'
  BY NextDeletion
<1> QED
  BY <1>1, InitDeletion, StoreTypeCorrect, PTL DEF Spec

(* No kernel is deleted twice, and an owned one is deleted by ~EasyCL and  *)
(* not before, for a client that hands a kernel over once and then leaves  *)
(* it alone; it may look up names that are not there, and reuse names.     *)
THEOREM KernelsDeletedOnce ==
  ASSUME Rule("oneOwner")
  PROVE  Spec => []DeletedOnce
<1>1. Deletion => DeletedOnce
  BY DEF Deletion
<1> QED
  BY <1>1, DeletionCorrect, PTL

-----------------------------------------------------------------------------
(* From here on names are looked up that were stored, and each parameter   *)
(* value has a name of its own.                                            *)
OneNameEach == \A p, q \in Params : NameFor[p] = NameFor[q] => p = q

Cache == NamedForParams /\ CacheFits /\ CacheAlive

(* Looking up a name that is there changes nothing in the store.           *)
LEMMA KnownLookup ==
  ASSUME TypeOK, Rule("knownNames"), NEW n \in Names, GetKernel(n)
  PROVE  /\ DOMAIN kernelByName' = DOMAIN kernelByName
         /\ \A m \in DOMAIN kernelByName : kernelByName'[m] = kernelByName[m]
         /\ UNCHANGED kernelOwnedByName
         /\ OwnedNames' = OwnedNames
BY LookupEffect DEF GetKernel

(* Every name in the store has a kernel.                                   *)
LEMMA NextStored ==
  ASSUME TypeOK, Stored, Rule("knownNames"), [Next]_vars
  PROVE  Stored'
<1>1. ASSUME UNCHANGED store, made \subseteq made' PROVE Stored'
  BY <1>1 DEF Stored, store
<1>2. ASSUME NEW n \in Names, NEW k \in Kernels, NEW deleteWithCl \in BOOLEAN,
             Store(n, k, deleteWithCl), k \in made', made \subseteq made'
      PROVE  Stored'
  <2>1. /\ DOMAIN kernelByName' = DOMAIN kernelByName \cup {n}
        /\ DOMAIN kernelOwnedByName' = DOMAIN kernelOwnedByName \cup {n}
        /\ kernelByName'[n] = k
        /\ \A m \in DOMAIN kernelByName : kernelByName'[m] = kernelByName[m]
    BY <1>2, StoreEffect
  <2> QED
    BY <1>2, <2>1 DEF Stored
<1>3. ASSUME NEW n \in Names, GetKernel(n) PROVE Stored'
  BY <1>3, KnownLookup DEF Stored, GetKernel
<1>4. ASSUME NEW t \in Templated, NEW n \in Names, NEW useKernelStore \in BOOLEAN,
             BuildTemplated(t, n, useKernelStore)
      PROVE  Stored'
  <2>1. ASSUME NEW k \in Kernels, Construct(k, params[t]), Store(n, k, TRUE)
        PROVE  Stored'
    BY <1>2, <2>1 DEF Construct
  <2>2. ASSUME NEW k \in Kernels, Construct(k, params[t]), UNCHANGED store
        PROVE  Stored'
    BY <1>1, <2>2 DEF Construct
  <2> QED
    BY <1>1, <1>4, <2>1, <2>2, BuildEffect DEF store
<1>5. ASSUME NEW n \in Names, NEW k \in Kernels, NEW deleteWithCl \in BOOLEAN,
             StoreKernel(n, k, deleteWithCl)
      PROVE  Stored'
  BY <1>2, <1>5 DEF StoreKernel, Alive
<1> QED
  BY <1>1, <1>3, <1>4, <1>5
  DEF Next, Build, Construct, DeleteKernel, SetParam, Delete, vars, store

(* A kernel is constructed: those in the store and the one returned last   *)
(* were there before.                                                      *)
LEMMA ConstructCache ==
  ASSUME TypeOK, Stored, NEW k \in Kernels, NEW p, Construct(k, p)
  PROVE  /\ \A j \in made : built'[j] = built[j] /\ j \in made'
         /\ \A n \in DOMAIN kernelByName : built'[kernelByName[n]] = built[kernelByName[n]]
         /\ k \notin made /\ k \in made' /\ built'[k] = p
BY DEF Construct, TypeOK, Stored

(* buildKernel returns a kernel that fits, and the store goes on to fit.   *)
LEMMA BuildCache ==
  ASSUME TypeOK, Stored, Deletion, Cache, OneNameEach, Rule("namePerParams"),
         NEW t \in Templated, NEW n \in Names, NEW useKernelStore \in BOOLEAN,
         BuildTemplated(t, n, useKernelStore)
  PROVE  Cache'
<1> DEFINE p == params[t]
<1>1. /\ open /\ n = NameFor[p] /\ p \in Params /\ UNCHANGED <<deleted, params, open>>
  BY BuildEffect DEF TypeOK
<1>2. CASE /\ n \in DOMAIN kernelByName
           /\ got' = [kernel |-> kernelByName[n], wanted |-> p]
           /\ UNCHANGED <<store, made, built>>
  <2>1. /\ n \in OwnedNames /\ built[kernelByName[n]] = p
    BY <1>1, <1>2 DEF Cache, NamedForParams
  <2>2. kernelByName[n] \in made /\ deleted[kernelByName[n]] = 0
    BY <1>1, <2>1 DEF Deletion, OwnedMade, DeletedOnce
  <2>3. NamedForParams'
    BY <1>2 DEF Cache, NamedForParams, OwnedNames, store
  <2>4. CacheFits'
    BY <1>2, <2>1 DEF CacheFits
  <2>5. CacheAlive'
    BY <1>1, <1>2, <2>2 DEF CacheAlive, Alive
  <2> QED
    BY <2>3, <2>4, <2>5 DEF Cache
<1>3. ASSUME NEW k \in Kernels, Construct(k, p), Store(n, k, TRUE) \/ UNCHANGED store,
             got' = [kernel |-> k, wanted |-> p]
      PROVE  Cache'
  <2>1. /\ \A m \in DOMAIN kernelByName : built'[kernelByName[m]] = built[kernelByName[m]]
        /\ k \notin made /\ k \in made' /\ built'[k] = p
    BY <1>3, ConstructCache
  <2>2. CacheFits'
    BY <1>3, <2>1 DEF CacheFits
  <2>3. CacheAlive'
    BY <1>1, <1>3, <2>1 DEF CacheAlive, Alive, Deletion, UnmadeUndeleted
  <2>4. CASE UNCHANGED store
    BY <2>1, <2>2, <2>3, <2>4 DEF Cache, NamedForParams, OwnedNames, store
  <2>5. CASE Store(n, k, TRUE)
    <3>1. /\ DOMAIN kernelByName' = DOMAIN kernelByName \cup {n}
          /\ kernelByName'[n] = k
          /\ \A m \in DOMAIN kernelByName : kernelByName'[m] = kernelByName[m]
          /\ n \notin DOMAIN kernelByName
      BY <2>5, StoreEffect
    <3>2. OwnedNames' = OwnedNames \cup {n}
      BY <2>5, StoreOwned
    <3>3. ASSUME NEW r \in Params, NameFor[r] \in DOMAIN kernelByName'
          PROVE  NameFor[r] \in OwnedNames' /\ built'[kernelByName'[NameFor[r]]] = r
      <4>1. CASE NameFor[r] = n
        BY <1>1, <2>1, <3>1, <3>2, <4>1 DEF OneNameEach
      <4>2. CASE NameFor[r] # n
        <5>1. NameFor[r] \in DOMAIN kernelByName
          BY <3>1, <3>3, <4>2
        <5> QED
          BY <2>1, <3>1, <3>2, <5>1 DEF Cache, NamedForParams
      <4> QED
        BY <4>1, <4>2
    <3>4. NamedForParams'
      BY <3>3 DEF NamedForParams
    <3> QED
      BY <2>2, <2>3, <3>4 DEF Cache
  <2> QED
    BY <1>3, <2>4, <2>5
<1> QED
  BY <1>2, <1>3, BuildEffect

(* Every step keeps the cache fitting.                                     *)
LEMMA NextCache ==
  ASSUME TypeOK, Stored, Deletion, Cache, OneNameEach,
         Rule("knownNames"), Rule("namePerParams"), [Next]_vars
  PROVE  Cache'
<1>1. ASSUME NEW k \in Kernels, Build(k) PROVE Cache'
  <2>1. /\ \A j \in made : built'[j] = built[j] /\ j \in made'
        /\ \A n \in DOMAIN kernelByName : built'[kernelByName[n]] = built[kernelByName[n]]
    BY <1>1, ConstructCache DEF Build
  <2>2. UNCHANGED <<store, deleted, got>>
    BY <1>1 DEF Build
  <2> QED
    BY <2>1, <2>2
    DEF Cache, NamedForParams, OwnedNames, CacheFits, CacheAlive, Alive, store
<1>2. ASSUME UNCHANGED <<store, built>>, got'.wanted = Null PROVE Cache'
  BY <1>2 DEF Cache, NamedForParams, OwnedNames, CacheFits, CacheAlive, store
<1>3. ASSUME NEW n \in Names, NEW k \in Kernels, NEW deleteWithCl \in BOOLEAN,
             StoreKernel(n, k, deleteWithCl)
      PROVE  Cache'
  <2>1. /\ DOMAIN kernelByName' = DOMAIN kernelByName \cup {n}
        /\ \A m \in DOMAIN kernelByName : kernelByName'[m] = kernelByName[m]
    BY <1>3, StoreEffect DEF StoreKernel
  <2>2. OwnedNames \subseteq OwnedNames'
    <3>1. CASE deleteWithCl = TRUE
      BY <1>3, <3>1, StoreOwned DEF StoreKernel
    <3>2. CASE deleteWithCl = FALSE
      BY <1>3, <3>2, StoreNotOwned DEF StoreKernel
    <3> QED
      BY <3>1, <3>2
  <2>3. /\ \A p \in Params : NameFor[p] # n
        /\ UNCHANGED <<made, deleted, built, got>>
    BY <1>3 DEF StoreKernel
  <2>4. NamedForParams'
    BY <2>1, <2>2, <2>3 DEF Cache, NamedForParams
  <2> QED
    BY <2>3, <2>4 DEF Cache, CacheFits, CacheAlive, Alive
<1>4. ASSUME NEW n \in Names, GetKernel(n) PROVE Cache'
  <2>1. /\ DOMAIN kernelByName' = DOMAIN kernelByName
        /\ \A m \in DOMAIN kernelByName : kernelByName'[m] = kernelByName[m]
        /\ OwnedNames' = OwnedNames
    BY <1>4, KnownLookup
  <2>2. got'.wanted = Null /\ UNCHANGED built
    BY <1>4 DEF GetKernel
  <2> QED
    BY <2>1, <2>2 DEF Cache, NamedForParams, CacheFits, CacheAlive
<1>5. ASSUME NEW t \in Templated, NEW n \in Names, NEW useKernelStore \in BOOLEAN,
             BuildTemplated(t, n, useKernelStore)
      PROVE  Cache'
  BY <1>5, BuildCache
<1>6. CASE UNCHANGED vars
  BY <1>6 DEF vars, Cache, NamedForParams, OwnedNames, CacheFits, CacheAlive, Alive, store
<1> QED
  BY <1>1, <1>2, <1>3, <1>4, <1>5, <1>6 DEF Next, DeleteKernel, SetParam, Delete

(* There is nothing in it at first.                                        *)
LEMMA InitCache == Init => Stored /\ Cache
BY DEF Init, Nothing, Stored, Cache, NamedForParams, CacheFits, CacheAlive

(* kernelExists says yes for stored kernels only, if getKernel is called   *)
(* for those only.                                                         *)
THEOREM ExistsIsStored ==
  ASSUME Rule("knownNames")
  PROVE  Spec => []ExistsMeansStored
<1>1. TypeOK /\ Stored /\ [Next]_vars => Stored'
  BY NextStored
<1>2. TypeOK /\ Stored => ExistsMeansStored
  <2> SUFFICES ASSUME TypeOK, Stored PROVE ExistsMeansStored
    OBVIOUS
  <2>1. \A k \in made : k # Null
    BY StoreAssumption DEF TypeOK
  <2> QED
    BY <2>1 DEF Stored, ExistsMeansStored, KernelExists
<1> QED
  BY <1>1, <1>2, InitCache, StoreTypeCorrect, PTL DEF Spec

(* A name denotes one kernel for ever, whatever the client does:           *)
(* storeKernel refuses a name that is taken.                               *)
THEOREM NamesStay == Spec => NamesAreFinal
<1>1. TypeOK /\ [Next]_vars
        => [\A n \in DOMAIN kernelByName : /\ n \in DOMAIN kernelByName'
                                           /\ kernelByName'[n] = kernelByName[n]]_vars
  <2> DEFINE Kept == \A n \in DOMAIN kernelByName : /\ n \in DOMAIN kernelByName'
                                                    /\ kernelByName'[n] = kernelByName[n]
  <2> SUFFICES ASSUME TypeOK, Next PROVE Kept
    OBVIOUS
  <2>1. ASSUME UNCHANGED store PROVE Kept
    BY <2>1 DEF store
  <2>2. ASSUME NEW n \in Names, NEW k \in Kernels, NEW deleteWithCl \in BOOLEAN,
               Store(n, k, deleteWithCl)
        PROVE  Kept
    BY <2>2, StoreEffect
  <2>3. ASSUME NEW n \in Names, GetKernel(n) PROVE Kept
    BY <2>3, LookupEffect
  <2>4. ASSUME NEW t \in Templated, NEW n \in Names, NEW useKernelStore \in BOOLEAN,
               BuildTemplated(t, n, useKernelStore)
        PROVE  Kept
    BY <2>1, <2>2, <2>4, BuildEffect
  <2> HIDE DEF Kept
  <2> QED
    BY <2>1, <2>2, <2>3, <2>4
    DEF Next, Build, DeleteKernel, StoreKernel, SetParam, Delete
<1> QED
  BY <1>1, StoreTypeCorrect, PTL DEF Spec, NamesAreFinal

(* What buildKernel returns was rendered with the parameters that are set, *)
(* and nobody has deleted it, for a client that keeps all the rules and    *)
(* has a name for each parameter value.                                    *)
LEMMA CacheCorrect ==
  ASSUME OneNameEach, Rule("knownNames"), Rule("namePerParams"), Rule("oneOwner")
  PROVE  Spec => []Cache
<1>1. TypeOK /\ Stored /\ [Next]_vars => Stored'
  BY NextStored
<1>2. TypeOK /\ Stored /\ Deletion /\ Cache /\ [Next]_vars => Cache'
  BY NextCache
<1> QED
  BY <1>1, <1>2, InitCache, StoreTypeCorrect, DeletionCorrect, PTL DEF Spec

(* The kernel fits (TemplatedKernel::buildKernel).                         *)
THEOREM CachedKernelFits ==
  ASSUME OneNameEach, Rule("knownNames"), Rule("namePerParams"), Rule("oneOwner")
  PROVE  Spec => []CacheFits
<1>1. Cache => CacheFits
  BY DEF Cache
<1> QED
  BY <1>1, CacheCorrect, PTL

(* The kernel exists.                                                      *)
THEOREM CachedKernelAlive ==
  ASSUME OneNameEach, Rule("knownNames"), Rule("namePerParams"), Rule("oneOwner")
  PROVE  Spec => []CacheAlive
<1>1. Cache => CacheAlive
  BY DEF Cache
<1> QED
  BY <1>1, CacheCorrect, PTL
-----------------------------------------------------------------------------
(***************************************************************************)
(* What a template comes to.                                               *)
(***************************************************************************)
(* Two sequences, one behind the other.                                    *)
Then(a, b) == a \o b

(* Concatenation associates.                                               *)
LEMMA ThenThen ==
  ASSUME NEW A, NEW a \in Seq(A), NEW b \in Seq(A), NEW c \in Seq(A)
  PROVE  Then(Then(a, b), c) = Then(a, Then(b, c)) /\ Then(a, b) \in Seq(A)
BY DEF Then

(* Nothing before or behind a text leaves it as it is.                     *)
LEMMA ThenNone ==
  ASSUME NEW A, NEW a \in Seq(A)
  PROVE  Then(a, <<>>) = a /\ Then(<<>>, a) = a
BY DEF Then

(* The pieces that texts are made of.                                      *)
Pieces == UNION {{Message}, UNION {Range(text) : text \in Texts},
                 UNION {Range(Meaning(p, g)) : p \in Params, g \in Globals},
                 UNION {Range(Whole[p][g]) : p \in Params, g \in Globals}}

(* What each piece of a text comes to is a sequence of pieces.             *)
Fillable(text, value) == \A i \in 1 .. Len(text) : Filling(text[i], value) \in Seq(Pieces)

(* f[k] is the text filled up to its k-th piece.                           *)
Fills(f, text, value) ==
  /\ f \in [0 .. Len(text) -> Seq(Pieces)]
  /\ f[0] = <<>>
  /\ \A k \in 1 .. Len(text) : f[k] = Then(f[k - 1], Filling(text[k], value))

(* Filled, unfolded.                                                       *)
LEMMA FilledSteps ==
  ASSUME NEW text \in Seq(Pieces), NEW value, Fillable(text, value)
  PROVE  \E f : Fills(f, text, value) /\ Filled(text, value) = f[Len(text)]
<1> DEFINE n == Len(text)
           A == Seq(Pieces)
           fill == [k \in 1 .. n |-> Filling(text[k], value)]
           step == [k \in 1 .. n |-> [a \in A |-> Then(a, fill[k])]]
           Fold(it) == it = [s \in SUBSET (1 .. n) |->
                              IF s = {} THEN <<>>
                              ELSE Then(it[s \ {Max(s)}], Filling(text[Max(s)], value))]
           found == CHOOSE it : Fold(it)
           f == [k \in 0 .. n |-> found[1 .. k]]
<1>1. n \in Nat /\ DOMAIN text = 1 .. n /\ <<>> \in A /\ fill \in [1 .. n -> A]
  BY DEF Fillable
<1>2. Filled(text, value) = found[1 .. n]
  BY <1>1 DEF Filled, FoldLeft, MapThenFoldSet, Then
<1>3. step \in [1 .. n -> [A -> A]]
  <2>1. ASSUME NEW k \in 1 .. n, NEW a \in A
        PROVE  Then(a, fill[k]) \in A
    <3>1. fill[k] \in A
      BY <1>1
    <3> HIDE DEF fill
    <3> QED
      BY <3>1, ThenThen
  <2> HIDE DEF A, n, fill
  <2> QED
    BY <2>1
<1>4. PICK it \in [SUBSET (1 .. n) -> A] : Iterates(it, <<>>, step, n)
  <2> HIDE DEF A, n, step
  <2> QED
    BY <1>1, <1>3, FoldExists
<1>5. Fold(it)
  <2>1. \A s \in SUBSET (1 .. n) : s # {} => Max(s) \in 1 .. n
    BY <1>1, LastOf
  <2>2. ASSUME NEW s \in SUBSET (1 .. n), s # {}
        PROVE  step[Max(s)][it[s \ {Max(s)}]] = Then(it[s \ {Max(s)}], Filling(text[Max(s)], value))
    <3>1. it[s \ {Max(s)}] \in A /\ Max(s) \in 1 .. n
      BY <2>1, <2>2
    <3> HIDE DEF A, n
    <3> QED
      BY <3>1
  <2> HIDE DEF A, n, step
  <2> QED
    BY <2>2, <1>4 DEF Iterates
<1>6. Fold(found)
  BY <1>5
<1> HIDE DEF found, n
<1>7. found[1 .. 0] = <<>>
  <2> DEFINE s == 1 .. 0
  <2>1. s = {} /\ s \in SUBSET (1 .. n)
    BY <1>1, Segments
  <2> HIDE DEF s
  <2>2. found[s] = <<>>
    BY <1>6, <2>1
  <2> QED
    BY <2>2 DEF s
<1>8. ASSUME NEW k \in 1 .. n
      PROVE  found[1 .. k] = Then(found[1 .. k - 1], Filling(text[k], value))
  <2> DEFINE s == 1 .. k
  <2>1. s \in SUBSET (1 .. n) /\ s # {} /\ Max(s) = k /\ s \ {k} = 1 .. k - 1
    BY <1>1, Segments
  <2>2. found[s] = Then(found[s \ {k}], Filling(text[k], value))
    <3> HIDE DEF s
    <3> QED
      BY <1>6, <2>1
  <2> QED
    BY <2>1, <2>2
<1>9. \A k \in 0 .. n : found[1 .. k] \in A
  <2> DEFINE P == {k \in 0 .. n : found[1 .. k] \in A}
  <2> HIDE DEF A
  <2>1. 0 \in P
    BY <1>1, <1>7
  <2>2. ASSUME NEW k \in 1 .. n, k - 1 \in P
        PROVE  k \in P
    <3>1. found[1 .. k - 1] \in A /\ Filling(text[k], value) \in A /\ k \in 0 .. n
      BY <1>1, <2>2
    <3>2. Then(found[1 .. k - 1], Filling(text[k], value)) \in A
      BY <3>1, ThenThen DEF A
    <3>3. found[1 .. k] \in A
      BY <1>8, <3>2
    <3> QED
      BY <3>1, <3>3
  <2>3. P = 0 .. n
    <3>1. P \in SUBSET (0 .. n)
      OBVIOUS
    <3> HIDE DEF P
    <3> QED
      BY <1>1, <2>1, <2>2, <3>1, IntervalInduction
  <2> QED
    BY <2>3
<1>10. Fills(f, text, value)
  <2>1. f \in [0 .. n -> A] /\ f[0] = <<>>
    <3> HIDE DEF A
    <3> QED
      BY <1>1, <1>7, <1>9
  <2>2. ASSUME NEW k \in 1 .. n
        PROVE  f[k] = Then(f[k - 1], Filling(text[k], value))
    <3>1. f[k] = found[1 .. k] /\ f[k - 1] = found[1 .. k - 1]
      BY <1>1
    <3> HIDE DEF f
    <3> QED
      BY <1>8, <3>1
  <2> QED
    BY <2>1, <2>2 DEF Fills, n
<1>11. Filled(text, value) = f[n]
  BY <1>1, <1>2
<1> QED
  BY <1>10, <1>11 DEF n

(* And that is the only way to fill it.                                    *)
LEMMA FilledIs ==
  ASSUME NEW text \in Seq(Pieces), NEW value, Fillable(text, value),
         NEW f, Fills(f, text, value)
  PROVE  Filled(text, value) = f[Len(text)]
<1> DEFINE n == Len(text)
<1>1. n \in Nat
  OBVIOUS
<1>2. PICK e : Fills(e, text, value) /\ Filled(text, value) = e[n]
  BY FilledSteps
<1> DEFINE Q == {k \in 0 .. n : e[k] = f[k]}
<1>3. 0 \in Q
  BY <1>1, <1>2 DEF Fills
<1>4. ASSUME NEW k \in 1 .. n, k - 1 \in Q
      PROVE  k \in Q
  <2>1. e[k] = Then(e[k - 1], Filling(text[k], value)) /\ f[k] = Then(f[k - 1], Filling(text[k], value))
    BY <1>2 DEF Fills
  <2>2. e[k - 1] = f[k - 1] /\ k \in 0 .. n
    BY <1>4
  <2> QED
    BY <2>1, <2>2
<1>5. Q = 0 .. n
  <2>1. Q \in SUBSET (0 .. n)
    OBVIOUS
  <2> HIDE DEF Q, n
  <2> QED
    BY <1>1, <1>3, <1>4, <2>1, IntervalInduction
<1>6. e[n] = f[n]
  <2>1. n \in 0 .. n
    BY <1>1
  <2> HIDE DEF n
  <2> QED
    BY <1>5, <2>1
<1> QED
  BY <1>2, <1>6

(* Every insertion in the text is of a global.                             *)
Proper(text) == \A i \in 1 .. Len(text) : text[i].is = "insert" => text[i].of \in Globals

(* A function of the globals to texts.                                     *)
Texting(value) == \A g \in Globals : value[g] \in Seq(Pieces)

(* Texts can be filled with texts.                                         *)
LEMMA ProperFillable ==
  ASSUME NEW text \in Seq(Pieces), Proper(text), NEW value, Texting(value)
  PROVE  Fillable(text, value)
<1> SUFFICES ASSUME NEW i \in 1 .. Len(text)
             PROVE  Filling(text[i], value) \in Seq(Pieces)
  BY DEF Fillable
<1>1. text[i] \in Pieces
  OBVIOUS
<1>2. CASE text[i].is = "insert"
  <2>1. text[i].of \in Globals
    BY <1>2 DEF Proper
  <2> QED
    BY <1>2, <2>1 DEF Filling, Texting
<1>3. CASE text[i].is # "insert"
  <2>1. <<text[i]>> \in Seq(Pieces) /\ <<>> \in Seq(Pieces)
    BY <1>1
  <2> QED
    BY <1>3, <2>1 DEF Filling
<1> QED
  BY <1>2, <1>3

(* An empty text, and one of a single piece.                               *)
LEMMA FilledShort ==
  ASSUME NEW value, Texting(value)
  PROVE  /\ Filled(<<>>, value) = <<>>
         /\ \A x \in Pieces : (x.is = "insert" => x.of \in Globals) =>
              Filled(<<x>>, value) = Filling(x, value)
<1>1. Filled(<<>>, value) = <<>>
  <2> DEFINE t == <<>>
  <2>1. t \in Seq(Pieces) /\ Len(t) = 0 /\ Proper(t)
    BY DEF Proper
  <2> HIDE DEF t
  <2>2. PICK f : Fills(f, t, value) /\ Filled(t, value) = f[0]
    BY <2>1, ProperFillable, FilledSteps
  <2>3. Filled(t, value) = <<>>
    BY <2>2 DEF Fills
  <2> QED
    BY <2>3 DEF t
<1>2. ASSUME NEW x \in Pieces, x.is = "insert" => x.of \in Globals
      PROVE  Filled(<<x>>, value) = Filling(x, value)
  <2> DEFINE t == <<x>>
  <2>1. t \in Seq(Pieces) /\ Len(t) = 1 /\ t[1] = x
    OBVIOUS
  <2> HIDE DEF t
  <2>2. Proper(t)
    BY <1>2, <2>1 DEF Proper
  <2>3. Fillable(t, value)
    BY <2>1, <2>2, ProperFillable
  <2>4. PICK f : Fills(f, t, value) /\ Filled(t, value) = f[1]
    BY <2>1, <2>3, FilledSteps
  <2>5. f[0] = <<>> /\ f[1] = Then(f[0], Filling(t[1], value)) /\ Filling(t[1], value) \in Seq(Pieces)
    <3>1. f[0] = <<>> /\ 1 \in 1 .. Len(t)
      BY <2>1, <2>4 DEF Fills
    <3>2. f[1] = Then(f[1 - 1], Filling(t[1], value))
      BY <2>4, <3>1 DEF Fills
    <3>3. Filling(t[1], value) \in Seq(Pieces)
      BY <2>3, <3>1 DEF Fillable
    <3> QED
      BY <3>1, <3>2, <3>3
  <2>6. f[1] = Filling(t[1], value)
    BY <2>5, ThenNone
  <2> QED
    BY <2>1, <2>4, <2>6 DEF t
<1> QED
  BY <1>1, <1>2

(* One text behind the other is filled as one and the other are.           *)
LEMMA FilledThen ==
  ASSUME NEW a \in Seq(Pieces), NEW b \in Seq(Pieces), Proper(a), Proper(b),
         NEW value, Texting(value)
  PROVE  Filled(Then(a, b), value) = Then(Filled(a, value), Filled(b, value))
<1> DEFINE c == Then(a, b)
           m == Len(a)
           n == Len(b)
<1>1. /\ m \in Nat /\ n \in Nat /\ c \in Seq(Pieces) /\ Len(c) = m + n
      /\ \A i \in 1 .. m : c[i] = a[i]
      /\ \A j \in 1 .. n : c[m + j] = b[j]
  BY DEF Then
<1> HIDE DEF c
<1>2. Proper(c)
  <2> SUFFICES ASSUME NEW i \in 1 .. m + n, c[i].is = "insert"
               PROVE  c[i].of \in Globals
    BY <1>1 DEF Proper
  <2>1. CASE i \in 1 .. m
    BY <1>1, <2>1 DEF Proper
  <2>2. CASE i \notin 1 .. m
    <3>1. i - m \in 1 .. n /\ i = m + (i - m)
      BY <1>1, <2>2
    <3>2. c[i] = b[i - m]
      BY <1>1, <3>1
    <3> QED
      BY <3>1, <3>2 DEF Proper
  <2> QED
    BY <2>1, <2>2
<1>3. Fillable(a, value) /\ Fillable(b, value) /\ Fillable(c, value)
  BY <1>1, <1>2, ProperFillable
<1>4. PICK f : Fills(f, c, value) /\ Filled(c, value) = f[m + n]
  BY <1>1, <1>3, FilledSteps
<1>5. PICK e : Fills(e, b, value) /\ Filled(b, value) = e[n]
  BY <1>3, FilledSteps
<1>6. Filled(a, value) = f[m]
  <2> DEFINE d == [k \in 0 .. m |-> f[k]]
  <2>1. /\ d \in [0 .. m -> Seq(Pieces)] /\ d[0] = <<>> /\ d[m] = f[m]
        /\ \A k \in 1 .. m : d[k] = f[k] /\ d[k - 1] = f[k - 1]
    <3>1. f \in [0 .. m + n -> Seq(Pieces)] /\ f[0] = <<>>
      BY <1>1, <1>4 DEF Fills
    <3> QED
      BY <1>1, <3>1
  <2>2. ASSUME NEW k \in 1 .. m
        PROVE  d[k] = Then(d[k - 1], Filling(a[k], value))
    <3>1. f[k] = Then(f[k - 1], Filling(c[k], value)) /\ c[k] = a[k]
      <4>1. k \in 1 .. Len(c)
        BY <1>1
      <4> QED
        BY <1>1, <1>4, <4>1 DEF Fills
    <3> HIDE DEF d
    <3> QED
      BY <2>1, <3>1
  <2>3. Fills(d, a, value)
    BY <2>1, <2>2 DEF Fills
  <2> HIDE DEF d
  <2> QED
    BY <1>3, <2>1, <2>3, FilledIs
<1>7. \A k \in 0 .. m + n : f[k] \in Seq(Pieces)
  BY <1>1, <1>4 DEF Fills
<1> DEFINE Q == {j \in 0 .. n : f[m + j] = Then(f[m], e[j])}
<1>8. 0 \in Q
  <2>1. m + 0 = m /\ e[0] = <<>> /\ f[m] \in Seq(Pieces)
    BY <1>1, <1>5, <1>7 DEF Fills
  <2>2. f[m + 0] = Then(f[m], e[0])
    BY <2>1, ThenNone
  <2> QED
    BY <1>1, <2>2
<1>9. ASSUME NEW j \in 1 .. n, j - 1 \in Q
      PROVE  j \in Q
  <2> DEFINE x == Filling(b[j], value)
  <2>1. e[j] = Then(e[j - 1], x) /\ e[j - 1] \in Seq(Pieces) /\ x \in Seq(Pieces)
    <3>1. j - 1 \in 0 .. n
      BY <1>1
    <3> QED
      BY <1>3, <1>5, <3>1 DEF Fills, Fillable
  <2>2. f[m + j] = Then(f[m + (j - 1)], x)
    <3>1. m + j \in 1 .. Len(c) /\ (m + j) - 1 = m + (j - 1) /\ c[m + j] = b[j]
      BY <1>1
    <3>2. f[m + j] = Then(f[(m + j) - 1], Filling(c[m + j], value))
      BY <1>4, <3>1 DEF Fills
    <3> QED
      BY <3>1, <3>2
  <2>3. f[m + (j - 1)] = Then(f[m], e[j - 1]) /\ j \in 0 .. n /\ f[m] \in Seq(Pieces)
    BY <1>1, <1>7, <1>9
  <2> HIDE DEF x, Q
  <2>4. Then(Then(f[m], e[j - 1]), x) = Then(f[m], Then(e[j - 1], x))
    <3> DEFINE u == f[m]
               v == e[j - 1]
    <3>1. u \in Seq(Pieces) /\ v \in Seq(Pieces)
      BY <2>1, <2>3
    <3> HIDE DEF u, v
    <3>2. Then(Then(u, v), x) = Then(u, Then(v, x))
      BY <2>1, <3>1, ThenThen
    <3> QED
      BY <3>2 DEF u, v
  <2>5. f[m + j] = Then(f[m], e[j])
    BY <2>1, <2>2, <2>3, <2>4
  <2> QED
    BY <2>3, <2>5 DEF Q
<1>10. Q = 0 .. n
  <2>1. Q \in SUBSET (0 .. n)
    OBVIOUS
  <2> HIDE DEF Q, n
  <2> QED
    BY <1>1, <1>8, <1>9, <2>1, IntervalInduction
<1>11. f[m + n] = Then(f[m], e[n])
  <2>1. n \in 0 .. n
    BY <1>1
  <2>2. n \in Q
    <3> HIDE DEF Q
    <3> QED
      BY <1>10, <2>1
  <2> QED
    BY <2>2
<1> QED
  BY <1>4, <1>5, <1>6, <1>11 DEF c

(* The values of the globals once the template has run.                    *)
Meanings(p) == [g \in Globals |-> Meaning(p, g)]

(* They are texts with insertions in them, and so is what they come to.    *)
LEMMA Values ==
  ASSUME NEW p \in Params
  PROVE  /\ Texting(Meanings(p)) /\ Texting(Whole[p])
         /\ \A g \in Globals : /\ Meanings(p)[g] = Meaning(p, g)
                               /\ Meaning(p, g) \in Seq(Pieces)
                               /\ Meaning(p, g) # Nil
                               /\ Clean(Meaning(p, g))
                               /\ Whole[p][g] = Filled(Meaning(p, g), Whole[p])
<1>1. ASSUME NEW g \in Globals
      PROVE  /\ Meaning(p, g) \in Seq(Pieces) /\ Whole[p][g] \in Seq(Pieces)
             /\ Meaning(p, g) # Nil /\ Clean(Meaning(p, g))
             /\ Whole[p][g] = Filled(Meaning(p, g), Whole[p])
  <2>1. /\ Meaning(p, g) \in Seq(Range(Meaning(p, g)))
        /\ Whole[p][g] \in Seq(Range(Whole[p][g]))
        /\ Meaning(p, g) # Nil /\ Clean(Meaning(p, g))
        /\ Whole[p][g] = Filled(Meaning(p, g), Whole[p])
    BY ValueAssumption
  <2>2. Range(Meaning(p, g)) \subseteq Pieces /\ Range(Whole[p][g]) \subseteq Pieces
    BY DEF Pieces
  <2>3. ASSUME NEW A, A \subseteq Pieces, NEW t \in Seq(A)
        PROVE  t \in Seq(Pieces)
    BY <2>3
  <2> QED
    BY <2>1, <2>2, <2>3
<1> QED
  BY <1>1 DEF Texting, Meanings

(* So are the templates.                                                   *)
LEMMA TextsProper ==
  ASSUME NEW text \in Texts
  PROVE  text \in Seq(Pieces) /\ Proper(text)
<1>1. text \in Seq(Range(text)) /\ Range(text) \subseteq Pieces
  BY TextAssumption DEF Pieces
<1>2. ASSUME NEW A, A \subseteq Pieces, NEW t \in Seq(A)
      PROVE  t \in Seq(Pieces)
  BY <1>2
<1>3. ASSUME NEW i \in 1 .. Len(text), text[i].is = "insert"
      PROVE  text[i].of \in Globals
  <2>1. i \in DOMAIN text
    BY <1>1
  <2> QED
    BY <1>3, <2>1, TextAssumption
       DEF Inserting, Assigning, Mistakes, Failing, Rejected, Unclosed
<1> QED
  BY <1>1, <1>2, <1>3 DEF Proper

(* A clean text has nothing else.                                          *)
LEMMA CleanProper ==
  ASSUME NEW text \in Seq(Pieces), Clean(text)
  PROVE  Proper(text)
BY DEF Clean, Proper, Inserting

(* Nor has one behind the other.                                           *)
LEMMA CleanThen ==
  ASSUME NEW a \in Seq(Pieces), NEW b \in Seq(Pieces), Clean(a), Clean(b)
  PROVE  Clean(Then(a, b))
<1> DEFINE c == Then(a, b)
           m == Len(a)
           n == Len(b)
<1>1. /\ m \in Nat /\ n \in Nat /\ c \in Seq(Pieces) /\ Len(c) = m + n
      /\ \A i \in 1 .. m : c[i] = a[i]
      /\ \A i \in m + 1 .. m + n : c[i] = b[i - m]
  BY DEF Then
<1> HIDE DEF c
<1> SUFFICES ASSUME NEW i \in 1 .. m + n
             PROVE  c[i].is = "text" \/ Inserting(c[i])
  BY <1>1 DEF Clean, c
<1>2. CASE i \in 1 .. m
  BY <1>1, <1>2 DEF Clean
<1>3. CASE i \notin 1 .. m
  <2>1. i \in m + 1 .. m + n /\ i - m \in DOMAIN b
    BY <1>1, <1>3
  <2> QED
    BY <1>1, <2>1 DEF Clean
<1> QED
  BY <1>2, <1>3

(* What a piece comes to is clean.                                         *)
LEMMA FillingClean ==
  ASSUME NEW p \in Params, NEW x \in Pieces, x.is = "insert" => x.of \in Globals
  PROVE  Clean(Filling(x, Meanings(p))) /\ Filling(x, Meanings(p)) \in Seq(Pieces)
<1>1. CASE x.is = "insert"
  BY <1>1, Values DEF Filling
<1>2. CASE x.is # "insert"
  <2>1. CASE x.is = "text"
    BY <2>1 DEF Filling, Clean
  <2>2. CASE x.is # "text"
    BY <1>2, <2>2 DEF Filling, Clean
  <2> QED
    BY <2>1, <2>2
<1> QED
  BY <1>1, <1>2

(* A piece that comes to a text comes to what that does.                   *)
LEMMA FillingTwice ==
  ASSUME NEW p \in Params, NEW x \in Pieces, x.is = "insert" => x.of \in Globals
  PROVE  Filled(Filling(x, Meanings(p)), Whole[p]) = Filling(x, Whole[p])
<1>1. CASE x.is = "insert"
  <2>1. Filling(x, Meanings(p)) = Meaning(p, x.of) /\ Filling(x, Whole[p]) = Whole[p][x.of]
    BY <1>1, Values DEF Filling
  <2> QED
    BY <1>1, <2>1, Values
<1>2. CASE x.is # "insert"
  <2>1. CASE x.is = "text"
    <3>1. Filling(x, Meanings(p)) = <<x>>
      BY <2>1 DEF Filling
    <3>2. Filled(<<x>>, Whole[p]) = Filling(x, Whole[p])
      BY <1>2, Values, FilledShort
    <3> QED
      BY <3>1, <3>2
  <2>2. CASE x.is # "text"
    <3>1. Filling(x, Meanings(p)) = <<>> /\ Filling(x, Whole[p]) = <<>>
      BY <1>2, <2>2 DEF Filling
    <3>2. Filled(<<>>, Whole[p]) = <<>>
      BY Values, FilledShort
    <3> QED
      BY <3>1, <3>2
  <2> QED
    BY <2>1, <2>2
<1> QED
  BY <1>1, <1>2

(* Filling in the values once changes nothing of what a text comes to.     *)
LEMMA FilledTwice ==
  ASSUME NEW p \in Params, NEW text \in Seq(Pieces), Proper(text)
  PROVE  /\ Filled(text, Meanings(p)) \in Seq(Pieces)
         /\ Clean(Filled(text, Meanings(p)))
         /\ Filled(Filled(text, Meanings(p)), Whole[p]) = Filled(text, Whole[p])
<1> DEFINE n == Len(text)
           M == Meanings(p)
           W == Whole[p]
<1>1. n \in Nat /\ Texting(M) /\ Texting(W) /\ Fillable(text, M) /\ Fillable(text, W)
  BY Values, ProperFillable
<1>2. PICK f : Fills(f, text, M) /\ Filled(text, M) = f[n]
  BY <1>1, FilledSteps
<1>3. PICK e : Fills(e, text, W) /\ Filled(text, W) = e[n]
  BY <1>1, FilledSteps
<1> DEFINE Q == {k \in 0 .. n : Clean(f[k]) /\ Filled(f[k], W) = e[k]}
<1> HIDE DEF M, W
<1>4. 0 \in Q
  <2>1. f[0] = <<>> /\ e[0] = <<>>
    BY <1>2, <1>3 DEF Fills
  <2>2. Filled(<<>>, W) = <<>> /\ Clean(<<>>)
    BY <1>1, FilledShort DEF Clean
  <2> QED
    BY <1>1, <2>1, <2>2
<1>5. ASSUME NEW k \in 1 .. n, k - 1 \in Q
      PROVE  k \in Q
  <2> DEFINE x == text[k]
             a == f[k - 1]
             b == Filling(x, M)
  <2>1. x \in Pieces /\ (x.is = "insert" => x.of \in Globals) /\ k \in 0 .. n
    BY <1>1 DEF Proper
  <2>2. a \in Seq(Pieces) /\ Clean(a) /\ Filled(a, W) = e[k - 1]
    BY <1>1, <1>2, <1>5 DEF Fills
  <2>3. f[k] = Then(a, b) /\ e[k] = Then(e[k - 1], Filling(x, W))
    BY <1>2, <1>3 DEF Fills
  <2>4. Clean(b) /\ b \in Seq(Pieces) /\ Filled(b, W) = Filling(x, W)
    <3> HIDE DEF x
    <3> QED
      BY <2>1, FillingClean, FillingTwice DEF M, W
  <2> HIDE DEF x, a, b, Q
  <2>5. Filled(Then(a, b), W) = Then(Filled(a, W), Filled(b, W)) /\ Clean(Then(a, b))
    BY <1>1, <2>2, <2>4, CleanProper, CleanThen, FilledThen
  <2>6. Clean(f[k]) /\ Filled(f[k], W) = e[k]
    BY <2>2, <2>3, <2>4, <2>5
  <2> QED
    BY <2>1, <2>6 DEF Q
<1>6. Q = 0 .. n
  <2>1. Q \in SUBSET (0 .. n)
    OBVIOUS
  <2> HIDE DEF Q, n
  <2> QED
    BY <1>1, <1>4, <1>5, <2>1, IntervalInduction
<1>7. Clean(f[n]) /\ Filled(f[n], W) = e[n] /\ f[n] \in Seq(Pieces)
  <2>1. n \in 0 .. n
    BY <1>1
  <2>2. n \in Q
    <3> HIDE DEF Q
    <3> QED
      BY <1>6, <2>1
  <2>3. f[n] \in Seq(Pieces)
    BY <1>2, <2>1 DEF Fills
  <2> QED
    BY <2>2, <2>3
<1> QED
  BY <1>2, <1>3, <1>7 DEF M, W

(* Nothing but text.                                                       *)
Plain(text) == \A i \in 1 .. Len(text) : text[i].is = "text"

(* Which stays as it is.                                                   *)
LEMMA PlainFilled ==
  ASSUME NEW text \in Seq(Pieces), Plain(text), NEW value, Texting(value)
  PROVE  Filled(text, value) = text
<1> DEFINE n == Len(text)
<1>1. n \in Nat /\ Proper(text)
  BY DEF Plain, Proper
<1>2. PICK f : Fills(f, text, value) /\ Filled(text, value) = f[n]
  BY <1>1, ProperFillable, FilledSteps
<1> DEFINE Upto(k) == Len(f[k]) = k /\ \A i \in 1 .. k : f[k][i] = text[i]
           Q == {k \in 0 .. n : Upto(k)}
<1>3. 0 \in Q
  <2>1. f[0] = <<>>
    BY <1>2 DEF Fills
  <2> QED
    BY <1>1, <2>1
<1>4. ASSUME NEW k \in 1 .. n, k - 1 \in Q
      PROVE  k \in Q
  <2> DEFINE a == f[k - 1]
             x == text[k]
  <2>1. a \in Seq(Pieces) /\ x \in Pieces /\ Upto(k - 1) /\ k \in Nat /\ k \in 0 .. n
    BY <1>1, <1>2, <1>4 DEF Fills
  <2>2. f[k] = a \o <<x>>
    <3>1. f[k] = Then(a, Filling(x, value)) /\ x.is = "text"
      BY <1>2 DEF Fills, Plain
    <3> QED
      BY <3>1 DEF Then, Filling
  <2>3. Len(a) = k - 1 /\ \A i \in 1 .. k - 1 : a[i] = text[i]
    BY <2>1
  <2> HIDE DEF a, x
  <2>4. Len(a \o <<x>>) = k /\ (a \o <<x>>)[k] = x /\ \A i \in 1 .. k - 1 : (a \o <<x>>)[i] = a[i]
    <3>1. a \o <<x>> = Append(a, x) /\ Len(a) + 1 = k
      BY <2>1, <2>3
    <3>2. Len(Append(a, x)) = Len(a) + 1 /\ Append(a, x)[Len(a) + 1] = x
          /\ \A i \in 1 .. Len(a) : Append(a, x)[i] = a[i]
      BY <2>1
    <3> QED
      BY <2>3, <3>1, <3>2
  <2>5. \A i \in 1 .. k : i = k \/ i \in 1 .. k - 1
    BY <2>1
  <2>6. Upto(k)
    BY <2>2, <2>3, <2>4, <2>5 DEF x
  <2> QED
    BY <2>1, <2>6
<1>5. Q = 0 .. n
  <2>1. Q \in SUBSET (0 .. n)
    OBVIOUS
  <2> HIDE DEF Q, n
  <2> QED
    BY <1>1, <1>3, <1>4, <2>1, IntervalInduction
<1>6. Upto(n) /\ f[n] \in Seq(Pieces)
  <2>1. n \in 0 .. n
    BY <1>1
  <2>2. n \in Q
    <3> HIDE DEF Q
    <3> QED
      BY <1>5, <2>1
  <2>3. f[n] \in Seq(Pieces)
    BY <1>2, <2>1 DEF Fills
  <2> QED
    BY <2>2, <2>3
<1> QED
  BY <1>2, <1>6

(* Where a piece of a filled text comes from.                              *)
Source(y, text, value) ==
  \/ y.is = "text"
  \/ \E j \in 1 .. Len(text) : /\ text[j].is = "insert"
                               /\ \E i \in 1 .. Len(value[text[j].of]) : value[text[j].of][i] = y

(* A piece is text, or part of a value that is put in.                     *)
LEMMA Sources ==
  ASSUME NEW text \in Seq(Pieces), Proper(text), NEW value, Texting(value)
  PROVE  \A i \in 1 .. Len(Filled(text, value)) : Source(Filled(text, value)[i], text, value)
<1> DEFINE n == Len(text)
<1>1. n \in Nat /\ Fillable(text, value)
  BY ProperFillable
<1>2. PICK f : Fills(f, text, value) /\ Filled(text, value) = f[n]
  BY <1>1, FilledSteps
<1> DEFINE All(t) == \A i \in 1 .. Len(t) : Source(t[i], text, value)
           Q == {k \in 0 .. n : All(f[k])}
<1>3. 0 \in Q
  <2>1. f[0] = <<>>
    BY <1>2 DEF Fills
  <2> QED
    BY <1>1, <2>1
<1>4. ASSUME NEW k \in 1 .. n, k - 1 \in Q
      PROVE  k \in Q
  <2> DEFINE a == f[k - 1]
             b == Filling(text[k], value)
  <2>1. a \in Seq(Pieces) /\ b \in Seq(Pieces) /\ All(a) /\ k \in 0 .. n
    <3>1. k - 1 \in 0 .. n /\ k \in 0 .. n /\ b \in Seq(Pieces)
      BY <1>1 DEF Fillable
    <3>2. f[k - 1] \in Seq(Pieces)
      BY <1>2, <3>1 DEF Fills
    <3>3. All(f[k - 1])
      BY <1>4
    <3> HIDE DEF All, b
    <3> QED
      BY <3>1, <3>2, <3>3
  <2>2. f[k] = a \o b
    BY <1>2 DEF Fills, Then
  <2>3. All(b)
    <3> SUFFICES ASSUME NEW i \in 1 .. Len(b)
                 PROVE  Source(b[i], text, value)
      OBVIOUS
    <3>1. CASE text[k].is = "text"
      <4>1. b = <<text[k]>>
        BY <3>1 DEF Filling
      <4> HIDE DEF b
      <4> QED
        BY <3>1, <4>1 DEF Source
    <3>2. CASE text[k].is = "insert"
      <4>1. b = value[text[k].of]
        BY <3>2 DEF Filling
      <4> HIDE DEF b
      <4> QED
        BY <3>2, <4>1 DEF Source
    <3>3. CASE text[k].is # "text" /\ text[k].is # "insert"
      <4>1. b = <<>>
        BY <3>3 DEF Filling
      <4> HIDE DEF b
      <4> QED
        BY <4>1
    <3> QED
      BY <3>1, <3>2, <3>3
  <2> HIDE DEF a, b
  <2>4. ASSUME NEW i \in 1 .. Len(a \o b)
        PROVE  Source((a \o b)[i], text, value)
    <3>1. CASE i <= Len(a)
      <4>1. i \in 1 .. Len(a) /\ (a \o b)[i] = a[i]
        BY <2>1, <3>1
      <4> QED
        BY <2>1, <4>1
    <3>2. CASE ~(i <= Len(a))
      <4>1. i - Len(a) \in 1 .. Len(b) /\ (a \o b)[i] = b[i - Len(a)]
        BY <2>1, <3>2
      <4> QED
        BY <2>3, <4>1
    <3> QED
      BY <3>1, <3>2
  <2> QED
    BY <2>1, <2>2, <2>4
<1>5. Q = 0 .. n
  <2>1. Q \in SUBSET (0 .. n)
    OBVIOUS
  <2> HIDE DEF Q, n
  <2> QED
    BY <1>1, <1>3, <1>4, <2>1, IntervalInduction
<1>6. All(f[n])
  <2>1. n \in 0 .. n
    BY <1>1
  <2>2. n \in Q
    <3> HIDE DEF Q
    <3> QED
      BY <1>5, <2>1
  <2> QED
    BY <2>2
<1> QED
  BY <1>2, <1>6

(* A text that filling in the values leaves as it is has none to fill in.  *)
LEMMA UnchangedIsPlain ==
  ASSUME NEW p \in Params, NEW text \in Seq(Pieces), Proper(text),
         Filled(text, Meanings(p)) = text
  PROVE  Plain(text)
<1> DEFINE N == Cardinality(Globals)
           I == {i \in 1 .. Len(text) : text[i].is = "insert"}
<1>1. N \in Nat
  BY TemplatedAssumption, FS_CardinalityType
<1>2. PICK rank \in [Globals -> 0 .. N] :
        \A g \in Globals : \A i \in DOMAIN Meaning(p, g) :
          Meaning(p, g)[i].is = "insert" => rank[Meaning(p, g)[i].of] < rank[g]
  BY ValueAssumption
<1>3. \A i \in 1 .. Len(text) : Source(text[i], text, Meanings(p))
  BY Values, Sources
<1>4. ASSUME NEW i \in I
      PROVE  \E j \in I : rank[text[i].of] < rank[text[j].of]
  <2>1. PICK j \in 1 .. Len(text) :
               /\ text[j].is = "insert"
               /\ \E k \in 1 .. Len(Meanings(p)[text[j].of]) : Meanings(p)[text[j].of][k] = text[i]
    <3>1. text[i].is = "insert" /\ i \in 1 .. Len(text)
      OBVIOUS
    <3> QED
      BY <1>3, <3>1 DEF Source
  <2> DEFINE g == text[j].of
  <2>2. g \in Globals
    BY <2>1 DEF Proper
  <2>3. Meanings(p)[g] = Meaning(p, g) /\ Meaning(p, g) \in Seq(Pieces)
    BY <2>2, Values
  <2>4. PICK k \in DOMAIN Meaning(p, g) : Meaning(p, g)[k] = text[i]
    BY <2>1, <2>3
  <2>5. rank[text[i].of] < rank[g]
    BY <1>2, <2>2, <2>4
  <2> QED
    BY <2>1, <2>5
<1>5. I = {}
  <2> SUFFICES ASSUME I # {}
               PROVE  FALSE
    OBVIOUS
  <2> DEFINE T == {N - rank[text[i].of] : i \in I}
  <2>1. \A i \in I : rank[text[i].of] \in 0 .. N
    BY <1>2 DEF Proper
  <2> HIDE DEF I, N
  <2>2. T \in SUBSET Nat /\ T # {}
    BY <1>1, <2>1
  <2>3. PICK t \in T : \A u \in T : t <= u
    <3> HIDE DEF T
    <3> QED
      BY <2>2, LeastNatural
  <2>4. PICK i \in I : t = N - rank[text[i].of]
    BY <2>3
  <2>5. PICK j \in I : rank[text[i].of] < rank[text[j].of]
    BY <1>4
  <2>6. t <= N - rank[text[j].of]
    BY <2>3
  <2> QED
    BY <1>1, <2>1, <2>4, <2>5, <2>6
<1>6. ASSUME NEW i \in 1 .. Len(text)
      PROVE  text[i].is = "text"
  <2>1. \A j \in 1 .. Len(text) : text[j].is # "insert"
    BY <1>5
  <2> QED
    BY <1>3, <2>1 DEF Source
<1> QED
  BY <1>6 DEF Plain

-----------------------------------------------------------------------------
(***************************************************************************)
(* Compiling a text.                                                       *)
(***************************************************************************)
(* The globals of a Lua program, and the states of a chunk.                *)
Envs == [Globals -> Seq(Pieces) \cup {Nil}]
Chunks == [out : Seq(Pieces), env : Envs, end : {"ok", "raised", "cut"}]

(* Pieces that a chunk gets past.                                          *)
Running(x) == x.is = "text" \/ Inserting(x) \/ Assigning(x)

(* What a local is assigned is a text.                                     *)
LEMMA LocalTexts ==
  ASSUME NEW p \in Params, NEW g \in DOMAIN Locals
  PROVE  g \in Globals /\ Locals[g] = Meaning(p, g) /\ Locals[g] \in Seq(Pieces)
<1>1. g \in Globals /\ g \notin DOMAIN p
  BY TemplatedAssumption
<1> QED
  BY <1>1, Values DEF Meaning

(* What the next piece does to a chunk that has not ended.                 *)
LEMMA RunEffect ==
  ASSUME NEW p \in Params, NEW r \in Chunks, r.end = "ok", NEW x \in Pieces
  PROVE  /\ x.is = "text" =>
              Run(r, x) = [out |-> Then(r.out, <<x>>), env |-> r.env, end |-> "ok"]
         /\ Inserting(x) /\ r.env[x.of] = Nil => Run(r, x) = r
         /\ Inserting(x) /\ r.env[x.of] # Nil =>
              Run(r, x) = [out |-> Then(r.out, r.env[x.of]), env |-> r.env, end |-> "ok"]
         /\ Assigning(x) =>
              Run(r, x) = [out |-> r.out, env |-> [r.env EXCEPT ![x.of] = Locals[x.of]],
                           end |-> "ok"]
         /\ x = Failing => Run(r, x) = [out |-> r.out, env |-> r.env, end |-> "raised"]
         /\ x = Unclosed =>
              Run(r, x) = [out |-> Then(r.out, <<Message>>), env |-> r.env, end |-> "cut"]
<1>1. r = [out |-> r.out, env |-> r.env, end |-> "ok"] /\ r.out \in Seq(Pieces)
  BY DEF Chunks
<1>2. ASSUME x.is = "text"
      PROVE  Run(r, x) = [out |-> Then(r.out, <<x>>), env |-> r.env, end |-> "ok"]
  <2>1. Run(r, x) = [r EXCEPT !.out = Append(@, x)]
    BY <1>2 DEF Run
  <2>2. Append(r.out, x) = Then(r.out, <<x>>)
    BY <1>1 DEF Then
  <2> QED
    BY <1>1, <2>1, <2>2
<1>3. ASSUME Inserting(x)
      PROVE  /\ r.env[x.of] = Nil => Run(r, x) = r
             /\ r.env[x.of] # Nil =>
                  Run(r, x) = [out |-> Then(r.out, r.env[x.of]), env |-> r.env, end |-> "ok"]
  <2>1. x.is = "insert"
    BY <1>3 DEF Inserting
  <2>2. Run(r, x) = IF r.env[x.of] = Nil THEN r ELSE [r EXCEPT !.out = @ \o r.env[x.of]]
    BY <2>1 DEF Run
  <2> QED
    BY <1>1, <2>2 DEF Then
<1>4. ASSUME Assigning(x)
      PROVE  Run(r, x) = [out |-> r.out, env |-> [r.env EXCEPT ![x.of] = Locals[x.of]],
                          end |-> "ok"]
  <2>1. x.is = "assign" /\ x.value = Locals[x.of]
    BY <1>4 DEF Assigning
  <2>2. Run(r, x) = [r EXCEPT !.env[x.of] = x.value]
    BY <2>1 DEF Run
  <2> QED
    BY <1>1, <2>1, <2>2
<1>5. ASSUME x = Failing
      PROVE  Run(r, x) = [out |-> r.out, env |-> r.env, end |-> "raised"]
  <2>1. x.is = "failing"
    BY <1>5 DEF Failing
  <2>2. Run(r, x) = [r EXCEPT !.end = "raised"]
    BY <2>1 DEF Run
  <2> QED
    BY <1>1, <2>2
<1>6. ASSUME x = Unclosed
      PROVE  Run(r, x) = [out |-> Then(r.out, <<Message>>), env |-> r.env, end |-> "cut"]
  <2>1. x.is = "unclosed"
    BY <1>6 DEF Unclosed
  <2>2. Run(r, x) = [r EXCEPT !.out = Append(@, Message), !.end = "cut"]
    BY <2>1 DEF Run
  <2>3. Append(r.out, Message) = Then(r.out, <<Message>>)
    BY <1>1 DEF Then
  <2> QED
    BY <1>1, <2>2, <2>3
<1> QED
  BY <1>2, <1>3, <1>4, <1>5, <1>6

(* The chunk stays one.                                                    *)
LEMMA RunChunk ==
  ASSUME NEW p \in Params, NEW r \in Chunks, NEW x \in Pieces,
         Running(x) \/ x \in {Failing, Unclosed}
  PROVE  Run(r, x) \in Chunks
<1>1. CASE r.end # "ok"
  BY <1>1 DEF Run
<1>2. CASE r.end = "ok"
  <2>1. /\ r.out \in Seq(Pieces) /\ r.env \in Envs /\ <<x>> \in Seq(Pieces)
        /\ Message \in Pieces /\ <<Message>> \in Seq(Pieces)
    BY DEF Chunks, Pieces
  <2>2. ASSUME NEW out \in Seq(Pieces), NEW env \in Envs, NEW end \in {"ok", "raised", "cut"}
        PROVE  [out |-> out, env |-> env, end |-> end] \in Chunks
    BY DEF Chunks
  <2>3. \A b \in Seq(Pieces) : Then(r.out, b) \in Seq(Pieces)
    BY <2>1, ThenThen
  <2>4. CASE x.is = "text"
    <3> DEFINE out == Then(r.out, <<x>>)
    <3>1. Run(r, x) = [out |-> out, env |-> r.env, end |-> "ok"]
      BY <1>2, <2>4, RunEffect
    <3>2. out \in Seq(Pieces)
      BY <2>1, <2>3
    <3> HIDE DEF out
    <3> QED
      BY <2>1, <2>2, <3>1, <3>2
  <2>5. CASE Inserting(x)
    <3>1. CASE r.env[x.of] = Nil
      BY <1>2, <2>5, <3>1, RunEffect
    <3>2. CASE r.env[x.of] # Nil
      <4>1. r.env[x.of] \in Seq(Pieces)
        BY <2>1, <2>5, <3>2 DEF Inserting, Envs
      <4> DEFINE out == Then(r.out, r.env[x.of])
      <4>2. Run(r, x) = [out |-> out, env |-> r.env, end |-> "ok"]
        BY <1>2, <2>5, <3>2, RunEffect
      <4>3. out \in Seq(Pieces)
        BY <2>3, <4>1
      <4> HIDE DEF out
      <4> QED
        BY <2>1, <2>2, <4>2, <4>3
    <3> QED
      BY <3>1, <3>2
  <2>6. CASE Assigning(x)
    <3>1. x.of \in DOMAIN Locals
      BY <2>6 DEF Assigning
    <3>2. x.of \in Globals /\ Locals[x.of] \in Seq(Pieces)
      BY <3>1, LocalTexts
    <3>3. [r.env EXCEPT ![x.of] = Locals[x.of]] \in Envs
      BY <2>1, <3>2 DEF Envs
    <3> DEFINE env == [r.env EXCEPT ![x.of] = Locals[x.of]]
    <3>4. Run(r, x) = [out |-> r.out, env |-> env, end |-> "ok"]
      BY <1>2, <2>6, RunEffect
    <3>5. env \in Envs
      BY <3>3
    <3> HIDE DEF env
    <3> QED
      BY <2>1, <2>2, <3>4, <3>5
  <2>7. CASE x = Failing
    <3>1. Run(r, x) = [out |-> r.out, env |-> r.env, end |-> "raised"]
      BY <1>2, <2>7, RunEffect
    <3> QED
      BY <2>1, <2>2, <3>1
  <2>8. CASE x = Unclosed
    <3> DEFINE out == Then(r.out, <<Message>>)
    <3>1. Run(r, x) = [out |-> out, env |-> r.env, end |-> "cut"]
      BY <1>2, <2>8, RunEffect
    <3>2. out \in Seq(Pieces)
      BY <2>1, <2>3
    <3> HIDE DEF out
    <3> QED
      BY <2>1, <2>2, <3>1, <3>2
  <2> QED
    BY <2>4, <2>5, <2>6, <2>7, <2>8 DEF Running
<1> QED
  BY <1>1, <1>2

(* h[k] is the chunk once its first k pieces have run.                     *)
Runs(h, text, start) ==
  /\ h \in [0 .. Len(text) -> Chunks]
  /\ h[0] = start
  /\ \A k \in 1 .. Len(text) : h[k] = Run(h[k - 1], text[k])

(* A text that loadstring accepts.                                         *)
Runnable(text) ==
  \A i \in 1 .. Len(text) : Running(text[i]) \/ text[i] \in {Failing, Unclosed}

(* The chunk, unfolded.                                                    *)
LEMMA RunSteps ==
  ASSUME NEW p \in Params, NEW text \in Seq(Pieces), Runnable(text), NEW start \in Chunks
  PROVE  \E h : Runs(h, text, start) /\ FoldLeft(Run, start, text) = h[Len(text)]
<1> DEFINE n == Len(text)
           step == [k \in 1 .. n |-> [a \in Chunks |-> Run(a, text[k])]]
           Fold(it) == it = [s \in SUBSET (1 .. n) |->
                              IF s = {} THEN start
                              ELSE Run(it[s \ {Max(s)}], text[Max(s)])]
           found == CHOOSE it : Fold(it)
           h == [k \in 0 .. n |-> found[1 .. k]]
<1>1. n \in Nat /\ DOMAIN text = 1 .. n
  OBVIOUS
<1>2. FoldLeft(Run, start, text) = found[1 .. n]
  BY <1>1 DEF FoldLeft, MapThenFoldSet
<1>3. \A k \in 1 .. n : \A a \in Chunks : Run(a, text[k]) \in Chunks
  <2> SUFFICES ASSUME NEW k \in 1 .. n, NEW a \in Chunks
               PROVE  Run(a, text[k]) \in Chunks
    OBVIOUS
  <2> DEFINE x == text[k]
  <2>1. x \in Pieces /\ (Running(x) \/ x \in {Failing, Unclosed})
    BY DEF Runnable
  <2> HIDE DEF x
  <2>2. Run(a, x) \in Chunks
    BY <2>1, RunChunk
  <2> QED
    BY <2>2 DEF x
<1>4. PICK it \in [SUBSET (1 .. n) -> Chunks] : Iterates(it, start, step, n)
  <2>1. step \in [1 .. n -> [Chunks -> Chunks]]
    BY <1>3
  <2> HIDE DEF n, step
  <2> QED
    BY <1>1, <2>1, FoldExists
<1>5. Fold(it)
  <2>1. \A s \in SUBSET (1 .. n) : s # {} => Max(s) \in 1 .. n
    BY <1>1, LastOf
  <2>2. ASSUME NEW s \in SUBSET (1 .. n), s # {}
        PROVE  step[Max(s)][it[s \ {Max(s)}]] = Run(it[s \ {Max(s)}], text[Max(s)])
    <3>1. it[s \ {Max(s)}] \in Chunks /\ Max(s) \in 1 .. n
      BY <2>1, <2>2
    <3> HIDE DEF n
    <3> QED
      BY <3>1
  <2> HIDE DEF n, step
  <2> QED
    BY <2>2, <1>4 DEF Iterates
<1>6. Fold(found)
  BY <1>5
<1> HIDE DEF found, n
<1>7. found[1 .. 0] = start
  <2> DEFINE s == 1 .. 0
  <2>1. s = {} /\ s \in SUBSET (1 .. n)
    BY <1>1, Segments
  <2> HIDE DEF s
  <2>2. found[s] = start
    BY <1>6, <2>1
  <2> QED
    BY <2>2 DEF s
<1>8. ASSUME NEW k \in 1 .. n
      PROVE  found[1 .. k] = Run(found[1 .. k - 1], text[k])
  <2> DEFINE s == 1 .. k
  <2>1. s \in SUBSET (1 .. n) /\ s # {} /\ Max(s) = k /\ s \ {k} = 1 .. k - 1
    BY <1>1, Segments
  <2>2. found[s] = Run(found[s \ {k}], text[k])
    <3> HIDE DEF s
    <3> QED
      BY <1>6, <2>1
  <2> QED
    BY <2>1, <2>2
<1>9. \A k \in 0 .. n : found[1 .. k] \in Chunks
  <2> DEFINE P == {k \in 0 .. n : found[1 .. k] \in Chunks}
  <2>1. 0 \in P
    BY <1>1, <1>7
  <2>2. ASSUME NEW k \in 1 .. n, k - 1 \in P
        PROVE  k \in P
    <3> DEFINE a == found[1 .. k - 1]
    <3>1. a \in Chunks /\ k \in 0 .. n
      BY <1>1, <2>2
    <3>2. Run(a, text[k]) \in Chunks
      <4> HIDE DEF a
      <4> QED
        BY <1>3, <3>1
    <3> QED
      BY <1>8, <3>1, <3>2
  <2>3. P = 0 .. n
    <3>1. P \in SUBSET (0 .. n)
      OBVIOUS
    <3> HIDE DEF P
    <3> QED
      BY <1>1, <2>1, <2>2, <3>1, IntervalInduction
  <2> QED
    BY <2>3
<1>10. Runs(h, text, start)
  <2>1. h \in [0 .. n -> Chunks] /\ h[0] = start
    BY <1>1, <1>7, <1>9
  <2>2. ASSUME NEW k \in 1 .. n
        PROVE  h[k] = Run(h[k - 1], text[k])
    <3>1. h[k] = found[1 .. k] /\ h[k - 1] = found[1 .. k - 1]
      BY <1>1
    <3> HIDE DEF h
    <3> QED
      BY <1>8, <3>1
  <2> QED
    BY <2>1, <2>2 DEF Runs, n
<1>11. FoldLeft(Run, start, text) = h[n]
  BY <1>1, <1>2
<1> QED
  BY <1>10, <1>11 DEF n

(* The globals of a templater with parameters p: those have their values,  *)
(* those the templates assign to may have, no other has one.               *)
Fits(env, p) ==
  /\ env \in Envs
  /\ \A g \in Globals : /\ env[g] \in {Nil, Meaning(p, g)}
                        /\ g \in DOMAIN p => env[g] # Nil
                        /\ env[g] # Nil => g \in DOMAIN p \cup DOMAIN Locals

(* A message in a part of a text is one in the text.                       *)
LEMMA BuildsThen ==
  ASSUME NEW a \in Seq(Pieces), NEW b \in Seq(Pieces), ~Builds(a) \/ ~Builds(b)
  PROVE  ~Builds(Then(a, b))
<1> DEFINE c == Then(a, b)
           m == Len(a)
           n == Len(b)
<1>1. /\ m \in Nat /\ n \in Nat /\ c \in Seq(Pieces) /\ DOMAIN c = 1 .. m + n
      /\ DOMAIN a = 1 .. m /\ DOMAIN b = 1 .. n
      /\ \A i \in 1 .. m : c[i] = a[i]
      /\ \A j \in 1 .. n : c[m + j] = b[j]
  BY DEF Then
<1> HIDE DEF c, m, n
<1>2. CASE ~Builds(a)
  <2>1. PICK i \in 1 .. m : a[i] = Message
    BY <1>1, <1>2 DEF Builds
  <2>2. i \in DOMAIN c /\ c[i] = Message
    BY <1>1, <2>1
  <2> QED
    BY <2>2 DEF Builds, c
<1>3. CASE ~Builds(b)
  <2>1. PICK j \in 1 .. n : b[j] = Message
    BY <1>1, <1>3 DEF Builds
  <2>2. m + j \in DOMAIN c /\ c[m + j] = Message
    BY <1>1, <2>1
  <2> QED
    BY <2>2 DEF Builds, c
<1> QED
  BY <1>2, <1>3

(* A text of one piece.                                                    *)
LEMMA OnePiece ==
  ASSUME NEW x \in Pieces
  PROVE  /\ <<x>> \in Seq(Pieces)
         /\ Builds(<<x>>) <=> x # Message
         /\ x.is = "text" => Clean(<<x>>)
<1> DEFINE t == <<x>>
<1>1. t \in Seq(Pieces) /\ DOMAIN t = {1} /\ t[1] = x
  OBVIOUS
<1> HIDE DEF t
<1>2. Builds(t) <=> x # Message
  BY <1>1 DEF Builds
<1>3. x.is = "text" => Clean(t)
  BY <1>1 DEF Clean
<1> QED
  BY <1>1, <1>2, <1>3 DEF t

(* What holds of a chunk as long as it runs: its globals fit, its output   *)
(* is clean, and has a message in it if it was cut.                        *)
Going(r, p) == /\ r \in Chunks
               /\ Fits(r.env, p)
               /\ Clean(r.out)
               /\ r.end = "cut" => ~Builds(r.out)

(* What a piece leaves behind.                                             *)
Passed(q, r, x) ==
  /\ \A g \in Globals : r.env[g] # Nil => q.env[g] # Nil
  /\ ~Builds(r.out) => ~Builds(q.out)
  /\ q.end = "ok" => /\ r.end = "ok"
                     /\ x \notin Mistakes
                     /\ x = Message => ~Builds(q.out)
                     /\ Assigning(x) => q.env[x.of] # Nil

(* The next piece keeps it so.                                             *)
LEMMA RunKeeps ==
  ASSUME NEW p \in Params, NEW r, Going(r, p), NEW x \in Pieces,
         Running(x) \/ x \in {Failing, Unclosed}
  PROVE  Going(Run(r, x), p) /\ Passed(Run(r, x), r, x)
<1> DEFINE q == Run(r, x)
<1> SUFFICES Going(q, p) /\ Passed(q, r, x)
  OBVIOUS
<1>1. /\ q \in Chunks /\ r \in Chunks /\ r.env \in Envs /\ r.out \in Seq(Pieces)
      /\ Message \in Pieces /\ Message.is = "text"
  <2>1. r \in Chunks
    BY DEF Going
  <2>2. r.env \in Envs /\ r.out \in Seq(Pieces)
    BY <2>1 DEF Chunks
  <2>3. q \in Chunks
    BY <2>1, RunChunk
  <2>4. Message \in Pieces
    BY DEF Pieces
  <2>5. Message.is = "text"
    BY DEF Message, Literal
  <2> QED
    BY <2>1, <2>2, <2>3, <2>4, <2>5
<1>2. CASE r.end # "ok"
  <2>1. q = r
    BY <1>2 DEF Run
  <2> HIDE DEF q
  <2> QED
    BY <1>2, <2>1 DEF Passed
<1>3. ASSUME r.end = "ok", NEW y, y \in Seq(Pieces), Clean(y), q.out = Then(r.out, y),
             q.env = r.env, q.end = "cut" => ~Builds(y), x = Message => ~Builds(y),
             ~Assigning(x), q.end = "ok" => x \notin Mistakes
      PROVE  Going(q, p) /\ Passed(q, r, x)
  <2> HIDE DEF q
  <2>1. Clean(q.out) /\ (~Builds(r.out) \/ ~Builds(y) => ~Builds(q.out))
    BY <1>1, <1>3, CleanThen, BuildsThen DEF Going
  <2> QED
    BY <1>1, <1>3, <2>1 DEF Going, Passed
<1>4. ASSUME r.end = "ok", q.out = r.out, q.env = r.env, q.end # "cut", x # Message,
             ~Assigning(x), q.end = "ok" => x \notin Mistakes
      PROVE  Going(q, p) /\ Passed(q, r, x)
  <2> HIDE DEF q
  <2> QED
    BY <1>1, <1>4 DEF Going, Passed
<1>5. CASE r.end = "ok" /\ x.is = "text"
  <2>1. q = [out |-> Then(r.out, <<x>>), env |-> r.env, end |-> "ok"]
    BY <1>1, <1>5, RunEffect
  <2>2. ~Assigning(x) /\ x \notin Mistakes
    BY <1>5 DEF Assigning, Mistakes, Failing, Rejected, Unclosed
  <2>3. <<x>> \in Seq(Pieces) /\ Clean(<<x>>) /\ (x = Message => ~Builds(<<x>>))
    BY <1>5, OnePiece
  <2>4. q.out = Then(r.out, <<x>>) /\ q.env = r.env /\ q.end = "ok"
    BY <2>1
  <2> HIDE DEF q
  <2> QED
    BY <1>3, <1>5, <2>2, <2>3, <2>4
<1>6. CASE r.end = "ok" /\ Inserting(x)
  <2>1. x.is = "insert" /\ x.of \in Globals
    BY <1>6 DEF Inserting
  <2>2. ~Assigning(x) /\ x \notin Mistakes /\ x # Message
    BY <2>1 DEF Assigning, Mistakes, Failing, Rejected, Unclosed, Message, Literal
  <2>3. CASE r.env[x.of] = Nil
    <3>1. q = r
      BY <1>1, <1>6, <2>3, RunEffect
    <3> HIDE DEF q
    <3> QED
      BY <1>4, <1>6, <2>2, <3>1
  <2>4. CASE r.env[x.of] # Nil
    <3>1. q = [out |-> Then(r.out, r.env[x.of]), env |-> r.env, end |-> "ok"]
      BY <1>1, <1>6, <2>4, RunEffect
    <3> DEFINE y == r.env[x.of]
    <3>2. y = Meaning(p, x.of)
      BY <2>1, <2>4 DEF Going, Fits
    <3>3. y \in Seq(Pieces) /\ Clean(y)
      BY <2>1, <3>2, Values
    <3>4. q.out = Then(r.out, y) /\ q.env = r.env /\ q.end = "ok"
      BY <3>1
    <3> HIDE DEF q, y
    <3> QED
      BY <1>3, <1>6, <2>2, <3>3, <3>4
  <2> QED
    BY <2>3, <2>4
<1>7. CASE r.end = "ok" /\ Assigning(x)
  <2>1. x.is = "assign" /\ x.of \in DOMAIN Locals
    BY <1>7 DEF Assigning
  <2>2. x \notin Mistakes /\ x # Message
    BY <2>1 DEF Mistakes, Failing, Rejected, Unclosed, Message, Literal
  <2>3. x.of \in Globals /\ Locals[x.of] = Meaning(p, x.of) /\ Locals[x.of] # Nil
    BY <2>1, LocalTexts, Values
  <2> DEFINE env == [r.env EXCEPT ![x.of] = Locals[x.of]]
  <2>4. q = [out |-> r.out, env |-> env, end |-> "ok"]
    BY <1>1, <1>7, RunEffect
  <2>5. q.out = r.out /\ q.env = env /\ q.end = "ok"
    BY <2>4
  <2>6. env \in Envs
    BY <1>1, <2>4 DEF Chunks
  <2>7. \A g \in Globals : env[g] = IF g = x.of THEN Locals[x.of] ELSE r.env[g]
    BY <1>1 DEF Envs
  <2> HIDE DEF q, env
  <2>8. Fits(env, p)
    BY <2>1, <2>3, <2>6, <2>7 DEF Going, Fits
  <2>9. \A g \in Globals : r.env[g] # Nil => env[g] # Nil
    BY <2>3, <2>7
  <2>10. env[x.of] # Nil
    BY <2>3, <2>7
  <2> QED
    BY <1>1, <1>7, <2>2, <2>5, <2>8, <2>9, <2>10 DEF Going, Passed
<1>8. CASE r.end = "ok" /\ x = Failing
  <2>1. q = [out |-> r.out, env |-> r.env, end |-> "raised"]
    BY <1>1, <1>8, RunEffect
  <2>2. ~Assigning(x) /\ x # Message
    BY <1>8 DEF Assigning, Failing, Message, Literal
  <2>3. q.out = r.out /\ q.env = r.env /\ q.end = "raised"
    BY <2>1
  <2> HIDE DEF q
  <2> QED
    BY <1>4, <1>8, <2>2, <2>3
<1>9. CASE r.end = "ok" /\ x = Unclosed
  <2>1. q = [out |-> Then(r.out, <<Message>>), env |-> r.env, end |-> "cut"]
    BY <1>1, <1>9, RunEffect
  <2>2. ~Assigning(x) /\ x # Message
    BY <1>9 DEF Assigning, Unclosed, Message, Literal
  <2>3. <<Message>> \in Seq(Pieces) /\ Clean(<<Message>>) /\ ~Builds(<<Message>>)
    BY <1>1, OnePiece
  <2>4. q.out = Then(r.out, <<Message>>) /\ q.env = r.env /\ q.end = "cut"
    BY <2>1
  <2> HIDE DEF q
  <2> QED
    BY <1>3, <1>9, <2>2, <2>3, <2>4
<1> QED
  BY <1>2, <1>5, <1>6, <1>7, <1>8, <1>9 DEF Running

(* A piece without a mistake, with its value there, comes to it.           *)
LEMMA RunFills ==
  ASSUME NEW p \in Params, NEW r, Going(r, p), NEW x \in Pieces, Running(x), r.end = "ok",
         x.is = "insert" /\ x.of \in DOMAIN Locals => r.env[x.of] # Nil
  PROVE  /\ Run(r, x).end = "ok"
         /\ Run(r, x).out = Then(r.out, Filling(x, Meanings(p)))
<1>1. r \in Chunks /\ r.out \in Seq(Pieces)
  BY DEF Going, Chunks
<1>2. CASE x.is = "text"
  <2>1. Filling(x, Meanings(p)) = <<x>>
    BY <1>2 DEF Filling
  <2> QED
    BY <1>1, <1>2, <2>1, RunEffect
<1>3. CASE Inserting(x)
  <2>1. x.is = "insert" /\ x.of \in Globals
    BY <1>3 DEF Inserting
  <2>2. Filling(x, Meanings(p)) = Meaning(p, x.of)
    BY <2>1, Values DEF Filling
  <2>3. CASE r.env[x.of] = Nil
    <3>1. Run(r, x) = r
      BY <1>1, <1>3, <2>3, RunEffect
    <3>2. Meaning(p, x.of) = <<>>
      BY <2>1, <2>3 DEF Going, Fits, Meaning
    <3> QED
      BY <1>1, <2>2, <3>1, <3>2, ThenNone
  <2>4. CASE r.env[x.of] # Nil
    <3>1. r.env[x.of] = Meaning(p, x.of)
      BY <2>1, <2>4 DEF Going, Fits
    <3>2. Run(r, x) = [out |-> Then(r.out, r.env[x.of]), env |-> r.env, end |-> "ok"]
      BY <1>1, <1>3, <2>4, RunEffect
    <3> QED
      BY <2>2, <3>1, <3>2
  <2> QED
    BY <2>3, <2>4
<1>4. CASE Assigning(x)
  <2>1. x.is = "assign"
    BY <1>4 DEF Assigning
  <2>2. Filling(x, Meanings(p)) = <<>>
    BY <2>1 DEF Filling
  <2>3. Run(r, x).end = "ok" /\ Run(r, x).out = r.out
    <3>1. Run(r, x) = [out |-> r.out, env |-> [r.env EXCEPT ![x.of] = Locals[x.of]],
                       end |-> "ok"]
      BY <1>1, <1>4, RunEffect
    <3> QED
      BY <3>1
  <2> QED
    BY <1>1, <2>2, <2>3, ThenNone
<1> QED
  BY <1>2, <1>3, <1>4 DEF Running

(* A chunk before it runs.                                                 *)
Start(env) == [out |-> <<>>, env |-> env, end |-> "ok"]

(* All that holds of it.                                                   *)
LEMMA StartGoes ==
  ASSUME NEW p \in Params, NEW env, Fits(env, p)
  PROVE  Going(Start(env), p)
<1>1. /\ Start(env).out = <<>> /\ Start(env).env = env /\ Start(env).end = "ok"
      /\ <<>> \in Seq(Pieces) /\ env \in Envs
  BY DEF Start, Fits
<1>2. Start(env) \in Chunks
  BY <1>1 DEF Start, Chunks
<1>3. Clean(<<>>)
  BY DEF Clean
<1> QED
  BY <1>1, <1>2, <1>3 DEF Going

(* What is true once k pieces of a text have run.                          *)
Upto(r, k, text, env) ==
  /\ \A g \in Globals : env[g] # Nil => r.env[g] # Nil
  /\ r.end = "ok" =>
       \A i \in 1 .. k : /\ text[i] \notin Mistakes
                         /\ text[i] = Message => ~Builds(r.out)
                         /\ Assigning(text[i]) => r.env[text[i].of] # Nil

(* It is true of all of them.                                              *)
LEMMA ChunkRuns ==
  ASSUME NEW p \in Params, NEW text \in Seq(Pieces), Runnable(text),
         NEW env, Fits(env, p), NEW h, Runs(h, text, Start(env))
  PROVE  \A k \in 0 .. Len(text) : Going(h[k], p) /\ Upto(h[k], k, text, env)
<1> DEFINE n == Len(text)
           P == {k \in 0 .. n : Going(h[k], p) /\ Upto(h[k], k, text, env)}
<1>1. n \in Nat
  OBVIOUS
<1>2. 0 \in P
  <2>1. h[0] = Start(env) /\ Start(env).env = env
    BY DEF Runs, Start
  <2>2. Going(h[0], p)
    BY <2>1, StartGoes
  <2>3. Upto(h[0], 0, text, env)
    BY <2>1 DEF Upto
  <2> QED
    BY <1>1, <2>2, <2>3
<1>3. ASSUME NEW k \in 1 .. n, k - 1 \in P
      PROVE  k \in P
  <2> DEFINE x == text[k]
             r == h[k - 1]
             q == h[k]
  <2>1. q = Run(r, x) /\ x \in Pieces /\ (Running(x) \/ x \in {Failing, Unclosed}) /\ k \in 0 .. n
    BY <1>1 DEF Runs, Runnable
  <2>2. Going(r, p) /\ Upto(r, k - 1, text, env)
    BY <1>3
  <2> HIDE DEF r, q
  <2>3. Going(q, p) /\ Passed(q, r, x)
    <3> HIDE DEF x
    <3> QED
      BY <2>1, <2>2, RunKeeps
  <2>4. \A g \in Globals : env[g] # Nil => q.env[g] # Nil
    BY <2>2, <2>3 DEF Upto, Passed
  <2>5. ASSUME q.end = "ok", NEW i \in 1 .. k
        PROVE  /\ text[i] \notin Mistakes
               /\ text[i] = Message => ~Builds(q.out)
               /\ Assigning(text[i]) => q.env[text[i].of] # Nil
    <3>1. CASE i = k
      BY <2>3, <2>5, <3>1 DEF Passed
    <3>2. CASE i # k
      <4>1. i \in 1 .. k - 1
        BY <1>1, <3>2
      <4>2. /\ text[i] \notin Mistakes
            /\ text[i] = Message => ~Builds(r.out)
            /\ Assigning(text[i]) => r.env[text[i].of] # Nil
        BY <2>2, <2>3, <2>5, <4>1 DEF Upto, Passed
      <4>3. Assigning(text[i]) => text[i].of \in Globals
        BY TemplatedAssumption DEF Assigning
      <4> QED
        BY <2>3, <4>2, <4>3 DEF Passed
    <3> QED
      BY <3>1, <3>2
  <2>6. Upto(q, k, text, env)
    BY <2>4, <2>5 DEF Upto
  <2> QED
    BY <2>1, <2>3, <2>6 DEF q
<1>4. P = 0 .. n
  <2>1. P \in SUBSET (0 .. n)
    OBVIOUS
  <2> HIDE DEF P, n
  <2> QED
    BY <1>1, <1>2, <1>3, <2>1, IntervalInduction
<1> QED
  BY <1>4

(* A local is set where the text inserts it.                               *)
Prepared(text, env) ==
  \A k \in 1 .. Len(text) :
    text[k].is = "insert" /\ text[k].of \in DOMAIN Locals =>
      \/ env[text[k].of] # Nil
      \/ \E i \in 1 .. k - 1 : Assigning(text[i]) /\ text[i].of = text[k].of

(* A text without a mistake is filled with the values.                     *)
LEMMA ChunkFills ==
  ASSUME NEW p \in Params, NEW text \in Seq(Pieces), \A i \in 1 .. Len(text) : Running(text[i]),
         NEW env, Fits(env, p), Prepared(text, env), NEW h, Runs(h, text, Start(env)),
         NEW f, Fills(f, text, Meanings(p))
  PROVE  \A k \in 0 .. Len(text) : h[k].end = "ok" /\ h[k].out = f[k]
<1> DEFINE n == Len(text)
           P == {k \in 0 .. n : h[k].end = "ok" /\ h[k].out = f[k]}
<1>1. n \in Nat /\ Runnable(text)
  BY DEF Runnable
<1>2. 0 \in P
  BY <1>1 DEF Runs, Fills, Start
<1>3. ASSUME NEW k \in 1 .. n, k - 1 \in P
      PROVE  k \in P
  <2> DEFINE x == text[k]
             r == h[k - 1]
             q == h[k]
  <2>1. q = Run(r, x) /\ x \in Pieces /\ Running(x) /\ k \in 0 .. n /\ k - 1 \in 0 .. n
    BY <1>1 DEF Runs
  <2>2. Going(r, p) /\ Upto(r, k - 1, text, env)
    BY <1>1, <2>1, ChunkRuns
  <2>3. r.end = "ok" /\ r.out = f[k - 1] /\ f[k] = Then(f[k - 1], Filling(x, Meanings(p)))
    BY <1>3 DEF Fills
  <2>4. ASSUME x.is = "insert", x.of \in DOMAIN Locals
        PROVE  r.env[x.of] # Nil
    <3>1. x.of \in Globals
      BY <2>4, TemplatedAssumption
    <3>2. CASE env[x.of] # Nil
      BY <2>2, <3>1, <3>2 DEF Upto
    <3>3. CASE env[x.of] = Nil
      <4>1. PICK i \in 1 .. k - 1 : Assigning(text[i]) /\ text[i].of = x.of
        BY <2>4, <3>3 DEF Prepared
      <4> QED
        BY <2>2, <2>3, <4>1 DEF Upto
    <3> QED
      BY <3>2, <3>3
  <2> HIDE DEF x, r, q
  <2>5. q.end = "ok" /\ q.out = Then(r.out, Filling(x, Meanings(p)))
    BY <2>1, <2>2, <2>3, <2>4, RunFills
  <2>6. q.end = "ok" /\ q.out = f[k]
    BY <2>3, <2>5
  <2> QED
    BY <2>1, <2>6 DEF q
<1>4. P = 0 .. n
  <2>1. P \in SUBSET (0 .. n)
    OBVIOUS
  <2> HIDE DEF P, n
  <2> QED
    BY <1>1, <1>2, <1>3, <2>1, IntervalInduction
<1> QED
  BY <1>4

(* What templates and the texts made of them consist of.                   *)
Written(text) ==
  \A i \in 1 .. Len(text) : Running(text[i]) \/ text[i] \in Mistakes

(* Every local is set.                                                     *)
Ready(env) == \A g \in DOMAIN Locals : env[g] # Nil

(* M._compile on any text: the globals fit, and a mistake or a message is  *)
(* an error or a message.                                                  *)
LEMMA CompileAny ==
  ASSUME NEW p \in Params, NEW text \in Seq(Pieces), Written(text), NEW env, Fits(env, p)
  PROVE  LET r == Compile(text, env)
         IN  /\ Going(r, p)
             /\ Ready(env) => Ready(r.env)
             /\ (\E i \in 1 .. Len(text) : text[i] \in Mistakes \cup {Message}) =>
                  Raises(r) \/ ~Builds(r.out)
<1> DEFINE n == Len(text)
           r == Compile(text, env)
<1>1. n \in Nat /\ DOMAIN text = 1 .. n /\ n \in 0 .. n
  OBVIOUS
<1>2. CASE \E i \in DOMAIN text : text[i] = Rejected
  <2>1. r = [out |-> <<Message>>, env |-> env, end |-> "ok"]
    BY <1>2 DEF Compile
  <2>2. Message \in Pieces /\ Message.is = "text"
    BY DEF Pieces, Message, Literal
  <2>3. <<Message>> \in Seq(Pieces) /\ ~Builds(<<Message>>) /\ Clean(<<Message>>)
    BY <2>2, OnePiece
  <2>4. env \in Envs
    BY DEF Fits
  <2>5. r \in Chunks
    BY <2>1, <2>3, <2>4 DEF Chunks
  <2>6. r.out = <<Message>> /\ r.env = env
    BY <2>1
  <2> HIDE DEF r
  <2>7. Going(r, p)
    BY <2>3, <2>5, <2>6 DEF Going
  <2> QED
    BY <2>3, <2>6, <2>7 DEF r
<1>3. CASE \A i \in DOMAIN text : text[i] # Rejected
  <2>1. r = FoldLeft(Run, Start(env), text)
    BY <1>3 DEF Compile, Start
  <2>2. Runnable(text)
    BY <1>1, <1>3 DEF Written, Runnable, Mistakes
  <2>3. Start(env) \in Chunks
    BY StartGoes DEF Going
  <2>4. PICK h : Runs(h, text, Start(env)) /\ FoldLeft(Run, Start(env), text) = h[n]
    BY <2>2, <2>3, RunSteps
  <2>5. Going(h[n], p) /\ Upto(h[n], n, text, env) /\ r = h[n]
    BY <1>1, <2>1, <2>2, <2>4, ChunkRuns
  <2> HIDE DEF r
  <2>6. Going(r, p) /\ Upto(r, n, text, env)
    BY <2>5
  <2>7. Ready(env) => Ready(r.env)
    BY <2>6, TemplatedAssumption DEF Upto, Ready
  <2>8. r.end \in {"ok", "raised", "cut"}
    BY <2>6 DEF Going, Chunks
  <2>9. ASSUME NEW i \in 1 .. n, text[i] \in Mistakes \cup {Message}
        PROVE  Raises(r) \/ ~Builds(r.out)
    <3>1. CASE r.end = "ok"
      BY <2>6, <2>9, <3>1 DEF Upto
    <3>2. CASE r.end = "cut"
      BY <2>6, <3>2 DEF Going
    <3>3. CASE r.end = "raised"
      BY <3>3 DEF Raises
    <3> QED
      BY <2>8, <3>1, <3>2, <3>3
  <2> QED
    BY <2>6, <2>7, <2>9 DEF r
<1> QED
  BY <1>2, <1>3

(* M._compile on a text without a mistake fills in the values.             *)
LEMMA CompileFills ==
  ASSUME NEW p \in Params, NEW text \in Seq(Pieces), \A i \in 1 .. Len(text) : Running(text[i]),
         NEW env, Fits(env, p), Prepared(text, env)
  PROVE  LET r == Compile(text, env)
         IN  /\ ~Raises(r) /\ Fits(r.env, p)
             /\ r.out = Filled(text, Meanings(p))
             /\ \A g \in DOMAIN Locals :
                  (env[g] # Nil \/ \E i \in 1 .. Len(text) : Assigning(text[i]) /\ text[i].of = g)
                    => r.env[g] # Nil
<1> DEFINE n == Len(text)
           r == Compile(text, env)
<1>1. n \in Nat /\ DOMAIN text = 1 .. n /\ n \in 0 .. n
  OBVIOUS
<1>2. \A i \in DOMAIN text : text[i] # Rejected
  <2> SUFFICES ASSUME NEW i \in 1 .. n, text[i] = Rejected
               PROVE  FALSE
    BY <1>1
  <2>1. text[i].is = "rejected"
    BY DEF Rejected
  <2> QED
    BY <2>1 DEF Running, Inserting, Assigning
<1>3. r = FoldLeft(Run, Start(env), text)
  BY <1>2 DEF Compile, Start
<1>4. Runnable(text) /\ Proper(text)
  BY DEF Runnable, Proper, Running, Inserting, Assigning
<1>5. Start(env) \in Chunks /\ Fillable(text, Meanings(p))
  BY <1>4, StartGoes, ProperFillable, Values DEF Going
<1>6. PICK h : Runs(h, text, Start(env)) /\ FoldLeft(Run, Start(env), text) = h[n]
  BY <1>4, <1>5, RunSteps
<1>7. PICK f : Fills(f, text, Meanings(p)) /\ Filled(text, Meanings(p)) = f[n]
  BY <1>5, FilledSteps
<1>8. Going(h[n], p) /\ Upto(h[n], n, text, env) /\ r = h[n]
  BY <1>1, <1>3, <1>4, <1>6, ChunkRuns
<1>9. h[n].end = "ok" /\ h[n].out = f[n]
  BY <1>1, <1>6, <1>7, ChunkFills
<1> HIDE DEF r
<1>10. Going(r, p) /\ Upto(r, n, text, env) /\ r.end = "ok" /\ r.out = Filled(text, Meanings(p))
  BY <1>7, <1>8, <1>9
<1>11. ~Raises(r) /\ Fits(r.env, p)
  BY <1>10 DEF Raises, Going
<1>12. ASSUME NEW g \in DOMAIN Locals,
              \/ env[g] # Nil
              \/ \E i \in 1 .. Len(text) : Assigning(text[i]) /\ text[i].of = g
       PROVE  r.env[g] # Nil
  BY <1>10, <1>12, TemplatedAssumption DEF Upto
<1> QED
  BY <1>10, <1>11, <1>12 DEF r

-----------------------------------------------------------------------------
(***************************************************************************)
(* Rendering, and the kernel store.                                        *)
(***************************************************************************)
(* A text that M.compile has made: there is a message in it, or all locals *)
(* are set and it comes to what the template does.                         *)
Coming(text, env, p) ==
  /\ text \in Seq(Pieces)
  /\ Clean(text)
  /\ Builds(text) => Ready(env) /\ Filled(text, Whole[p]) = Expansion(p)

(* How far a render is: at its start, or between two compilations, the     *)
(* last of which leaves nothing but text.                                  *)
Progress(m, env, p) ==
  \/ \E text \in Texts : m = Begin(text)
  \/ /\ Coming(m.compiled, env, p)
     /\ Done(m) /\ Builds(m.compiled) => Plain(m.compiled)

(* A sound text that comes to what the template does goes on to.           *)
LEMMA CompileComes ==
  ASSUME NEW p \in Params, NEW text \in Seq(Pieces), \A i \in 1 .. Len(text) : Running(text[i]),
         NEW env, Fits(env, p), Prepared(text, env), Filled(text, Whole[p]) = Expansion(p),
         \A g \in DOMAIN Locals :
           env[g] # Nil \/ \E i \in 1 .. Len(text) : Assigning(text[i]) /\ text[i].of = g
  PROVE  LET r == Compile(text, env)
         IN  /\ ~Raises(r) /\ Fits(r.env, p)
             /\ Coming(r.out, r.env, p)
             /\ r.out = text => Plain(r.out)
<1> DEFINE r == Compile(text, env)
<1>1. /\ ~Raises(r) /\ Fits(r.env, p) /\ r.out = Filled(text, Meanings(p))
      /\ \A g \in DOMAIN Locals : r.env[g] # Nil
  BY CompileFills
<1> HIDE DEF r
<1>2. Proper(text)
  BY DEF Proper, Running, Inserting, Assigning
<1>3. r.out \in Seq(Pieces) /\ Clean(r.out) /\ Filled(r.out, Whole[p]) = Expansion(p)
  BY <1>1, <1>2, FilledTwice
<1>4. Coming(r.out, r.env, p)
  BY <1>1, <1>3 DEF Coming, Ready
<1>5. r.out = text => Plain(r.out)
  BY <1>1, <1>2, UnchangedIsPlain
<1> QED
  BY <1>1, <1>4, <1>5 DEF r

(* The template without a mistake is such a text.                          *)
LEMMA TemplateSound ==
  ASSUME Template \notin Faulty, NEW env
  PROVE  /\ Template \in Seq(Pieces)
         /\ \A i \in 1 .. Len(Template) : Running(Template[i])
         /\ Prepared(Template, env)
         /\ \A g \in DOMAIN Locals :
              \E i \in 1 .. Len(Template) : Assigning(Template[i]) /\ Template[i].of = g
<1>1. Template \in Texts /\ Template \in Seq(Pieces)
  BY TextsProper DEF Texts
<1>2. DOMAIN Template = 1 .. Len(Template) /\ Len(Template) \in Nat
  BY <1>1
<1>3. ASSUME NEW i \in 1 .. Len(Template)
      PROVE  Running(Template[i])
  BY <1>1, <1>2, TextAssumption DEF Running
<1>4. ASSUME NEW k \in 1 .. Len(Template), Template[k].is = "insert",
             Template[k].of \in DOMAIN Locals
      PROVE  \E i \in 1 .. k - 1 : Assigning(Template[i]) /\ Template[i].of = Template[k].of
  <2>1. PICK i \in 1 .. Len(Template) :
               /\ Assigning(Template[i]) /\ Template[i].of = Template[k].of
               /\ \A j \in 1 .. i - 1 : Inserting(Template[j]) => Template[j].of # Template[k].of
    BY <1>2, <1>4, TextAssumption
  <2>2. Inserting(Template[k])
    BY <1>4, TemplatedAssumption DEF Inserting
  <2>3. k \notin 1 .. i - 1
    BY <2>1, <2>2
  <2>4. i # k
    BY <1>4, <2>1 DEF Assigning
  <2>5. i \in 1 .. k - 1
    BY <1>2, <2>3, <2>4
  <2> QED
    BY <2>1, <2>5
<1>5. Prepared(Template, env)
  BY <1>4 DEF Prepared
<1>6. ASSUME NEW g \in DOMAIN Locals
      PROVE  \E i \in 1 .. Len(Template) : Assigning(Template[i]) /\ Template[i].of = g
  BY <1>2, TextAssumption
<1> QED
  BY <1>1, <1>3, <1>5, <1>6

(* A compilation is progress.                                              *)
LEMMA CompileProgress ==
  ASSUME NEW p \in Params, NEW env, Fits(env, p), NEW m, Progress(m, env, p)
  PROVE  LET r == Compile(m.compiled, env)
         IN  /\ Fits(r.env, p)
             /\ ~Raises(r) => Progress(Again(m, r.out), r.env, p)
<1> DEFINE text == m.compiled
           r == Compile(text, env)
           next == Again(m, r.out)
<1> SUFFICES Fits(r.env, p) /\ (~Raises(r) => Progress(next, r.env, p))
  OBVIOUS
<1>1. next.compiled = r.out /\ (Done(next) <=> r.out = text)
  BY DEF Again, Done
<1>2. ASSUME text \in Seq(Pieces), Written(text),
             \E i \in 1 .. Len(text) : text[i] \in Mistakes \cup {Message}
      PROVE  Fits(r.env, p) /\ (~Raises(r) => Progress(next, r.env, p))
  <2>1. Going(r, p) /\ (Raises(r) \/ ~Builds(r.out))
    <3> HIDE DEF text
    <3> QED
      BY <1>2, CompileAny
  <2> HIDE DEF r, next
  <2>2. Fits(r.env, p) /\ r.out \in Seq(Pieces) /\ Clean(r.out)
    BY <2>1 DEF Going, Chunks
  <2>3. ~Builds(r.out) => Progress(next, r.env, p)
    BY <1>1, <2>2 DEF Progress, Coming
  <2> QED
    BY <2>1, <2>2, <2>3
<1>3. ASSUME text \in Seq(Pieces), \A i \in 1 .. Len(text) : Running(text[i]),
             Prepared(text, env), Filled(text, Whole[p]) = Expansion(p),
             \A g \in DOMAIN Locals :
               env[g] # Nil \/ \E i \in 1 .. Len(text) : Assigning(text[i]) /\ text[i].of = g
      PROVE  Fits(r.env, p) /\ (~Raises(r) => Progress(next, r.env, p))
  <2>1. Fits(r.env, p) /\ Coming(r.out, r.env, p) /\ (r.out = text => Plain(r.out))
    <3> HIDE DEF text
    <3> QED
      BY <1>3, CompileComes
  <2> HIDE DEF r, next, text
  <2> QED
    BY <1>1, <2>1 DEF Progress
<1>4. CASE \E x \in Texts : m = Begin(x)
  <2>1. PICK x \in Texts : m = Begin(x)
    BY <1>4
  <2>2. text = x
    BY <2>1 DEF Begin
  <2>3. x \in Seq(Pieces)
    BY TextsProper
  <2>4. DOMAIN x = 1 .. Len(x)
    BY <2>3
  <2>5. CASE x \in Faulty
    <3>1. Written(x)
      BY <2>4, TextAssumption DEF Written, Running
    <3>2. \E i \in 1 .. Len(x) : x[i] \in Mistakes
      BY <2>4, <2>5, TextAssumption
    <3> QED
      BY <1>2, <2>2, <2>3, <3>1, <3>2
  <2>6. CASE x \notin Faulty
    <3>1. x = Template
      BY <2>6 DEF Texts
    <3>2. /\ \A i \in 1 .. Len(Template) : Running(Template[i])
          /\ Prepared(Template, env)
          /\ \A g \in DOMAIN Locals :
               \E i \in 1 .. Len(Template) : Assigning(Template[i]) /\ Template[i].of = g
      BY <2>6, <3>1, TemplateSound
    <3>3. Filled(Template, Whole[p]) = Expansion(p)
      BY DEF Expansion
    <3> HIDE DEF r, next
    <3> QED
      BY <1>3, <2>2, <2>3, <3>1, <3>2, <3>3
  <2> QED
    BY <2>5, <2>6
<1>5. CASE Coming(text, env, p)
  <2>1. text \in Seq(Pieces) /\ Clean(text) /\ DOMAIN text = 1 .. Len(text)
    BY <1>5 DEF Coming
  <2>2. \A i \in 1 .. Len(text) : Running(text[i])
    BY <2>1 DEF Clean, Running
  <2>3. CASE ~Builds(text)
    <3>1. \E i \in 1 .. Len(text) : text[i] = Message
      BY <2>1, <2>3 DEF Builds
    <3>2. Written(text)
      BY <2>2 DEF Written
    <3> HIDE DEF text, r, next
    <3> QED
      BY <1>2, <2>1, <3>1, <3>2
  <2>4. CASE Ready(env) /\ Filled(text, Whole[p]) = Expansion(p)
    <3>1. Prepared(text, env)
      BY <2>4 DEF Ready, Prepared
    <3>2. \A g \in DOMAIN Locals : env[g] # Nil
      BY <2>4 DEF Ready
    <3> HIDE DEF text, r, next
    <3> QED
      BY <1>3, <2>1, <2>2, <2>4, <3>1, <3>2
  <2> QED
    BY <1>5, <2>3, <2>4 DEF Coming
<1> QED
  BY <1>4, <1>5 DEF Progress

(* What is built comes from the parameters the templater has.              *)
LEMMA OriginKnown ==
  ASSUME NEW p \in Params, NEW env, NEW m, Progress(m, env, p), Done(m), Builds(m.compiled)
  PROVE  Origin(m.compiled) = p
<1> DEFINE text == m.compiled
<1>1. text = Expansion(p)
  <2>1. CASE Coming(text, env, p) /\ Plain(text)
    <3>1. text \in Seq(Pieces) /\ Filled(text, Whole[p]) = Expansion(p) /\ Texting(Whole[p])
      BY <2>1, Values DEF Coming
    <3> HIDE DEF text
    <3> QED
      BY <2>1, <3>1, PlainFilled
  <2>2. CASE \E x \in Texts : m = Begin(x)
    <3>1. PICK x \in Texts : m = Begin(x)
      BY <2>2
    <3>2. x = <<>> /\ text = <<>>
      BY <3>1 DEF Begin, Done
    <3>3. x \notin Faulty
      <4>1. DOMAIN x = {}
        BY <3>2
      <4> QED
        BY <4>1, TextAssumption
    <3>4. Template = <<>>
      BY <3>2, <3>3 DEF Texts
    <3>5. Expansion(p) = <<>>
      BY <3>4, Values, FilledShort DEF Expansion
    <3> QED
      BY <3>2, <3>5
  <2> QED
    BY <2>1, <2>2 DEF Progress
<1>2. \A q \in Params : Expansion(q) = text => q = p
  BY <1>1, TemplatedAssumption
<1> HIDE DEF text
<1>3. Origin(text) = p
  BY <1>1, <1>2 DEF Origin
<1> QED
  BY <1>3 DEF text

(* A templater's parameters and globals.                                   *)
Fitting == /\ params \in [Templated -> Params]
           /\ lua \in [Templated -> Envs]
           /\ \A t \in Templated : Fits(lua[t], params[t])

(* The kernel that buildKernel is called for.                              *)
Asked(j) ==
  /\ j.by \in Templated
  /\ j = [by |-> j.by, name |-> j.name, build |-> j.build, text |-> j.text]
  /\ j.build => open
  /\ j.name # Null => /\ j.name \in Names
                      /\ Rule("namePerParams") => j.name = NameFor[params[j.by]]

(* The render under way.                                                   *)
Rendering ==
  job # Null => Asked(job) /\ Progress(job.text, lua[job.by], params[job.by])

(* What a new templater knows fits.                                        *)
LEMMA FreshFits ==
  ASSUME NEW p \in Params
  PROVE  Fits(Fresh(p), p)
<1>1. \A g \in DOMAIN p : g \in Globals /\ Meaning(p, g) = p[g]
  BY TemplatedAssumption DEF Meaning
<1>2. \A g \in Globals : Meaning(p, g) \in Seq(Pieces) /\ Meaning(p, g) # Nil
  BY Values
<1>3. \A g \in Globals : Fresh(p)[g] = IF g \in DOMAIN p THEN Meaning(p, g) ELSE Nil
  BY <1>1 DEF Fresh
<1>4. Fresh(p) \in Envs
  BY <1>1, <1>2 DEF Fresh, Envs
<1> QED
  BY <1>2, <1>3, <1>4 DEF Fits

(* set changes one value, in the parameters and in the globals.            *)
LEMMA SetFits ==
  ASSUME NEW p \in Params, NEW env, Fits(env, p), NEW g, NEW v, Put(p, g, v) \in Params
  PROVE  Fits([env EXCEPT ![g] = v], Put(p, g, v))
<1> DEFINE q == Put(p, g, v)
           e == [env EXCEPT ![g] = v]
<1>1. DOMAIN q = DOMAIN p \cup {g} /\ q[g] = v /\ \A h \in DOMAIN p : h # g => q[h] = p[h]
  BY DEF Put
<1> HIDE DEF q
<1>2. q \in Params
  BY DEF q
<1>3. g \in Globals /\ g \notin DOMAIN Locals
  BY <1>1, <1>2, TemplatedAssumption
<1>4. Meaning(q, g) = v /\ v \in Seq(Pieces) /\ v # Nil
  <2>1. Meaning(q, g) = v
    BY <1>1 DEF Meaning
  <2> QED
    BY <1>2, <1>3, <2>1, Values
<1>5. \A h \in Globals : h # g => Meaning(q, h) = Meaning(p, h)
  BY <1>1 DEF Meaning
<1>6. env \in Envs /\ e \in Envs
  BY <1>3, <1>4 DEF Fits, Envs
<1>7. \A h \in Globals : e[h] = IF h = g THEN v ELSE env[h]
  BY <1>6 DEF Envs
<1> HIDE DEF e
<1>8. ASSUME NEW h \in Globals
      PROVE  /\ e[h] \in {Nil, Meaning(q, h)}
             /\ h \in DOMAIN q => e[h] # Nil
             /\ e[h] # Nil => h \in DOMAIN q \cup DOMAIN Locals
  <2>1. CASE h = g
    BY <1>1, <1>4, <1>7, <2>1
  <2>2. CASE h # g
    BY <1>1, <1>5, <1>7, <2>2 DEF Fits
  <2> QED
    BY <2>1, <2>2
<1> QED
  BY <1>6, <1>8 DEF Fits, q, e

(* A step of the render changes one templater.                             *)
LEMMA FitsElsewhere ==
  ASSUME Fitting, NEW t \in Templated, NEW p \in Params, NEW env, Fits(env, p),
         params' = [params EXCEPT ![t] = p], lua' = [lua EXCEPT ![t] = env]
  PROVE  Fitting'
<1>1. env \in Envs
  BY DEF Fits
<1>2. params' \in [Templated -> Params] /\ lua' \in [Templated -> Envs]
  BY <1>1 DEF Fitting
<1>3. ASSUME NEW s \in Templated
      PROVE  Fits(lua'[s], params'[s])
  <2>1. CASE s = t
    BY <2>1 DEF Fitting
  <2>2. CASE s # t
    <3>1. lua'[s] = lua[s] /\ params'[s] = params[s]
      BY <2>2 DEF Fitting
    <3> QED
      BY <3>1 DEF Fitting
  <2> QED
    BY <2>1, <2>2
<1>4. \A s \in Templated : Fits(lua'[s], params'[s])
  BY <1>3
<1> QED
  BY <1>2, <1>4 DEF Fitting

(* M.compile goes on.                                                      *)
LEMMA CompileKeeps ==
  ASSUME Fitting, Rendering, CompileStep
  PROVE  Fitting' /\ Rendering' /\ UNCHANGED vars
<1> DEFINE t == job.by
           p == params[t]
           env == lua[t]
           m == job.text
           r == Compile(m.compiled, env)
<1>1. job # Null /\ UNCHANGED vars /\ lua' = [lua EXCEPT ![t] = r.env]
  BY DEF CompileStep, Idle
<1>2. job' = Null \/ (~Raises(r) /\ job' = [job EXCEPT !.text = Again(@, r.out)])
  BY DEF CompileStep
<1>3. t \in Templated /\ p \in Params /\ Fits(env, p) /\ Progress(m, env, p) /\ Asked(job)
  BY <1>1 DEF Fitting, Rendering, Asked
<1>4. Fits(r.env, p) /\ (~Raises(r) => Progress(Again(m, r.out), r.env, p))
  <2> HIDE DEF t, p, env, m
  <2> QED
    BY <1>3, CompileProgress
<1>5. params' = params /\ params = [params EXCEPT ![t] = p] /\ open' = open
  BY <1>1, <1>3 DEF vars, Fitting
<1>6. Fitting'
  <2> HIDE DEF r, p, t
  <2> QED
    BY <1>1, <1>3, <1>4, <1>5, FitsElsewhere
<1>7. CASE job' = Null
  BY <1>1, <1>6, <1>7 DEF Rendering
<1>8. CASE ~Raises(r) /\ job' = [job EXCEPT !.text = Again(@, r.out)]
  <2>1. job' = [by |-> t, name |-> job.name, build |-> job.build, text |-> Again(m, r.out)]
    BY <1>3, <1>8 DEF Asked
  <2>2. job'.by = t /\ job'.name = job.name /\ job'.build = job.build
        /\ job'.text = Again(m, r.out)
    BY <2>1
  <2>3. lua'[t] = r.env /\ params'[t] = p
    BY <1>1, <1>3, <1>5 DEF Fitting
  <2>4. Progress(job'.text, lua'[job'.by], params'[job'.by])
    BY <1>4, <1>8, <2>2, <2>3
  <2>5. Asked(job)'
    BY <1>3, <1>5, <2>1, <2>2 DEF Asked
  <2> QED
    BY <1>1, <1>6, <2>4, <2>5 DEF Rendering
<1> QED
  BY <1>2, <1>7, <1>8

(* Between renders nothing is under way, and parameters are only set.      *)
LEMMA UseStoreKeeps ==
  ASSUME Fitting, Rendering, Idle, UNCHANGED templated, UNCHANGED params
  PROVE  Fitting' /\ Rendering'
BY DEF templated, Idle, Fitting, Rendering

(* Parameters are set.                                                     *)
LEMMA SetKeeps ==
  ASSUME Fitting, Rendering, NEW t \in Templated, NEW p \in Params, SetParam(t, p), UNCHANGED job,
         Idle, NEW env, Fits(env, p), lua' = [lua EXCEPT ![t] = env]
  PROVE  Fitting' /\ Rendering' /\ Next
<1>1. Fitting'
  BY FitsElsewhere DEF SetParam
<1>2. Rendering'
  BY DEF Idle, Rendering
<1> QED
  BY <1>1, <1>2 DEF Next

(* A render is started, or refused.                                        *)
LEMMA RenderKeeps ==
  ASSUME Fitting, Rendering, Idle, NEW t \in Templated, NEW text \in Texts, NEW name,
         NEW build \in BOOLEAN, build => open,
         name # Null => name \in Names /\ (Rule("namePerParams") => name = NameFor[params[t]]),
         Render(t, text, name, build), UNCHANGED vars
  PROVE  Fitting' /\ Rendering'
<1>1. UNCHANGED <<lua, params, open>>
  BY DEF Render, vars
<1>2. Fitting'
  BY <1>1 DEF Fitting
<1>3. CASE UNCHANGED job
  BY <1>2, <1>3 DEF Idle, Rendering
<1>4. CASE job' = [by |-> t, name |-> name, build |-> build, text |-> Begin(text)]
  <2>1. job'.by = t /\ job'.name = name /\ job'.build = build /\ job'.text = Begin(text)
    BY <1>4
  <2>2. Asked(job)'
    BY <1>1, <1>4, <2>1 DEF Asked
  <2>3. Progress(job'.text, lua'[job'.by], params'[job'.by])
    BY <2>1 DEF Progress
  <2> QED
    BY <1>2, <2>2, <2>3 DEF Rendering
<1> QED
  BY <1>3, <1>4 DEF Render

(* What comes of a render is built, as the store sees it in one step.      *)
LEMMA BuildRenderedBuilds ==
  ASSUME Fitting, Rendering, BuildRendered
  PROVE  Fitting' /\ Rendering' /\ Next
<1> DEFINE t == job.by
           p == params[t]
           text == job.text.compiled
           useKernelStore == job.name # Null
           n == IF useKernelStore THEN job.name ELSE NameFor[p]
<1>1. /\ job # Null /\ job.build /\ Done(job.text) /\ Builds(text) /\ job' = Null
      /\ UNCHANGED <<deleted, params, open, lua, errors>>
  BY DEF BuildRendered, Idle
<1>2. /\ t \in Templated /\ p \in Params /\ open
      /\ Progress(job.text, lua[t], p)
      /\ useKernelStore => n \in Names /\ (Rule("namePerParams") => n = NameFor[p])
  BY <1>1 DEF Fitting, Rendering, Asked
<1>3. n \in Names /\ (Rule("namePerParams") => n = NameFor[p])
  BY <1>2, StoreAssumption
<1>4. Origin(text) = p
  BY <1>1, <1>2, OriginKnown
<1>5. PICK k \in Kernels :
             /\ Construct(k, Origin(text))
             /\ IF job.name # Null THEN Store(job.name, k, TRUE) ELSE UNCHANGED store
             /\ got' = [kernel |-> k, wanted |-> params[job.by]]
  BY DEF BuildRendered
<1>6. ~(useKernelStore /\ KernelExists(n))
  BY <1>5 DEF Store, KernelExists
<1>7. /\ Construct(k, p)
      /\ IF useKernelStore THEN Store(n, k, TRUE) ELSE UNCHANGED store
      /\ got' = [kernel |-> k, wanted |-> p]
  BY <1>4, <1>5
<1>8. BuildTemplated(t, n, useKernelStore)
  <2> HIDE DEF t, p, n, useKernelStore
  <2>1. Rule("namePerParams") => n = NameFor[params[t]]
    BY <1>3 DEF p
  <2> QED
    BY <1>1, <1>2, <1>6, <1>7, <2>1 DEF BuildTemplated, p
<1>9. Next
  <2>1. useKernelStore \in BOOLEAN
    OBVIOUS
  <2> HIDE DEF t, n, useKernelStore
  <2> QED
    BY <1>2, <1>3, <1>8, <2>1 DEF Next
<1>10. Fitting' /\ Rendering'
  BY <1>1 DEF Fitting, Rendering
<1> QED
  BY <1>9, <1>10

(* Every step of a templated kernel is one of the store, or none.          *)
LEMMA TemplatedStep ==
  ASSUME Fitting, Rendering, [TemplatedNext]_allVars
  PROVE  Fitting' /\ Rendering' /\ [Next]_vars
<1>1. ASSUME NEW k \in Kernels, UseStore(Build(k)) \/ UseStore(DeleteKernel(k))
      PROVE  Fitting' /\ Rendering' /\ [Next]_vars
  <2>1. Build(k) \/ DeleteKernel(k)
    BY <1>1 DEF UseStore
  <2>2. UNCHANGED params
    BY <2>1 DEF Build, DeleteKernel
  <2>3. Next
    BY <2>1 DEF Next
  <2> QED
    BY <1>1, <2>2, <2>3, UseStoreKeeps DEF UseStore
<1>2. ASSUME NEW n \in Names, NEW k \in Kernels, NEW deleteWithCl \in BOOLEAN,
             UseStore(StoreKernel(n, k, deleteWithCl))
      PROVE  Fitting' /\ Rendering' /\ [Next]_vars
  <2>1. StoreKernel(n, k, deleteWithCl)
    BY <1>2 DEF UseStore
  <2>2. UNCHANGED params
    BY <2>1 DEF StoreKernel
  <2>3. Next
    BY <2>1 DEF Next
  <2> QED
    BY <1>2, <2>2, <2>3, UseStoreKeeps DEF UseStore
<1>3. ASSUME NEW n \in Names, UseStore(GetKernel(n))
      PROVE  Fitting' /\ Rendering' /\ [Next]_vars
  <2>1. GetKernel(n)
    BY <1>3 DEF UseStore
  <2>2. UNCHANGED params
    BY <2>1 DEF GetKernel
  <2>3. Next
    BY <2>1 DEF Next
  <2> QED
    BY <1>3, <2>2, <2>3, UseStoreKeeps DEF UseStore
<1>4. CASE UseStore(Delete)
  <2>1. Delete
    BY <1>4 DEF UseStore
  <2>2. UNCHANGED params
    BY <2>1 DEF Delete
  <2>3. Next
    BY <2>1 DEF Next
  <2> QED
    BY <1>4, <2>2, <2>3, UseStoreKeeps DEF UseStore
<1>5. ASSUME NEW t \in Templated, NEW p \in Params, Remake(t, p)
      PROVE  Fitting' /\ Rendering' /\ [Next]_vars
  BY <1>5, SetKeeps, FreshFits DEF Remake, Renew
<1>6. ASSUME NEW t \in Templated, NEW g, NEW v, Set(t, g, v)
      PROVE  Fitting' /\ Rendering' /\ [Next]_vars
  <2> DEFINE p == Put(params[t], g, v)
             env == [lua[t] EXCEPT ![g] = v]
  <2>1. Idle /\ p \in Params /\ SetParam(t, p) /\ UNCHANGED job /\ lua' = [lua EXCEPT ![t][g] = v]
    BY <1>6 DEF Set, SetGlobal
  <2>2. lua' = [lua EXCEPT ![t] = env]
    BY <2>1
  <2>3. Fits(env, p)
    BY <2>1, SetFits DEF Fitting
  <2> HIDE DEF p, env
  <2> QED
    BY <2>1, <2>2, <2>3, SetKeeps
<1>7. ASSUME NEW t \in Templated, NEW text \in Texts, GetRenderedKernel(t, text)
      PROVE  Fitting' /\ Rendering' /\ [Next]_vars
  BY <1>7, RenderKeeps DEF GetRenderedKernel
<1>8. ASSUME NEW t \in Templated, NEW n \in Names, UseCache(t, n)
      PROVE  Fitting' /\ Rendering' /\ [Next]_vars
  <2>1. BuildTemplated(t, n, TRUE)
    BY <1>8 DEF UseCache, BuildTemplated
  <2>2. UNCHANGED <<params, lua, job>>
    BY <1>8 DEF UseCache, templated
  <2>3. Next
    BY <2>1 DEF Next
  <2> QED
    BY <1>8, <2>2, <2>3 DEF UseCache, Idle, Fitting, Rendering
<1>9. ASSUME NEW t \in Templated, NEW n \in Names, NEW text \in Texts,
             NEW useKernelStore \in BOOLEAN, StartBuild(t, text, n, useKernelStore)
      PROVE  Fitting' /\ Rendering' /\ [Next]_vars
  <2> DEFINE name == IF useKernelStore THEN n ELSE Null
  <2>1. /\ Idle /\ open /\ Render(t, text, name, TRUE) /\ UNCHANGED vars
        /\ Rule("namePerParams") => n = NameFor[params[t]]
    BY <1>9 DEF StartBuild
  <2>2. name # Null => name \in Names /\ (Rule("namePerParams") => name = NameFor[params[t]])
    BY <2>1
  <2> HIDE DEF name
  <2> QED
    BY <2>1, <2>2, RenderKeeps
<1>10. CASE CompileStep
  BY <1>10, CompileKeeps
<1>11. CASE BuildRendered
  BY <1>11, BuildRenderedBuilds
<1>12. CASE EndRender
  BY <1>12 DEF EndRender, vars, Fitting, Rendering
<1>13. CASE UNCHANGED allVars
  BY <1>13 DEF allVars, vars, templated, Fitting, Rendering, Asked
<1> QED
  BY <1>1, <1>2, <1>3, <1>4, <1>5, <1>6, <1>7, <1>8, <1>9, <1>10, <1>11, <1>12, <1>13
  DEF TemplatedNext

(* The first state is one of the store's.                                  *)
LEMMA TemplatedStart == TemplatedInit => Init /\ Fitting /\ Rendering
<1> SUFFICES ASSUME TemplatedInit
             PROVE  Init /\ Fitting /\ Rendering
  OBVIOUS
<1>1. Init /\ params \in [Templated -> Params] /\ job = Null
  BY DEF TemplatedInit, Init
<1>2. lua = [t \in Templated |-> Fresh(params[t])]
  BY <1>1 DEF TemplatedInit, LuaInit
<1>3. ASSUME NEW t \in Templated
      PROVE  Fits(lua[t], params[t]) /\ lua[t] \in Envs
  BY <1>1, <1>2, FreshFits DEF Fits
<1> QED
  BY <1>1, <1>2, <1>3 DEF Fitting, Rendering

(* A buildKernel that renders, compiles again and again, builds or fails   *)
(* is for the store one step that builds a kernel with the parameters that *)
(* are set, or none.                                                       *)
THEOREM RendersImplementStore == TemplatedSpec => ImplementsStore
<1>1. TemplatedInit => Init /\ Fitting /\ Rendering
  BY TemplatedStart
<1>2. Fitting /\ Rendering /\ [TemplatedNext]_allVars => Fitting' /\ Rendering' /\ [Next]_vars
  BY TemplatedStep
<1> QED
  BY <1>1, <1>2, PTL DEF TemplatedSpec, ImplementsStore, Spec

(* So what the store promises it promises a client that renders, whatever  *)
(* fails on the way.                                                       *)
THEOREM RendersKeepPromises ==
  ASSUME OneNameEach, Rule("knownNames"), Rule("namePerParams"), Rule("oneOwner")
  PROVE  TemplatedSpec => /\ []TypeOK /\ []ExistsMeansStored /\ []DeletedOnce
                          /\ []CacheFits /\ []CacheAlive
                          /\ NamesAreFinal
<1>1. TemplatedSpec => Spec
  BY RendersImplementStore DEF ImplementsStore
<1>2. Spec => []ExistsMeansStored
  BY ExistsIsStored
<1>3. Spec => []DeletedOnce
  BY KernelsDeletedOnce
<1>4. Spec => []CacheFits
  BY CachedKernelFits
<1>5. Spec => []CacheAlive
  BY CachedKernelAlive
<1> QED
  BY <1>1, <1>2, <1>3, <1>4, <1>5, StoreTypeCorrect, NamesStay
=============================================================================
