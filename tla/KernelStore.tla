---------------------------- MODULE KernelStore -----------------------------
(***************************************************************************)
(* The kernel store of an EasyCL object (storeKernel, getKernel,           *)
(* kernelExists and the destructor, src/EasyCL.cpp) and TemplatedKernel    *)
(* (src/templates/TemplatedKernel.cpp), which uses it as its cache.        *)
(*                                                                         *)
(* A kernel is an object identity; what it was rendered from is `built'.   *)
(* A call that throws (a name stored twice, a template that does not       *)
(* render, a source that does not build) leaves everything as it was and   *)
(* is no action.                                                           *)
(***************************************************************************)
EXTENDS Integers, FiniteSets

CONSTANTS Names,     \* names in the store
          Kernels,   \* CLKernel objects
          Null,      \* the null pointer
          Templated, \* TemplatedKernel objects
          Params,    \* values of the template parameters
          NameFor,   \* NameFor[p]: the uniqueName a careful client uses for p
          Rules      \* the rules the client program keeps to, see Rule

ASSUME StoreAssumption == /\ Null \notin Kernels
                          /\ NameFor \in [Params -> Names]

VARIABLES kernelByName,      \* the two maps of EasyCL, as functions on the
          kernelOwnedByName, \* names they have
          made,    \* kernels constructed so far
          deleted, \* deleted[k]: how often kernel k was deleted
          built,   \* built[k]: parameters kernel k was rendered with
          params,  \* params[t]: parameters set in a TemplatedKernel
          got,     \* what the last getKernel or buildKernel returned, and
                   \* the parameters it was wanted for (Null: any)
          open     \* the EasyCL object exists

vars == <<kernelByName, kernelOwnedByName, made, deleted, built, params, got, open>>
store == <<kernelByName, kernelOwnedByName>>

(* Rule(r): the client program keeps to rule r.                            *)
(*   "knownNames"  getKernel is called for stored names only               *)
(*   "namePerParams" buildKernel gets one name for each parameter value,   *)
(*                 and storeKernel is not used with those names            *)
(*   "oneOwner"    a kernel is handed to the store (deleteWithCl) once,    *)
(*                 and from then on the client does not delete it          *)
Rule(r) == r \in Rules

Alive(k) == k \in made /\ deleted[k] = 0
Put(f, n, v) == [m \in DOMAIN f \cup {n} |-> IF m = n THEN v ELSE f[m]]
OwnedNames == {n \in DOMAIN kernelOwnedByName : kernelOwnedByName[n]}
Owned(k) == \E n \in OwnedNames : kernelByName[n] = k

TypeOK == /\ DOMAIN kernelByName \subseteq Names
          /\ \A n \in DOMAIN kernelByName : kernelByName[n] \in Kernels \cup {Null}
          /\ DOMAIN kernelOwnedByName \subseteq DOMAIN kernelByName
          /\ \A n \in DOMAIN kernelOwnedByName : kernelOwnedByName[n] \in BOOLEAN
          /\ made \subseteq Kernels
          /\ deleted \in [Kernels -> Nat]
          /\ built \in [Kernels -> Params \cup {Null}]
          /\ params \in [Templated -> Params]
          /\ got \in [kernel : Kernels \cup {Null}, wanted : Params \cup {Null}]
          /\ open \in BOOLEAN

Nothing == [n \in {} |-> Null]

Init == /\ kernelByName = Nothing
        /\ kernelOwnedByName = Nothing
        /\ made = {}
        /\ deleted = [k \in Kernels |-> 0]
        /\ built = [k \in Kernels |-> Null]
        /\ params \in [Templated -> Params]
        /\ got = [kernel |-> Null, wanted |-> Null]
        /\ open = TRUE

(* buildKernelFromString constructs a kernel rendered with p.              *)
Construct(k, p) == /\ k \notin made
                   /\ made' = made \cup {k}
                   /\ built' = [built EXCEPT ![k] = p]

Build(k) == /\ open
            /\ Construct(k, Null)
            /\ UNCHANGED <<store, deleted, params, got, open>>

(* Slip: storeKernel replaces what is there.                               *)
StoreOver(n, k, deleteWithCl) ==
  /\ kernelByName' = Put(kernelByName, n, k)
  /\ kernelOwnedByName' = Put(kernelOwnedByName, n, deleteWithCl)

(* Slip: only the ownership is recorded.                                   *)
StoreOwnership(n, k, deleteWithCl) ==
  /\ n \notin DOMAIN kernelByName
  /\ kernelOwnedByName' = Put(kernelOwnedByName, n, deleteWithCl)
  /\ UNCHANGED kernelByName

(* Slip: ownership is recorded for owned kernels only.                     *)
StoreIfOwned(n, k, deleteWithCl) ==
  /\ n \notin DOMAIN kernelByName
  /\ kernelByName' = Put(kernelByName, n, k)
  /\ kernelOwnedByName' = IF deleteWithCl THEN Put(kernelOwnedByName, n, TRUE)
                                          ELSE kernelOwnedByName

(* Slip: the store never owns a kernel.                                    *)
StoreUnowned(n, k, deleteWithCl) ==
  /\ n \notin DOMAIN kernelByName
  /\ kernelByName' = Put(kernelByName, n, k)
  /\ kernelOwnedByName' = Put(kernelOwnedByName, n, FALSE)

(* storeKernel throws when the name is taken.                              *)
Store(n, k, deleteWithCl) ==
  /\ n \notin DOMAIN kernelByName
  /\ kernelByName' = Put(kernelByName, n, k)
  /\ kernelOwnedByName' = Put(kernelOwnedByName, n, deleteWithCl)

StoreKernel(n, k, deleteWithCl) ==
  /\ open
  /\ Alive(k)
  /\ Rule("oneOwner") /\ deleteWithCl => ~Owned(k)
  /\ Rule("namePerParams") => n \notin {NameFor[p] : p \in Params}
  /\ Store(n, k, deleteWithCl)
  /\ UNCHANGED <<made, deleted, built, params, got, open>>

(* std::map operator[] inserts a null pointer for a name it does not have. *)
Lookup(n) == IF n \in DOMAIN kernelByName THEN kernelByName[n] ELSE Null
GetKernel(n) ==
  /\ open
  /\ Rule("knownNames") => n \in DOMAIN kernelByName
  /\ kernelByName' = Put(kernelByName, n, Lookup(n))
  /\ got' = [kernel |-> Lookup(n), wanted |-> Null]
  /\ UNCHANGED <<kernelOwnedByName, made, deleted, built, params, open>>

SetParam(t, p) == /\ params' = [params EXCEPT ![t] = p]
                  /\ got' = [kernel |-> Null, wanted |-> Null]
                  /\ UNCHANGED <<store, made, deleted, built, open>>

KernelExists(n) == n \in DOMAIN kernelByName

(* TemplatedKernel::buildKernel: the stored kernel if there is one of that *)
(* name and the store is to be used, else a new one, stored as owned.      *)
BuildTemplated(t, n, useKernelStore) ==
  /\ open
  /\ Rule("namePerParams") => n = NameFor[params[t]]
  /\ \/ /\ useKernelStore /\ KernelExists(n)
        /\ got' = [kernel |-> kernelByName[n], wanted |-> params[t]]
        /\ UNCHANGED <<store, made, built>>
     \/ /\ ~(useKernelStore /\ KernelExists(n))
        /\ \E k \in Kernels :
             /\ Construct(k, params[t])
             /\ IF useKernelStore THEN Store(n, k, TRUE) ELSE UNCHANGED store
             /\ got' = [kernel |-> k, wanted |-> params[t]]
  /\ UNCHANGED <<deleted, params, open>>

(* The client deletes a kernel: one it made, or was given.                 *)
DeleteKernel(k) ==
  /\ Alive(k)
  /\ Rule("oneOwner") => ~Owned(k)
  /\ deleted' = [deleted EXCEPT ![k] = @ + 1]
  /\ got' = [kernel |-> Null, wanted |-> Null]
  /\ UNCHANGED <<store, made, built, params, open>>

(* Slip: every stored kernel is deleted, owned or not.                     *)
DeleteAll ==
  /\ open
  /\ deleted' = [k \in Kernels |->
       deleted[k] + Cardinality({n \in DOMAIN kernelByName : kernelByName[n] = k})]
  /\ open' = FALSE
  /\ got' = [kernel |-> Null, wanted |-> Null]
  /\ UNCHANGED <<store, made, built, params>>

(* ~EasyCL deletes what each owned name points to.                         *)
Delete ==
  /\ open
  /\ deleted' = [k \in Kernels |->
       deleted[k] + Cardinality({n \in OwnedNames : kernelByName[n] = k})]
  /\ open' = FALSE
  /\ got' = [kernel |-> Null, wanted |-> Null]
  /\ UNCHANGED <<store, made, built, params>>

Next == \/ \E k \in Kernels : Build(k) \/ DeleteKernel(k)
        \/ \E n \in Names, k \in Kernels, deleteWithCl \in BOOLEAN :
             StoreKernel(n, k, deleteWithCl)
        \/ \E n \in Names : GetKernel(n)
        \/ \E t \in Templated, p \in Params : SetParam(t, p)
        \/ \E t \in Templated, n \in Names, useKernelStore \in BOOLEAN :
             BuildTemplated(t, n, useKernelStore)
        \/ Delete

Spec == Init /\ [][Next]_vars
-----------------------------------------------------------------------------
(* A name exists in the store only once storeKernel has stored a kernel    *)
(* under it (EasyCL.h:140-144).                                            *)
ExistsMeansStored ==
  \A n \in Names : KernelExists(n) => /\ n \in DOMAIN kernelOwnedByName
                                     /\ kernelByName[n] # Null

(* A name denotes one kernel as long as the store exists.                  *)
NamesAreFinal ==
  [][\A n \in DOMAIN kernelByName : /\ n \in DOMAIN kernelByName'
                                    /\ kernelByName'[n] = kernelByName[n]]_vars

(* Whatever the client deletes itself, each kernel is deleted at most      *)
(* once, and an owned kernel is deleted with the EasyCL object and not     *)
(* before.                                                                 *)
DeletedOnce ==
  /\ \A k \in Kernels : deleted[k] <= 1
  /\ \A n \in OwnedNames : deleted[kernelByName[n]] = IF open THEN 0 ELSE 1

(* buildKernel returns a kernel rendered with the parameters that are set  *)
(* in the TemplatedKernel, cached or not (TemplatedKernel.h:23-25).        *)
CacheFits == got.wanted # Null => built[got.kernel] = got.wanted

(* buildKernel never returns a kernel somebody has deleted.                *)
CacheAlive == got.wanted # Null => Alive(got.kernel)
=============================================================================
