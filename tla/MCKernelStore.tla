--------------------------- MODULE MCKernelStore ----------------------------
(* Instances of KernelStore for TLC. *)
EXTENDS KernelStore, TLC

CONSTANTS n1, n2, n3, p1, p2

AllRules == {"knownNames", "namePerParams", "oneOwner"}
AnyParams == AllRules \ {"namePerParams"}

NameOfParams == (p1 :> n1) @@ (p2 :> n2)
=============================================================================
