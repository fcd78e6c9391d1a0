------------------------------ MODULE MCArray -------------------------------
(* Instances of CLArray for TLC. *)
EXTENDS CLArray, TLC

NoRules == {}
CarefulRules == {"freshArgs", "withinArity"}
Arity1 == [k \in Kernels |-> 1]
NoWrappers == [w \in Wrappers |-> 1]

(* As in MCRuntime: what no step can read is left out of the state.        *)
Reachable(b) == b \in live \cup InFlight
View ==
  << [a \in Arrays |-> IF arrayOnHost[a] THEN host[a] ELSE Junk],
     live, pending, nextArg, busy, arrayOnHost, arrayOnDevice, content,
     [b \in Buffers |-> IF Reachable(b) THEN <<mem[b], intended[b]>> ELSE <<>>],
     [a \in Arrays |-> IF arrayOnDevice[a] THEN arrayBuffer[a] ELSE NoBuffer],
     [k \in Kernels |-> [i \in ArgPositions(k) |->
        IF Rule("freshArgs") /\ i >= nextArg[k] THEN <<>> ELSE <<arg[k][i]>>]] >>

Symmetry == Permutations(Buffers) \cup Permutations(Val)
=============================================================================
