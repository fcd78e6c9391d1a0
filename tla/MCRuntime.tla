----------------------------- MODULE MCRuntime ------------------------------
(* Instances of EasyCLRuntime for TLC. *)
EXTENDS EasyCLRuntime, TLC

AllRules == {"freshArgs", "withinArity", "keepBound", "defaultQueue",
             "runPassed", "wholeWrapper", "markOnDevice", "fastAccepted"}
NoWithinArity == AllRules \ {"withinArity"}
BareBuffers == NoWithinArity \ {"wholeWrapper"}
MarkAnywhere == AllRules \ {"markOnDevice"}
NoDefaultQueue == AllRules \ {"defaultQueue"}

Arity1 == [k \in Kernels |-> 1]
Arity2 == [k \in Kernels |-> 2]
Size1 == [w \in Wrappers |-> 1]
Size2 == [w \in Wrappers |-> 2]
SameType == [w \in Wrappers |-> 4]

(* States that differ only in what no step can read are taken for one: the *)
(* content of released buffers no command refers to, the handle of a       *)
(* wrapper that is off the device, and, when every parameter is passed     *)
(* again before a run, parameters from before the last one.  So is whether *)
(* the client edited a wrapper that is dirty or whose device content means *)
(* nothing: only CleanMeansSeen asks, of clean wrappers with content, and  *)
(* a flag is cleared, and content comes with a clear flag, only where      *)
(* edited is cleared too (given wholeWrapper, as in every run with it).    *)
View ==
  LET reachable == live \cup InFlight
  IN  << host, live, pending, onDevice, deviceDirty, nextArg, buffers,
         outputs, wrappersToDirty, busy,
         {w \in edited : ~deviceDirty[w] /\ Content(w) # Junk},
         [b \in reachable |-> <<mem[b], intended[b]>>],
         [w \in OnDevice |-> devicearray[w]],
         [k \in Kernels |->
            IF Rule("freshArgs") THEN [i \in Passed(k) |-> arg[k][i]] ELSE arg[k]] >>

Symmetry == UNION {Permutations(S) :
                    S \in {Buffers, Val, Kernels, Wrappers, Hosts \ Wrappers}}
=============================================================================
