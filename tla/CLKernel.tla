------------------------------ MODULE CLKernel ------------------------------
(***************************************************************************)
(* CLKernel (src/CLKernel.cpp, src/CLKernel_structs.h): parameters are     *)
(* passed one by one, nextArg counting them, then run() enqueues the       *)
(* kernel, reads its plain output arrays back on the same queue, marks the *)
(* wrappers it wrote dirty and starts counting again.  OpenCL keeps a      *)
(* parameter as it was last set, so a kernel that is run again without its *)
(* parameters runs with the previous ones.                                 *)
(*                                                                         *)
(* run() does not look at what the reads of its outputs returned: OpenCL   *)
(* may refuse any of them.                                                 *)
(***************************************************************************)
EXTENDS CLWrapper

CONSTANTS MaxArgs \* bound: parameters a client passes between two runs

ASSUME KernelAssumption == MaxArgs \in Nat

(* One parameter: unset, a value or local memory, or a buffer the kernel   *)
(* reads, writes or both; "bare" is both, by a cl_mem of the client.       *)
Param == [use : {"unset", "value"}, buf : {NoBuffer}]
         \cup [use : {"in", "out", "inout", "bare"}, buf : Buffers]
Output == [buf : Buffers, array : Hosts]
ArgPositions(k) == 0 .. (Arity[k] - 1)

KernelTypeOK ==
  /\ nextArg \in [Kernels -> 0 .. MaxArgs]
  /\ DOMAIN arg = Kernels
  /\ \A k \in Kernels : arg[k] \in [ArgPositions(k) -> Param]
  /\ buffers \in [Kernels -> SUBSET Buffers]
  /\ outputs \in [Kernels -> Seq(Output)]
  /\ wrappersToDirty \in [Kernels -> SUBSET Wrappers]

KernelInit ==
  /\ nextArg = [k \in Kernels |-> 0]
  /\ arg = [k \in Kernels |-> [i \in ArgPositions(k) |->
                                 [use |-> "unset", buf |-> NoBuffer]]]
  /\ buffers = [k \in Kernels |-> {}]
  /\ outputs = [k \in Kernels |-> <<>>]
  /\ wrappersToDirty = [k \in Kernels |-> {}]

(* The client is about to pass kernel k another parameter.                 *)
Passing(k) == /\ busy = Idle
              /\ nextArg[k] < MaxArgs
              /\ Rule("withinArity") => nextArg[k] < Arity[k]

(* clSetKernelArg has such a parameter.                                    *)
Accepts(k) == nextArg[k] < Arity[k]

SetArg(k, use, b) == arg' = [arg EXCEPT ![k][nextArg[k]] = [use |-> use, buf |-> b]]
NextArg(k) == nextArg' = [nextArg EXCEPT ![k] = @ + 1]

(* Slip: remember the last one only.                                       *)
ToDirtyLast(k, w) == wrappersToDirty' = [wrappersToDirty EXCEPT ![k] = {w}]

ToDirty(k, w) == wrappersToDirty' = [wrappersToDirty EXCEPT ![k] = @ \cup {w}]

(* A scalar, local memory, or a null pointer.                              *)
InputValue(k) == /\ Passing(k) /\ Accepts(k)
                 /\ SetArg(k, "value", NoBuffer) /\ NextArg(k)
                 /\ UNCHANGED <<host, deviceVars, wrapperVars, buffers, outputs,
                                wrappersToDirty, busy>>

(* Slip: a wrapper that is not on the device is accepted.                  *)
InputUnchecked(k, w) == /\ Passing(k) /\ Accepts(k)
                        /\ SetArg(k, "in", devicearray[w]) /\ NextArg(k)
                        /\ UNCHANGED <<host, deviceVars, wrapperVars, buffers,
                                       outputs, wrappersToDirty, busy>>

Input(k, w) == /\ Passing(k) /\ Accepts(k)
               /\ onDevice[w]
               /\ SetArg(k, "in", devicearray[w]) /\ NextArg(k)
               /\ UNCHANGED <<host, deviceVars, wrapperVars, buffers, outputs,
                              wrappersToDirty, busy>>

Inout(k, w) == /\ Passing(k) /\ Accepts(k)
               /\ onDevice[w]
               /\ SetArg(k, "inout", devicearray[w]) /\ NextArg(k)
               /\ ToDirty(k, w)
               /\ UNCHANGED <<host, deviceVars, wrapperVars, buffers, outputs, busy>>

(* inout with a cl_mem, that of a wrapper: nobody will mark the wrapper.   *)
InoutBuffer(k, w) == /\ Passing(k) /\ Accepts(k)
                     /\ ~Rule("wholeWrapper")
                     /\ onDevice[w]
                     /\ SetArg(k, "bare", devicearray[w]) /\ NextArg(k)
                     /\ UNCHANGED <<host, deviceVars, wrapperVars, buffers, outputs,
                                    wrappersToDirty, busy>>

(* A wrapper that is not on the device yet is created there first.         *)
OutputWrapper(k, w) ==
  /\ Passing(k) /\ Accepts(k)
  /\ \/ /\ onDevice[w]
        /\ SetArg(k, "out", devicearray[w])
        /\ UNCHANGED <<deviceVars, wrapperVars>>
     \/ /\ ~onDevice[w]
        /\ \E b \in FreeBuffers : /\ Attach(w, b) /\ Intend({b}, Junk)
                                  /\ SetArg(k, "out", b)
        /\ UNCHANGED <<pending, edited>>
  /\ NextArg(k)
  /\ ToDirty(k, w)
  /\ UNCHANGED <<host, buffers, outputs, busy>>

(* clSetKernelArg refuses the parameter once the wrapper was created.      *)
OutputWrapperFails(k, w) ==
  /\ Passing(k) /\ ~Accepts(k)
  /\ ~onDevice[w]
  /\ \E b \in FreeBuffers : Attach(w, b) /\ Intend({b}, Junk)
  /\ UNCHANGED <<host, pending, edited, kernelVars, busy>>

(* A temporary buffer holding v.                                           *)
Temporary(b, v) == Create(b, v) /\ Intend({b}, v)

InputArray(k, h) ==
  /\ Passing(k) /\ Accepts(k)
  /\ \E b \in FreeBuffers : /\ Temporary(b, host[h])
                            /\ SetArg(k, "in", b)
                            /\ buffers' = [buffers EXCEPT ![k] = @ \cup {b}]
  /\ NextArg(k)
  /\ UNCHANGED <<host, pending, wrapperVars, outputs, wrappersToDirty, busy>>

InoutArray(k, h) ==
  /\ Passing(k) /\ Accepts(k)
  /\ \E b \in FreeBuffers :
       /\ Temporary(b, host[h])
       /\ SetArg(k, "inout", b)
       /\ buffers' = [buffers EXCEPT ![k] = @ \cup {b}]
       /\ outputs' = [outputs EXCEPT ![k] = Append(@, [buf |-> b, array |-> h])]
  /\ NextArg(k)
  /\ UNCHANGED <<host, pending, wrapperVars, wrappersToDirty, busy>>

(* input(N, data) and inout(N, data) refused by clSetKernelArg: they throw *)
(* and nothing remembers the buffer they created.                          *)
InputArrayFails(k, h) ==
  /\ Passing(k) /\ ~Accepts(k)
  /\ \E b \in FreeBuffers : Temporary(b, host[h])
  /\ UNCHANGED <<host, pending, wrapperVars, kernelVars, busy>>

(* Slip: the parameter is not counted.                                     *)
OutputArrayUncounted(k, h) ==
  /\ Passing(k)
  /\ \E b \in FreeBuffers :
       /\ Temporary(b, Junk)
       /\ IF Accepts(k) THEN SetArg(k, "out", b) ELSE UNCHANGED arg
       /\ buffers' = [buffers EXCEPT ![k] = @ \cup {b}]
       /\ outputs' = [outputs EXCEPT ![k] = Append(@, [buf |-> b, array |-> h])]
  /\ UNCHANGED <<host, pending, wrapperVars, nextArg, wrappersToDirty, busy>>

(* output(N, data) does not look at what clSetKernelArg returned.          *)
OutputArray(k, h) ==
  /\ Passing(k)
  /\ \E b \in FreeBuffers :
       /\ Temporary(b, Junk)
       /\ IF Accepts(k) THEN SetArg(k, "out", b) ELSE UNCHANGED arg
       /\ buffers' = [buffers EXCEPT ![k] = @ \cup {b}]
       /\ outputs' = [outputs EXCEPT ![k] = Append(@, [buf |-> b, array |-> h])]
  /\ NextArg(k)
  /\ UNCHANGED <<host, pending, wrapperVars, wrappersToDirty, busy>>

(* Buffers the kernel reads, and writes, with its present parameters.      *)
PassedAs(k, uses) == {arg[k][i].buf : i \in {j \in DOMAIN arg[k] : arg[k][j].use \in uses}}
ReadBy(k)    == PassedAs(k, {"in", "inout", "bare"})
WrittenBy(k) == PassedAs(k, {"out", "inout", "bare"})

(* What the kernel may compute: a meaningful result from meaningful        *)
(* inputs; anything, here Junk, from others or through released buffers.   *)
Results(k) == IF /\ ReadBy(k) \cup WrittenBy(k) \subseteq live
                 /\ \A b \in ReadBy(k) : intended[b] \in Val
              THEN Val ELSE {Junk}

(* run on queue q: enqueue the kernel.  It is refused, and changes         *)
(* nothing, when a parameter was never set.  Then the outputs are read,    *)
(* the one at busy.next first; busy.refused are those OpenCL has refused.  *)
Run(k, q, fast_read) ==
  /\ busy = Idle
  /\ \A i \in DOMAIN arg[k] : arg[k][i].use # "unset"
  /\ Rule("freshArgs") => nextArg[k] >= Arity[k]
  /\ Rule("defaultQueue") /\ q # DefaultQueue
       => ReadBy(k) \cup WrittenBy(k) \subseteq buffers[k]
  /\ Room(q, 1 + Len(outputs[k]))
  /\ \E v \in Results(k) :
       /\ Enqueue(q, <<Compute({<<b, intended[b]>> : b \in ReadBy(k)}, WrittenBy(k), v)>>)
       /\ Intend(WrittenBy(k), v)
       /\ busy' = [op |-> "run", k |-> k, q |-> q, val |-> v,
                   fast |-> fast_read /\ outputs[k] # <<>>, next |-> 1, refused |-> {}]
  /\ UNCHANGED <<host, mem, live, wrapperVars, kernelVars>>

(* A read blocks until it is done.  With fast_read none does; at the end   *)
(* clWaitForEvents waits for all, unless one was refused and has no event: *)
(* then it is given what was in memory instead, and returns at once.       *)
ReadDone == pending[busy.q] = <<>> \/ busy.next = 1 \/ busy.next - 1 \in busy.refused
AllRead  == pending[busy.q] = <<>> \/ busy.refused # {}

Reading == /\ busy.op = "run"
           /\ busy.next <= Len(outputs[busy.k])
           /\ busy.fast \/ ReadDone
ReadBack(o) == Read(o.buf, o.array)

(* Slip: the same output is read for ever.                                 *)
RunReadsAgain ==
  /\ Reading
  /\ Enqueue(busy.q, <<ReadBack(outputs[busy.k][busy.next])>>)
  /\ UNCHANGED <<host, mem, live, intended, wrapperVars, kernelVars, busy>>

RunReads ==
  /\ Reading
  /\ Enqueue(busy.q, <<ReadBack(outputs[busy.k][busy.next])>>)
  /\ busy' = [busy EXCEPT !.next = @ + 1]
  /\ UNCHANGED <<host, mem, live, intended, wrapperVars, kernelVars>>

(* The read is refused, and run() goes on.                                 *)
RunReadRefused ==
  /\ Reading
  /\ busy.fast => ~Rule("fastAccepted")
  /\ busy' = [busy EXCEPT !.next = @ + 1, !.refused = @ \cup {busy.next}]
  /\ UNCHANGED <<host, deviceVars, wrapperVars, kernelVars>>

(* Slip: the reads are enqueued and not waited for.                        *)
OutputsEnqueued == busy.next > Len(outputs[busy.k])

OutputsRead == /\ busy.next > Len(outputs[busy.k])
               /\ IF busy.fast THEN AllRead ELSE ReadDone

(* Slip: the temporary buffers are forgotten without being released.       *)
ReleaseNone(k) == UNCHANGED live

ReleaseBuffers(k) == live' = live \ buffers[k]

(* Slip: the wrappers are not marked.                                      *)
MarkWrappersNot(k) == UNCHANGED deviceDirty

MarkWrappers(k) ==
  deviceDirty' = [w \in Wrappers |-> deviceDirty[w] \/ w \in wrappersToDirty[k]]

ForgetParameters(k) ==
  /\ buffers' = [buffers EXCEPT ![k] = {}]
  /\ outputs' = [outputs EXCEPT ![k] = <<>>]
  /\ wrappersToDirty' = [wrappersToDirty EXCEPT ![k] = {}]
  /\ nextArg' = [nextArg EXCEPT ![k] = 0]

(* Once the reads, if any, are done.  OpenCL still has the parameters.     *)
RunReturns ==
  /\ busy.op = "run"
  /\ OutputsRead
  /\ ReleaseBuffers(busy.k)
  /\ MarkWrappers(busy.k)
  /\ ForgetParameters(busy.k)
  /\ busy' = Idle
  /\ UNCHANGED <<host, mem, pending, intended, devicearray, onDevice, edited, arg>>

(* The destructor does not release the temporary buffers; the kernel is    *)
(* then built again.                                                       *)
DestroyKernel(k) ==
  /\ busy = Idle
  /\ Rule("runPassed") => buffers[k] = {}
  /\ ForgetParameters(k)
  /\ arg' = [arg EXCEPT ![k] = [i \in ArgPositions(k) |->
                                  [use |-> "unset", buf |-> NoBuffer]]]
  /\ UNCHANGED <<host, deviceVars, wrapperVars, busy>>
=============================================================================
