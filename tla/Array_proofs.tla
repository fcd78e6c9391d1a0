---------------------------- MODULE Array_proofs ----------------------------
(***************************************************************************)
(* Theorems about CLArray, for every set of arrays, kernels, queues and    *)
(* buffers and every arity: an array owns its buffer, none leaks, and the  *)
(* arrays that are left to EasyCL are always current where they are used.  *)
(***************************************************************************)
EXTENDS CLArray, Device_proofs

(* No kernel takes plain arrays here.                                      *)
NoTemporaries == \A k \in Kernels : buffers[k] = {} /\ outputs[k] = <<>>

(* While an array is fetched it is in both places.                         *)
FetchedBoth == busy.op = "fetch" => arrayOnHost[busy.a] /\ arrayOnDevice[busy.a]

Kept == TypeOK /\ ArraysOwnBuffers /\ NoTemporaries /\ FetchedBoth

-----------------------------------------------------------------------------
(* Which array has which buffer, step by step.                             *)

(* An array gets a new buffer.                                             *)
LEMMA AllocateOwns ==
  ASSUME Kept, NEW a \in Arrays, ~arrayOnDevice[a], NEW b \in FreeBuffers, NEW v \in Data,
         Allocate(a, b, v)
  PROVE  /\ mem' \in [Buffers -> Data]
         /\ intended' \in [Buffers -> Data]
         /\ live' \in SUBSET Buffers
         /\ arrayBuffer' \in [Arrays -> Buffers \cup {NoBuffer}]
         /\ arrayOnDevice' \in [Arrays -> BOOLEAN]
         /\ \A c \in Arrays : arrayOnDevice'[c] => arrayBuffer'[c] \in live'
         /\ ArraysOwnBuffers'
<1>1. /\ b \in Buffers /\ b \notin live
      /\ live' = live \cup {b}
      /\ mem' = [mem EXCEPT ![b] = v]
      /\ Intend({b}, v)
      /\ arrayBuffer' = [arrayBuffer EXCEPT ![a] = b]
      /\ arrayOnDevice' = [arrayOnDevice EXCEPT ![a] = TRUE]
  BY DEF Allocate, Create, OnDevice, FreeBuffers
<1>2. \A c \in Arrays :
        /\ arrayBuffer'[c] = IF c = a THEN b ELSE arrayBuffer[c]
        /\ arrayOnDevice'[c] = IF c = a THEN TRUE ELSE arrayOnDevice[c]
  BY <1>1 DEF Kept, TypeOK
<1>3. ArraysOwnBuffers'
  BY <1>1, <1>2 DEF Kept, TypeOK, ArraysOwnBuffers
<1>4. intended' \in [Buffers -> Data]
  BY <1>1, IntendType DEF Kept, TypeOK, DeviceTypeOK
<1> QED
  BY <1>1, <1>2, <1>3, <1>4 DEF Kept, TypeOK, DeviceTypeOK

(* An array lets its buffer go.                                            *)
LEMMA ReleaseOwns ==
  ASSUME Kept, NEW a \in Arrays, arrayOnDevice[a], Release(a), UNCHANGED arrayBuffer
  PROVE  /\ live' \in SUBSET Buffers
         /\ arrayOnDevice' \in [Arrays -> BOOLEAN]
         /\ \A c \in Arrays : arrayOnDevice'[c] => arrayBuffer'[c] \in live'
         /\ ArraysOwnBuffers'
<1>1. /\ live' = live \ {arrayBuffer[a]}
      /\ \A c \in Arrays : arrayOnDevice'[c] = IF c = a THEN FALSE ELSE arrayOnDevice[c]
  BY DEF Release, OnDevice, Kept, TypeOK
<1> QED
  BY <1>1 DEF Release, OnDevice, Kept, TypeOK, DeviceTypeOK, ArraysOwnBuffers

(* A parameter is passed: the kernel has it, or refuses it.                *)
LEMMA PassType ==
  ASSUME KernelTypeOK, NEW k \in Kernels, NEW use \in {"in", "out", "inout"}, NEW b \in Buffers,
         Passing(k), Pass(k, use, b), UNCHANGED <<buffers, outputs, wrappersToDirty>>
  PROVE  KernelTypeOK'
<1>1. CASE Accepts(k)
  <2>1. arg[k] \in [ArgPositions(k) -> Param] /\ DOMAIN arg = Kernels
    BY DEF KernelTypeOK
  <2>2. [use |-> use, buf |-> b] \in Param
    BY DEF Param
  <2>3. [arg[k] EXCEPT ![nextArg[k]] = [use |-> use, buf |-> b]] \in [ArgPositions(k) -> Param]
    BY <2>1, <2>2
  <2>4. arg' = [arg EXCEPT ![k] = [arg[k] EXCEPT ![nextArg[k]] = [use |-> use, buf |-> b]]]
    BY <1>1 DEF Pass, SetArg
  <2>5. nextArg' \in [Kernels -> 0 .. MaxArgs]
    BY <1>1, KernelAssumption DEF Pass, NextArg, Passing, KernelTypeOK
  <2> QED
    BY <2>1, <2>3, <2>4, <2>5 DEF KernelTypeOK
<1>2. CASE ~Accepts(k)
  BY <1>2 DEF Pass, KernelTypeOK
<1> QED
  BY <1>1, <1>2

(* The arrays, buffers and kernels that stay do so well formed.            *)
LEMMA SameOwns ==
  ASSUME Kept, UNCHANGED <<live, arrayOnDevice, arrayBuffer>>
  PROVE  /\ arrayOnDevice' \in [Arrays -> BOOLEAN]
         /\ arrayBuffer' \in [Arrays -> Buffers \cup {NoBuffer}]
         /\ \A c \in Arrays : arrayOnDevice'[c] => arrayBuffer'[c] \in live'
         /\ ArraysOwnBuffers'
BY DEF Kept, TypeOK, ArraysOwnBuffers

LEMMA SameKernels ==
  ASSUME Kept, UNCHANGED kernelVars
  PROVE  KernelTypeOK' /\ NoTemporaries'
BY DEF Kept, TypeOK, KernelTypeOK, NoTemporaries, kernelVars

(* No array is fetched before a step of the client, nor after most.        *)
LEMMA IdleStays ==
  ASSUME Kept, busy = Idle, UNCHANGED busy
  PROVE  busy' \in HostState \cup ArrayState /\ FetchedBoth'
BY DEF Kept, TypeOK, FetchedBoth, Idle

-----------------------------------------------------------------------------
(* Each action keeps all this.                                             *)

(* An array on the host.                                                   *)
LEMMA CreateOnHostKept ==
  ASSUME Kept, NEW a \in Arrays, CreateOnHost(a)
  PROVE  Kept'
<1>1. a \in Hosts /\ Junk \in Data
  BY ArrayAssumption DEF Data
<1>2. DeviceTypeOK'
  BY <1>1 DEF CreateOnHost, deviceVars, Kept, TypeOK, DeviceTypeOK
<1>3. KernelTypeOK' /\ NoTemporaries'
  BY SameKernels DEF CreateOnHost
<1>4. busy' \in HostState \cup ArrayState /\ FetchedBoth'
  BY IdleStays DEF CreateOnHost
<1>5. arrayOnHost' \in [Arrays -> BOOLEAN] /\ content' \in [Arrays -> Data]
  BY <1>1 DEF CreateOnHost, OnHost, Hold, Kept, TypeOK
<1>6. UNCHANGED <<live, arrayOnDevice, arrayBuffer>>
  BY DEF CreateOnHost, deviceVars
<1> QED
  BY <1>2, <1>3, <1>4, <1>5, <1>6, SameOwns DEF Kept, TypeOK

(* The client makes room on the device.                                    *)
LEMMA ArrayCreateOnDeviceKept ==
  ASSUME Kept, NEW a \in Arrays, ArrayCreateOnDevice(a)
  PROVE  Kept'
<1>1. PICK b \in FreeBuffers : Allocate(a, b, Junk)
  BY DEF ArrayCreateOnDevice
<1>2. ~arrayOnDevice[a] /\ Junk \in Data
  BY DEF ArrayCreateOnDevice, Data
<1>3. KernelTypeOK' /\ NoTemporaries'
  BY SameKernels DEF ArrayCreateOnDevice
<1>4. busy' \in HostState \cup ArrayState /\ FetchedBoth'
  BY IdleStays DEF ArrayCreateOnDevice
<1> QED
  BY <1>1, <1>2, <1>3, <1>4, AllocateOwns DEF ArrayCreateOnDevice, Kept, TypeOK, DeviceTypeOK

(* The client copies or moves an array to the device.                      *)
LEMMA ArrayToDeviceKept ==
  ASSUME Kept, NEW a \in Arrays, NEW move \in BOOLEAN, ArrayToDevice(a, move)
  PROVE  Kept'
<1>1. PICK b \in FreeBuffers : Allocate(a, b, host[a])
  BY DEF ArrayToDevice
<1>2. ~arrayOnDevice[a] /\ host[a] \in Data
  BY ArrayAssumption DEF ArrayToDevice, Kept, TypeOK, DeviceTypeOK
<1>3. KernelTypeOK' /\ NoTemporaries'
  BY SameKernels DEF ArrayToDevice
<1>4. busy' \in HostState \cup ArrayState /\ FetchedBoth'
  BY IdleStays DEF ArrayToDevice
<1>5. arrayOnHost' \in [Arrays -> BOOLEAN]
  BY DEF ArrayToDevice, OnHost, Kept, TypeOK
<1> QED
  BY <1>1, <1>2, <1>3, <1>4, <1>5, AllocateOwns DEF ArrayToDevice, Kept, TypeOK, DeviceTypeOK

(* The start of a read.                                                    *)
LEMMA FetchKept ==
  ASSUME Kept, NEW a \in Arrays, NEW move \in BOOLEAN, Fetch(a, move),
         content' \in [Arrays -> Data]
  PROVE  Kept'
<1>1. a \in Hosts /\ Junk \in Data /\ arrayBuffer[a] \in Buffers
  BY ArrayAssumption DEF Fetch, Data, Kept, TypeOK, DeviceTypeOK
<1>2. Read(arrayBuffer[a], a) \in Command
  BY <1>1 DEF Read, Command
<1>3. pending' \in [Queues -> Seq(Command)]
  BY <1>2, OneCommand, EnqueueType, DeviceAssumption DEF Fetch, Kept, TypeOK, DeviceTypeOK
<1>4. DeviceTypeOK'
  BY <1>1, <1>3 DEF Fetch, Kept, TypeOK, DeviceTypeOK
<1>5. KernelTypeOK' /\ NoTemporaries'
  BY SameKernels DEF Fetch
<1>6. arrayOnHost' \in [Arrays -> BOOLEAN] /\ arrayOnHost'[a]
  BY DEF Fetch, OnHost, Kept, TypeOK
<1>7. busy' \in ArrayState /\ busy'.a = a
  BY DEF Fetch, ArrayState
<1>8. FetchedBoth'
  BY <1>6, <1>7 DEF Fetch, FetchedBoth
<1> QED
  BY <1>4, <1>5, <1>6, <1>7, <1>8, SameOwns DEF Fetch, Kept, TypeOK

(* The end of a read.                                                      *)
LEMMA FetchReturnsKept ==
  ASSUME Kept, FetchReturns
  PROVE  Kept'
<1>1. busy \in ArrayState
  BY DEF FetchReturns, Kept, TypeOK, HostState
<1>2. PICK a \in Arrays : a = busy.a
  BY <1>1 DEF ArrayState
<1>3. arrayOnDevice[a]
  BY <1>2 DEF FetchReturns, Kept, FetchedBoth
<1>4. busy' \in HostState \cup ArrayState /\ FetchedBoth'
  BY DEF FetchReturns, Idle, HostState, FetchedBoth
<1>5. KernelTypeOK' /\ NoTemporaries'
  BY SameKernels DEF FetchReturns
<1>6. UNCHANGED <<host, mem, pending, intended, arrayOnHost, arrayBuffer, content>>
  BY DEF FetchReturns
<1>7. CASE busy.move
  <2>1. Release(a)
    BY <1>2, <1>7 DEF FetchReturns
  <2> QED
    BY <1>3, <1>4, <1>5, <1>6, <2>1, ReleaseOwns DEF Kept, TypeOK, DeviceTypeOK
<1>8. CASE ~busy.move
  BY <1>4, <1>5, <1>6, <1>8, SameOwns DEF FetchReturns, Kept, TypeOK, DeviceTypeOK
<1> QED
  BY <1>7, <1>8

(* A read that is refused; an element is assigned; the host copy goes.     *)
LEMMA OnHostKept ==
  ASSUME Kept, NEW a \in Arrays,
         FetchFails(a) \/ DeleteFromHost(a) \/ (\E v \in Val : Assign(a, v))
  PROVE  Kept'
<1>1. /\ UNCHANGED <<deviceVars, kernelVars, busy, arrayOnDevice, arrayBuffer>>
      /\ busy = Idle
  BY DEF FetchFails, DeleteFromHost, Assign, Free, places
<1>2. arrayOnDevice[a] => Intended(a) \in Data
  BY DEF Intended, Kept, TypeOK, DeviceTypeOK
<1>3. a \in Hosts /\ host[a] \in Data /\ Junk \in Data /\ Val \subseteq Data
  BY ArrayAssumption DEF Data, Kept, TypeOK, DeviceTypeOK
<1>4. /\ host' \in [Hosts -> Data]
      /\ arrayOnHost' \in [Arrays -> BOOLEAN]
      /\ content' \in [Arrays -> Data]
  BY <1>2, <1>3
  DEF FetchFails, DeleteFromHost, Assign, Hold, OnHost, places, Kept, TypeOK, DeviceTypeOK
<1>5. DeviceTypeOK'
  BY <1>1, <1>4 DEF deviceVars, Kept, TypeOK, DeviceTypeOK
<1> QED
  BY <1>1, <1>4, <1>5, SameOwns, SameKernels, IdleStays DEF deviceVars, Kept, TypeOK

(* The device copy goes, and with a destructor the host copy too.          *)
LEMMA OffDeviceKept ==
  ASSUME Kept, NEW a \in Arrays, ArrayDeleteFromDevice(a) \/ DestroyArray(a)
  PROVE  Kept'
<1>1. /\ UNCHANGED <<host, mem, pending, intended, kernelVars, busy, arrayBuffer>>
      /\ busy = Idle
  BY DEF ArrayDeleteFromDevice, DestroyArray, Free
<1>2. a \in Hosts /\ host[a] \in Data /\ Junk \in Data
  BY ArrayAssumption DEF Data, Kept, TypeOK, DeviceTypeOK
<1>3. arrayOnHost' \in [Arrays -> BOOLEAN] /\ content' \in [Arrays -> Data]
  BY <1>2 DEF ArrayDeleteFromDevice, DestroyArray, Hold, OnHost, Kept, TypeOK
<1>4. KernelTypeOK' /\ NoTemporaries' /\ busy' \in HostState \cup ArrayState /\ FetchedBoth'
  BY <1>1, SameKernels, IdleStays
<1>5. CASE arrayOnDevice[a]
  <2>1. Release(a)
    BY <1>5 DEF ArrayDeleteFromDevice, DestroyArray, Release
  <2> QED
    BY <1>1, <1>3, <1>4, <1>5, <2>1, ReleaseOwns DEF Kept, TypeOK, DeviceTypeOK
<1>6. CASE ~arrayOnDevice[a]
  <2>1. UNCHANGED <<live, arrayOnDevice>>
    BY <1>6 DEF ArrayDeleteFromDevice, DestroyArray, OnDevice, Kept, TypeOK
  <2> QED
    BY <1>1, <1>3, <1>4, <2>1, SameOwns DEF Kept, TypeOK, DeviceTypeOK
<1> QED
  BY <1>5, <1>6

(* A kernel takes an array to read it, or to read and write it.            *)
LEMMA InputTakenKept ==
  ASSUME Kept, NEW a \in Arrays, NEW k \in Kernels, NEW use \in {"in", "inout"},
         InputTaken(k, use, a)
  PROVE  Kept'
<1>1. /\ UNCHANGED <<host, pending, buffers, outputs, wrappersToDirty, busy, content>>
      /\ Passing(k) /\ busy = Idle /\ Taken(a)
  BY DEF InputTaken, Passing
<1>2. host[a] \in Data
  BY ArrayAssumption DEF Kept, TypeOK, DeviceTypeOK
<1>3. arrayOnHost' \in [Arrays -> BOOLEAN]
  BY <1>1 DEF Taken, OnHost, Kept, TypeOK
<1>4. NoTemporaries' /\ busy' \in HostState \cup ArrayState /\ FetchedBoth'
  BY <1>1, IdleStays DEF Kept, NoTemporaries
<1>5. CASE arrayOnDevice[a] /\ Pass(k, use, arrayBuffer[a])
           /\ UNCHANGED <<mem, live, intended, arrayOnDevice, arrayBuffer>>
  <2>1. arrayBuffer[a] \in Buffers
    BY <1>5 DEF Kept, TypeOK, DeviceTypeOK
  <2>2. KernelTypeOK'
    BY <1>1, <1>5, <2>1, PassType DEF Kept, TypeOK
  <2> QED
    BY <1>1, <1>3, <1>4, <1>5, <2>2, SameOwns DEF Kept, TypeOK, DeviceTypeOK
<1>6. ASSUME ~arrayOnDevice[a], NEW b \in FreeBuffers, Allocate(a, b, host[a]), Pass(k, use, b)
      PROVE  Kept'
  <2>1. KernelTypeOK'
    BY <1>1, <1>6, PassType DEF FreeBuffers, Kept, TypeOK
  <2> QED
    BY <1>1, <1>2, <1>3, <1>4, <1>6, <2>1, AllocateOwns DEF Kept, TypeOK, DeviceTypeOK
<1> QED
  BY <1>5, <1>6 DEF InputTaken

(* A kernel takes an array to write it.                                    *)
LEMMA OutputTakenKept ==
  ASSUME Kept, NEW a \in Arrays, NEW k \in Kernels, OutputTaken(k, a)
  PROVE  Kept'
<1>1. /\ UNCHANGED <<host, pending, buffers, outputs, wrappersToDirty, busy>>
      /\ Passing(k) /\ busy = Idle /\ Taken(a)
  BY DEF OutputTaken, Passing
<1>2. Junk \in Data /\ (arrayOnDevice[a] => Intended(a) \in Data)
  BY DEF Data, Intended, Kept, TypeOK, DeviceTypeOK
<1>3. arrayOnHost' \in [Arrays -> BOOLEAN] /\ content' \in [Arrays -> Data]
  BY <1>1, <1>2 DEF OutputTaken, Taken, OnHost, Hold, Kept, TypeOK
<1>4. NoTemporaries' /\ busy' \in HostState \cup ArrayState /\ FetchedBoth'
  BY <1>1, IdleStays DEF Kept, NoTemporaries
<1>5. CASE arrayOnDevice[a] /\ Pass(k, "out", arrayBuffer[a])
           /\ UNCHANGED <<mem, live, intended, arrayOnDevice, arrayBuffer>>
  <2>1. arrayBuffer[a] \in Buffers
    BY <1>5 DEF Kept, TypeOK, DeviceTypeOK
  <2>2. KernelTypeOK'
    BY <1>1, <1>5, <2>1, PassType DEF Kept, TypeOK
  <2> QED
    BY <1>1, <1>3, <1>4, <1>5, <2>2, SameOwns DEF Kept, TypeOK, DeviceTypeOK
<1>6. ASSUME ~arrayOnDevice[a], NEW b \in FreeBuffers, Allocate(a, b, Junk), Pass(k, "out", b)
      PROVE  Kept'
  <2>1. KernelTypeOK'
    BY <1>1, <1>6, PassType DEF FreeBuffers, Kept, TypeOK
  <2> QED
    BY <1>1, <1>2, <1>3, <1>4, <1>6, <2>1, AllocateOwns DEF Kept, TypeOK, DeviceTypeOK
<1> QED
  BY <1>5, <1>6 DEF OutputTaken

(* The buffers a kernel's parameters name.                                 *)
LEMMA NamedBuffers ==
  ASSUME KernelTypeOK, NEW k \in Kernels
  PROVE  ReadBy(k) \subseteq Buffers /\ WrittenBy(k) \subseteq Buffers
<1>1. arg[k] \in [ArgPositions(k) -> Param]
  BY DEF KernelTypeOK
<1> QED
  BY <1>1 DEF ReadBy, WrittenBy, PassedAs, Param

(* What run() enqueues.                                                    *)
Launch(k, v) == Compute({<<b, intended[b]>> : b \in ReadBy(k)}, WrittenBy(k), v)

LEMMA RunEnqueues ==
  ASSUME TypeOK, NEW k \in Kernels, NEW q \in Queues, NEW fast_read \in BOOLEAN,
         ArrayRun(k, q, fast_read)
  PROVE  \E v \in Data :
           /\ Launch(k, v) \in Command
           /\ Enqueue(q, <<Launch(k, v)>>)
           /\ Intend(WrittenBy(k), v)
           /\ busy' \in HostState /\ busy'.op = "run" /\ busy'.val = v
<1>1. PICK v \in Results(k) :
        /\ Enqueue(q, <<Launch(k, v)>>)
        /\ Intend(WrittenBy(k), v)
        /\ busy' = [op |-> "run", k |-> k, q |-> q, val |-> v,
                    fast |-> fast_read /\ outputs[k] # <<>>, next |-> 1, refused |-> {}]
  BY DEF ArrayRun, Run, Launch
<1>2. v \in Data
  BY <1>1 DEF Results, Data
<1>3. {<<b, intended[b]>> : b \in ReadBy(k)} \in SUBSET (Buffers \X Data)
  BY NamedBuffers DEF TypeOK, DeviceTypeOK
<1>4. Launch(k, v) \in Command
  BY <1>2, <1>3, NamedBuffers DEF Launch, Compute, Command, TypeOK
<1>5. (fast_read /\ outputs[k] # <<>>) \in BOOLEAN
  OBVIOUS
<1>6. busy' \in HostState
  BY <1>1, <1>2, <1>5 DEF HostState
<1> QED
  BY <1>1, <1>2, <1>4, <1>6

LEMMA ArrayRunKept ==
  ASSUME Kept, NEW k \in Kernels, NEW q \in Queues, NEW fast_read \in BOOLEAN,
         ArrayRun(k, q, fast_read)
  PROVE  Kept'
<1>1. PICK v \in Data : /\ Launch(k, v) \in Command
                        /\ Enqueue(q, <<Launch(k, v)>>)
                        /\ Intend(WrittenBy(k), v)
                        /\ busy' \in HostState /\ busy'.op = "run" /\ busy'.val = v
  BY RunEnqueues DEF Kept
<1>2. pending' \in [Queues -> Seq(Command)] /\ intended' \in [Buffers -> Data]
  BY <1>1, OneCommand, EnqueueType, IntendType DEF Kept, TypeOK, DeviceTypeOK
<1>3. UNCHANGED <<host, mem, live, kernelVars, places>>
  BY DEF ArrayRun, Run
<1>4. content' \in [Arrays -> Data]
  BY <1>1 DEF ArrayRun, Kept, TypeOK
<1>5. KernelTypeOK' /\ NoTemporaries'
  BY <1>3, SameKernels
<1>6. FetchedBoth'
  BY <1>1 DEF FetchedBoth
<1> QED
  BY <1>1, <1>2, <1>3, <1>4, <1>5, <1>6, SameOwns DEF places, Kept, TypeOK, DeviceTypeOK

(* The end of a run: there is nothing to release.                          *)
LEMMA RunReturnsKept ==
  ASSUME Kept, RunReturns, UNCHANGED arrayVars
  PROVE  Kept'
<1>1. busy.k \in Kernels
  BY DEF RunReturns, Kept, TypeOK, HostState, ArrayState
<1>2. live' = live /\ UNCHANGED <<host, mem, pending, intended, arg>>
  BY <1>1 DEF RunReturns, ReleaseBuffers, Kept, NoTemporaries
<1>3. <<>> \in Seq(Output)
  OBVIOUS
<1>4. KernelTypeOK'
  BY <1>1, <1>2, <1>3, KernelAssumption
  DEF RunReturns, ForgetParameters, Kept, TypeOK, KernelTypeOK
<1>5. NoTemporaries'
  BY <1>1 DEF RunReturns, ForgetParameters, Kept, TypeOK, KernelTypeOK, NoTemporaries
<1>6. busy' \in HostState \cup ArrayState /\ FetchedBoth'
  BY DEF RunReturns, Idle, HostState, FetchedBoth
<1> QED
  BY <1>2, <1>4, <1>5, <1>6, SameOwns DEF arrayVars, places, Kept, TypeOK, DeviceTypeOK

(* The device executes a command.                                          *)
LEMMA ExecuteKept ==
  ASSUME Kept, NEW q \in Queues, Execute(q), UNCHANGED <<kernelVars, busy, arrayVars>>
  PROVE  Kept'
<1>1. DeviceTypeOK' /\ live' = live
  BY ExecuteType DEF Execute, Kept, TypeOK
<1> QED
  BY <1>1, SameOwns, SameKernels DEF arrayVars, places, Kept, TypeOK, FetchedBoth

-----------------------------------------------------------------------------
(* There are no arrays anywhere at first.                                  *)
LEMMA InitKept == Init => Kept
<1> SUFFICES ASSUME Init PROVE Kept
  OBVIOUS
<1>1. DeviceTypeOK
  BY DEF Init, DeviceInit, DeviceTypeOK, Data
<1>2. KernelTypeOK
  BY KernelAssumption DEF Init, KernelInit, KernelTypeOK, Param
<1>3. busy \in HostState \cup ArrayState /\ FetchedBoth /\ NoTemporaries
  BY DEF Init, WrapperInit, KernelInit, Idle, HostState, FetchedBoth, NoTemporaries
<1> QED
  BY <1>1, <1>2, <1>3 DEF Init, DeviceInit, Kept, TypeOK, ArraysOwnBuffers, Data

(* What is done with an array keeps all this.                              *)
LEMMA ArrayStepKept ==
  ASSUME Kept, NEW a \in Arrays, ArrayStep(a)
  PROVE  Kept'
<1>1. CASE CreateOnHost(a)
  BY <1>1, CreateOnHostKept
<1>2. CASE ArrayCreateOnDevice(a)
  BY <1>2, ArrayCreateOnDeviceKept
<1>3. ASSUME NEW move \in BOOLEAN, Fetch(a, move), UNCHANGED content
      PROVE  Kept'
  BY <1>3, FetchKept DEF Kept, TypeOK
<1>4. ASSUME NEW move \in BOOLEAN, ArrayToHost(a, move)
      PROVE  Kept'
  <2>1. Intended(a) \in Data
    BY <1>4 DEF ArrayToHost, Fetch, Intended, Kept, TypeOK, DeviceTypeOK
  <2>2. content' \in [Arrays -> Data]
    BY <1>4, <2>1 DEF ArrayToHost, Hold, Kept, TypeOK
  <2> QED
    BY <1>4, <2>2, FetchKept DEF ArrayToHost
<1>5. CASE Index(a)
  <2>1. MovesOnAccess(a) \in BOOLEAN
    BY DEF MovesOnAccess
  <2> QED
    BY <1>1, <1>3, <1>5, <2>1 DEF Index
<1>6. CASE FetchFails(a) \/ DeleteFromHost(a) \/ \E v \in Val : Assign(a, v)
  BY <1>6, OnHostKept
<1>7. CASE ArrayDeleteFromDevice(a) \/ DestroyArray(a)
  BY <1>7, OffDeviceKept
<1>8. ASSUME NEW move \in BOOLEAN, ArrayToDevice(a, move)
      PROVE  Kept'
  BY <1>8, ArrayToDeviceKept
<1>9. ASSUME NEW k \in Kernels,
             OutputTaken(k, a) \/ \E use \in {"in", "inout"} : InputTaken(k, use, a)
      PROVE  Kept'
  BY <1>9, InputTakenKept, OutputTakenKept
<1> QED
  BY <1>1, <1>2, <1>4, <1>5, <1>6, <1>7, <1>8, <1>9 DEF ArrayStep

(* Every step does.                                                        *)
LEMMA NextKept ==
  ASSUME Kept, [Next]_<<vars, arrayVars>>
  PROVE  Kept'
<1>1. ASSUME NEW a \in Arrays, ArrayStep(a) PROVE Kept'
  BY <1>1, ArrayStepKept
<1>2. ASSUME NEW k \in Kernels, NEW q \in Queues, NEW fast_read \in BOOLEAN,
             ArrayRun(k, q, fast_read)
      PROVE  Kept'
  BY <1>2, ArrayRunKept
<1>3. CASE FetchReturns
  BY <1>3, FetchReturnsKept
<1>4. CASE RunReturns /\ UNCHANGED arrayVars
  BY <1>4, RunReturnsKept
<1>5. ASSUME NEW q \in Queues, Execute(q), UNCHANGED <<kernelVars, busy, arrayVars>>
      PROVE  Kept'
  BY <1>5, ExecuteKept
<1>6. CASE UNCHANGED <<vars, arrayVars>>
  BY <1>6, SameOwns, SameKernels
  DEF vars, deviceVars, arrayVars, places, Kept, TypeOK, DeviceTypeOK, FetchedBoth
<1> QED
  BY <1>1, <1>2, <1>3, <1>4, <1>5, <1>6 DEF Next

LEMMA KeptCorrect == Spec => []Kept
<1>1. Init => Kept
  BY InitKept
<1>2. Kept /\ [Next]_<<vars, arrayVars>> => Kept'
  BY NextKept
<1> QED
  BY <1>1, <1>2, PTL DEF Spec

(* The arrays' flags, buffers and queues are always well formed; an array  *)
(* that says it is on the device has a buffer that exists                  *)
(* (CLArray::onDevice, devicearray).                                       *)
THEOREM ArraysWellFormed == Spec => []TypeOK
<1>1. Kept => TypeOK
  BY DEF Kept
<1> QED
  BY <1>1, KeptCorrect, PTL

(* Whatever the client does with its arrays, through kernels or by hand,   *)
(* each buffer belongs to the one array that will release it and none      *)
(* leaks.                                                                  *)
THEOREM ArraysKeepBuffers == Spec => []ArraysOwnBuffers
<1>1. Kept => ArraysOwnBuffers
  BY DEF Kept
<1> QED
  BY <1>1, KeptCorrect, PTL

-----------------------------------------------------------------------------
(* From here on all kernels that take arrays run on one queue.             *)
OneQueue == Rule("defaultQueue") \/ Queues \subseteq {DefaultQueue}

DefaultUse == \A q \in Queues \ {DefaultQueue} : Used(q) = {}

(* Nothing is written to the device by a command, and what is read is the  *)
(* array being fetched.                                                    *)
OnlyFetches ==
  \A q \in Queues : \A c \in Commands(q) :
    /\ c.op # "write"
    /\ c.op = "read" => q = DefaultQueue /\ busy.op = "fetch" /\ c.array = busy.a

(* The read of that array is last in its queue, or has been executed.      *)
FetchUnderWay ==
  busy.op = "fetch" =>
    \/ pending[DefaultQueue] = <<>> /\ host[busy.a] = Intended(busy.a)
    \/ /\ pending[DefaultQueue] # <<>>
       /\ pending[DefaultQueue][Len(pending[DefaultQueue])] = Read(arrayBuffer[busy.a], busy.a)

InSequence == Ordered /\ DefaultUse /\ OnlyFetches /\ FetchUnderWay

(* The queues stay; what changes is a buffer they do not use.              *)
LEMMA QuietSequence ==
  ASSUME Kept, InSequence, UNCHANGED pending, busy.op # "fetch", busy'.op # "fetch",
         \A b \in Buffers : \/ mem'[b] = mem[b] /\ intended'[b] = intended[b]
                            \/ b \notin InFlight /\ mem'[b] = intended'[b]
  PROVE  InSequence'
<1>1. \A q \in Queues : Commands(q)' = Commands(q) /\ Used(q)' = Used(q)
  BY DEF Commands, Used
<1>2. Ordered'
  BY QuietOrdered DEF Kept, TypeOK, InSequence, OnlyFetches
<1> QED
  BY <1>1, <1>2 DEF InSequence, DefaultUse, OnlyFetches, FetchUnderWay

(* A new buffer is one they do not use.                                    *)
LEMMA AllocateSequence ==
  ASSUME Kept, InSequence, NEW a, NEW b \in FreeBuffers, NEW v, Allocate(a, b, v),
         busy = Idle, UNCHANGED <<pending, busy>>
  PROVE  InSequence'
<1>1. /\ b \in Buffers /\ b \notin InFlight
      /\ mem' = [mem EXCEPT ![b] = v]
      /\ intended' = [c \in Buffers |-> IF c \in {b} THEN v ELSE intended[c]]
      /\ mem \in [Buffers -> Data]
  BY DEF Allocate, Create, Intend, FreeBuffers, Kept, TypeOK, DeviceTypeOK
<1> QED
  BY <1>1, QuietSequence DEF Idle

(* Nothing happens to the buffers.                                         *)
LEMMA SameSequence ==
  ASSUME Kept, InSequence, UNCHANGED <<pending, mem, intended>>,
         busy.op # "fetch", busy'.op # "fetch"
  PROVE  InSequence'
BY QuietSequence

(* A read is enqueued.                                                     *)
LEMMA FetchSequence ==
  ASSUME Kept, InSequence, NEW a \in Arrays, NEW move, Fetch(a, move)
  PROVE  InSequence'
<1>1. PICK c : c = Read(arrayBuffer[a], a)
  OBVIOUS
<1>2. a \in Hosts /\ arrayBuffer[a] \in Buffers
  BY ArrayAssumption DEF Fetch, Kept, TypeOK, DeviceTypeOK
<1>3. /\ c \in Command /\ c.op = "read"
      /\ Writes(c) = {} /\ Uses(c) = {arrayBuffer[a]} /\ c.array = a
  BY <1>1, <1>2 DEF Read, Command, Writes, Uses
<1>4. /\ Enqueue(DefaultQueue, <<c>>)
      /\ UNCHANGED <<mem, intended, arrayBuffer>>
      /\ DefaultQueue \in Queues
      /\ busy.op = "idle"
      /\ busy'.op = "fetch" /\ busy'.a = a
  BY <1>1, DeviceAssumption DEF Fetch, Free, Idle
<1>5. Ordered'
  BY <1>3, <1>4, EnqueueKeeping
  DEF Kept, TypeOK, InSequence, DefaultUse, OnlyFetches
<1>6. /\ Commands(DefaultQueue)' = Commands(DefaultQueue) \cup {c}
      /\ \A p \in Queues \ {DefaultQueue} : Commands(p)' = Commands(p) /\ Used(p)' = Used(p)
      /\ Len(pending'[DefaultQueue]) = Len(pending[DefaultQueue]) + 1
      /\ Len(pending[DefaultQueue]) \in Nat
      /\ pending'[DefaultQueue][Len(pending[DefaultQueue]) + 1] = c
  BY <1>3, <1>4, EnqueueElements DEF Kept, TypeOK
<1>7. DefaultUse' /\ OnlyFetches'
  BY <1>3, <1>4, <1>6 DEF InSequence, DefaultUse, OnlyFetches
<1>8. FetchUnderWay'
  <2>1. pending'[DefaultQueue] # <<>>
    BY <1>6
  <2> QED
    BY <1>1, <1>4, <1>6, <2>1 DEF FetchUnderWay
<1> QED
  BY <1>5, <1>7, <1>8 DEF InSequence

(* A kernel is enqueued.                                                   *)
LEMMA ArrayRunSequence ==
  ASSUME OneQueue, Kept, InSequence, NEW k \in Kernels, NEW q \in Queues,
         NEW fast_read \in BOOLEAN, ArrayRun(k, q, fast_read)
  PROVE  InSequence'
<1>1. PICK v \in Data : /\ Launch(k, v) \in Command
                        /\ Enqueue(q, <<Launch(k, v)>>)
                        /\ Intend(WrittenBy(k), v)
                        /\ busy'.op = "run"
  BY RunEnqueues DEF Kept
<1>2. PICK c : c = Launch(k, v)
  OBVIOUS
<1>3. /\ c \in Command /\ c.op = "compute" /\ c.val = v
      /\ Writes(c) = WrittenBy(k) /\ Uses(c) = WrittenBy(k) \cup ReadBy(k)
      /\ \A r \in c.reads : r[2] = intended[r[1]]
  <2>1. /\ c.op = "compute" /\ c.val = v /\ c.writes = WrittenBy(k)
        /\ c.reads = {<<b, intended[b]>> : b \in ReadBy(k)}
    BY <1>2 DEF Launch, Compute
  <2>2. \A r \in c.reads : r[1] \in ReadBy(k) /\ r[2] = intended[r[1]]
    BY <2>1
  <2>3. ASSUME NEW b \in ReadBy(k) PROVE \E r \in c.reads : r[1] = b
    <3>1. <<b, intended[b]>> \in c.reads
      BY <2>1
    <3> QED
      BY <3>1
  <2>4. {r[1] : r \in c.reads} = ReadBy(k)
    BY <2>2, <2>3
  <2> QED
    BY <1>1, <1>2, <2>1, <2>2, <2>4 DEF Writes, Uses
<1>4. q # DefaultQueue => Uses(c) = {}
  BY <1>3 DEF OneQueue, ArrayRun, Run, Kept, NoTemporaries
<1>5. UNCHANGED <<host, mem>> /\ busy.op = "idle"
  BY DEF ArrayRun, Run, Idle
<1>6. \A b \in Buffers : intended'[b] = IF b \in Writes(c) THEN Leaves(c) ELSE intended[b]
  BY <1>1, <1>3 DEF Intend, Leaves
<1>7. \A p \in Queues \ {q} : Uses(c) \cap Used(p) = {}
  BY <1>4 DEF InSequence, DefaultUse
<1>8. Ordered'
  BY <1>1, <1>2, <1>3, <1>5, <1>6, <1>7, EnqueueOrdered DEF Kept, TypeOK, InSequence
<1>9. /\ Commands(q)' = Commands(q) \cup {c}
      /\ \A p \in Queues \ {q} : Commands(p)' = Commands(p) /\ Used(p)' = Used(p)
      /\ Used(q)' = Used(q) \cup Uses(c)
  BY <1>1, <1>2, EnqueueElements DEF Kept, TypeOK
<1>10. DefaultUse'
  BY <1>4, <1>9 DEF InSequence, DefaultUse
<1>11. OnlyFetches'
  BY <1>3, <1>5, <1>9 DEF InSequence, OnlyFetches
<1> QED
  BY <1>1, <1>8, <1>10, <1>11 DEF InSequence, FetchUnderWay

(* The read is done; nothing is left on the queue.                         *)
LEMMA FetchReturnsSequence ==
  ASSUME Kept, InSequence, FetchReturns
  PROVE  InSequence'
<1>1. /\ UNCHANGED <<mem, pending, intended>>
      /\ pending[DefaultQueue] = <<>>
      /\ busy'.op = "idle"
  BY DEF FetchReturns, Idle
<1>2. \A q \in Queues : Commands(q)' = Commands(q) /\ Used(q)' = Used(q)
  BY <1>1 DEF Commands, Used
<1>3. Ordered'
  BY <1>1, QuietOrdered DEF Kept, TypeOK, InSequence, OnlyFetches
<1>4. Commands(DefaultQueue) = {}
  BY <1>1 DEF Commands
<1> QED
  BY <1>1, <1>2, <1>3, <1>4 DEF InSequence, DefaultUse, OnlyFetches, FetchUnderWay

(* The device executes a command.  When it is the read of the array that   *)
(* is being fetched nothing else is on its way into the buffer.            *)
LEMMA ExecuteSequence ==
  ASSUME Kept, InSequence, NEW q \in Queues, Execute(q), UNCHANGED <<busy, arrayVars>>
  PROVE  InSequence'
<1>1. Ordered'
  BY ExecuteOrdered DEF Kept, TypeOK, InSequence, OnlyFetches
<1>2. DefaultUse'
  BY ExecuteElements DEF Kept, TypeOK, InSequence, DefaultUse
<1>3. OnlyFetches'
  BY ExecuteElements DEF Kept, TypeOK, InSequence, OnlyFetches
<1>4. ASSUME busy.op = "fetch" PROVE FetchUnderWay'
  <2>1. PICK a \in Arrays : a = busy.a
    BY <1>4 DEF Kept, TypeOK, HostState, ArrayState
  <2>2. PICK b \in Buffers : b = arrayBuffer[a]
    BY <1>4, <2>1 DEF Kept, FetchedBoth, TypeOK, DeviceTypeOK
  <2>3. UNCHANGED <<busy, arrayBuffer, intended>>
    BY DEF arrayVars, places, Execute
  <2>4. a \in Hosts /\ host \in [Hosts -> Data]
    BY ArrayAssumption DEF Kept, TypeOK, DeviceTypeOK
  <2>5. CASE q # DefaultQueue
    <3>1. PICK c \in Command : c = Head(pending[q]) /\ c \in Commands(q)
      BY ExecuteElements DEF Commands, Kept, TypeOK
    <3>2. c.op = "compute"
      BY <2>5, <3>1 DEF InSequence, OnlyFetches, Command
    <3>3. host' = host /\ pending'[DefaultQueue] = pending[DefaultQueue]
      BY <2>5, <3>1, <3>2, ExecuteElements, DeviceAssumption DEF Execute, Kept, TypeOK
    <3> QED
      BY <1>4, <2>1, <2>3, <3>3 DEF InSequence, FetchUnderWay, Intended
  <2>6. CASE q = DefaultQueue
    <3>1. PICK n \in Nat \ {0} :
            /\ n = Len(pending[q])
            /\ pending[q] # <<>>
            /\ DOMAIN pending[q] = 1 .. n
            /\ Len(pending'[q]) = n - 1
            /\ \A i \in 1 .. n - 1 : pending'[q][i] = pending[q][i + 1]
            /\ Head(pending[q]) = pending[q][1]
            /\ pending'[q] \in Seq(Command)
      BY ExecuteElements, ExecuteType DEF Kept, TypeOK, DeviceTypeOK, Execute
    <3>2. pending[q][n] = Read(b, a)
      BY <1>4, <2>1, <2>2, <2>6, <3>1 DEF InSequence, FetchUnderWay
    <3>3. CASE n > 1
      <4>1. n - 1 \in 1 .. n - 1 /\ (n - 1) + 1 = n
        BY <3>3
      <4>2. pending'[q][n - 1] = Read(b, a) /\ pending'[q] # <<>>
        BY <3>1, <3>2, <3>3, <4>1
      <4> QED
        BY <1>4, <2>1, <2>2, <2>3, <2>6, <3>1, <4>2 DEF FetchUnderWay
    <3>4. CASE n = 1
      <4>1. \A i \in DOMAIN pending[q] : ~Writer(q, i, b)
        BY <3>1, <3>2, <3>4 DEF Writer, Writes, Read
      <4>2. \A p \in Queues \ {q} : \A i \in DOMAIN pending[p] : ~Writer(p, i, b)
        BY <2>6, WriterUses DEF InSequence, DefaultUse
      <4>3. Finds(q, Len(pending[q]) + 1, b, intended[b])
        BY <4>2 DEF InSequence, Ordered, Settled
      <4>4. mem[b] = intended[b]
        BY <4>1, <4>3 DEF Finds
      <4>5. host' = [host EXCEPT ![a] = mem[b]]
        BY <3>1, <3>2, <3>4 DEF Execute, Read
      <4>6. host'[a] = intended[b] /\ pending'[q] = <<>>
        BY <2>4, <3>1, <3>4, <4>4, <4>5
      <4> QED
        BY <1>4, <2>1, <2>2, <2>3, <2>6, <4>6 DEF FetchUnderWay, Intended
    <3> QED
      BY <3>3, <3>4
  <2> QED
    BY <2>5, <2>6
<1>5. busy.op # "fetch" => FetchUnderWay'
  BY DEF FetchUnderWay
<1> QED
  BY <1>1, <1>2, <1>3, <1>4, <1>5 DEF InSequence

-----------------------------------------------------------------------------
(* The arrays left to EasyCL.                                              *)
Fetching(a) == busy.op = "fetch" /\ busy.a = a

(* Such an array is in one place; there it holds what it should.           *)
CurrentAt(a) ==
  /\ arrayOnHost[a] /\ arrayOnDevice[a] => Fetching(a)
  /\ arrayOnHost[a] /\ content[a] \in Val /\ ~Fetching(a) => host[a] = content[a]
  /\ arrayOnDevice[a] /\ content[a] \in Val => Intended(a) = content[a]

(* It is moved to the host, not copied.                                    *)
FetchMoves == busy.op = "fetch" /\ busy.a \in Managed => busy.move

Current == FetchMoves /\ \A a \in Managed : CurrentAt(a)

(* An array that nothing happened to stays current.                        *)
LEMMA OtherCurrent ==
  ASSUME NEW c \in Managed, CurrentAt(c),
         arrayOnHost'[c] = arrayOnHost[c], arrayOnDevice'[c] = arrayOnDevice[c],
         content'[c] = content[c],
         arrayOnHost[c] => host'[c] = host[c],
         arrayOnDevice[c] => Intended(c)' = Intended(c),
         Fetching(c)' <=> Fetching(c)
  PROVE  CurrentAt(c)'
BY DEF CurrentAt

(* What the client does with one array, between calls, leaves the others   *)
(* as they are.                                                            *)
OnlyOn(a) == \A c \in Arrays \ {a} :
  /\ arrayOnHost'[c] = arrayOnHost[c] /\ arrayOnDevice'[c] = arrayOnDevice[c]
  /\ content'[c] = content[c] /\ host'[c] = host[c]
  /\ arrayOnDevice[c] => Intended(c)' = Intended(c)

LEMMA OnlyOnCurrent ==
  ASSUME Current, NEW a \in Arrays, OnlyOn(a), busy = Idle,
         busy'.op # "fetch" \/ busy'.a = a, FetchMoves',
         a \in Managed => CurrentAt(a)'
  PROVE  Current'
<1>1. ASSUME NEW c \in Managed, c # a PROVE CurrentAt(c)'
  <2>1. c \in Arrays /\ ~Fetching(c) /\ ~Fetching(c)'
    BY <1>1, ArrayAssumption DEF Idle, Fetching
  <2> QED
    BY <1>1, <2>1, OtherCurrent DEF Current, OnlyOn
<1> QED
  BY <1>1 DEF Current

(* A new buffer is no other array's.                                       *)
LEMMA AllocateOnly ==
  ASSUME Kept, NEW a \in Arrays, NEW b \in FreeBuffers, NEW v, Allocate(a, b, v)
  PROVE  /\ \A c \in Arrays \ {a} : /\ arrayOnDevice'[c] = arrayOnDevice[c]
                                    /\ arrayOnDevice[c] => Intended(c)' = Intended(c)
         /\ arrayOnDevice'[a] /\ Intended(a)' = v
<1>1. /\ b \in Buffers /\ b \notin live
      /\ intended' = [c \in Buffers |-> IF c \in {b} THEN v ELSE intended[c]]
      /\ arrayBuffer' = [arrayBuffer EXCEPT ![a] = b]
      /\ arrayOnDevice' = [arrayOnDevice EXCEPT ![a] = TRUE]
  BY DEF Allocate, Create, Intend, OnDevice, FreeBuffers
<1> QED
  BY <1>1 DEF Intended, Kept, TypeOK, DeviceTypeOK

(* What is done with an array between calls and without the queues.        *)
LEMMA QuietSteps ==
  ASSUME NEW a \in Arrays,
         \/ CreateOnHost(a) \/ DestroyArray(a) \/ \E v \in Val : Assign(a, v)
         \/ FetchFails(a) \/ DeleteFromHost(a) \/ ArrayDeleteFromDevice(a)
  PROVE  /\ busy = Idle /\ busy' = busy
         /\ pending' = pending /\ mem' = mem /\ intended' = intended
         /\ arrayBuffer' = arrayBuffer
<1>1. CASE CreateOnHost(a)
  BY <1>1 DEF CreateOnHost, deviceVars
<1>2. CASE DestroyArray(a)
  BY <1>2 DEF DestroyArray, Free
<1>3. CASE \E v \in Val : Assign(a, v)
  BY <1>3 DEF Assign, deviceVars, places
<1>4. CASE FetchFails(a)
  BY <1>4 DEF FetchFails, Free, deviceVars
<1>5. CASE DeleteFromHost(a)
  BY <1>5 DEF DeleteFromHost, deviceVars
<1>6. CASE ArrayDeleteFromDevice(a)
  BY <1>6 DEF ArrayDeleteFromDevice, Free
<1> QED
  BY <1>1, <1>2, <1>3, <1>4, <1>5, <1>6

(* None of them touches another array.                                     *)
LEMMA QuietOnly ==
  ASSUME Kept, NEW a \in Arrays,
         \/ CreateOnHost(a) \/ DestroyArray(a) \/ \E v \in Val : Assign(a, v)
         \/ FetchFails(a) \/ DeleteFromHost(a) \/ ArrayDeleteFromDevice(a)
  PROVE  OnlyOn(a)
<1>1. \A c \in Arrays : Intended(c)' = Intended(c)
  BY QuietSteps DEF Intended
<1>2. a \in Hosts /\ Arrays \subseteq Hosts
  BY ArrayAssumption
<1>3. /\ arrayOnHost \in [Arrays -> BOOLEAN] /\ arrayOnDevice \in [Arrays -> BOOLEAN]
      /\ content \in [Arrays -> Data] /\ host \in [Hosts -> Data]
  BY DEF Kept, TypeOK, DeviceTypeOK
<1>4. CASE CreateOnHost(a)
  BY <1>1, <1>2, <1>3, <1>4 DEF CreateOnHost, OnHost, Hold, OnlyOn
<1>5. CASE DestroyArray(a)
  BY <1>1, <1>2, <1>3, <1>5 DEF DestroyArray, OnHost, OnDevice, Hold, OnlyOn
<1>6. CASE \E v \in Val : Assign(a, v)
  BY <1>1, <1>2, <1>3, <1>6 DEF Assign, Hold, places, OnlyOn
<1>7. CASE FetchFails(a)
  BY <1>1, <1>2, <1>3, <1>7 DEF FetchFails, OnHost, OnlyOn
<1>8. CASE DeleteFromHost(a)
  BY <1>1, <1>2, <1>3, <1>8 DEF DeleteFromHost, OnHost, Hold, OnlyOn
<1>9. CASE ArrayDeleteFromDevice(a)
  BY <1>1, <1>2, <1>3, <1>9 DEF ArrayDeleteFromDevice, Release, OnDevice, Hold, OnlyOn
<1> QED
  BY <1>4, <1>5, <1>6, <1>7, <1>8, <1>9

(* What an array left to EasyCL is not taken through.                      *)
LEMMA ByHandCurrent ==
  ASSUME Kept, Current, NEW a \in Arrays,
         \/ ArrayCreateOnDevice(a) \/ FetchFails(a) \/ DeleteFromHost(a)
         \/ ArrayDeleteFromDevice(a) \/ \E move \in BOOLEAN : ArrayToDevice(a, move)
  PROVE  Current'
<1>1. CASE ArrayCreateOnDevice(a) \/ \E move \in BOOLEAN : ArrayToDevice(a, move)
  <2>1. /\ a \notin Managed /\ busy = Idle /\ busy' = busy
        /\ host' = host /\ content' = content
        /\ \A c \in Arrays \ {a} : arrayOnHost'[c] = arrayOnHost[c]
        /\ \E b \in FreeBuffers, v \in Data \cup {host[a]} : Allocate(a, b, v)
    BY <1>1 DEF ByHand, ArrayCreateOnDevice, ArrayToDevice, OnHost, Data, Kept, TypeOK
  <2>2. OnlyOn(a)
    BY <2>1, AllocateOnly DEF OnlyOn
  <2>3. FetchMoves'
    BY <2>1 DEF Idle, FetchMoves
  <2> QED
    BY <2>1, <2>2, <2>3, OnlyOnCurrent DEF Idle
<1>2. CASE FetchFails(a) \/ DeleteFromHost(a) \/ ArrayDeleteFromDevice(a)
  <2>1. busy = Idle /\ busy' = busy /\ OnlyOn(a)
    BY <1>2, QuietSteps, QuietOnly
  <2>2. a \notin Managed
    BY <1>2 DEF ByHand, FetchFails, DeleteFromHost, ArrayDeleteFromDevice
  <2>3. FetchMoves'
    BY <2>1 DEF Idle, FetchMoves
  <2> QED
    BY <2>1, <2>2, <2>3, OnlyOnCurrent DEF Idle
<1> QED
  BY <1>1, <1>2

(* The array appears on the host; an element is assigned; the array goes.  *)
LEMMA OnHostCurrent ==
  ASSUME Kept, Current, NEW a \in Arrays,
         CreateOnHost(a) \/ DestroyArray(a) \/ \E v \in Val : Assign(a, v)
  PROVE  Current'
<1>1. /\ busy = Idle /\ busy' = busy /\ intended' = intended
      /\ arrayBuffer' = arrayBuffer /\ OnlyOn(a)
  BY QuietSteps, QuietOnly
<1>2. FetchMoves' /\ ~Fetching(a) /\ ~Fetching(a)'
  BY <1>1 DEF Idle, FetchMoves, Fetching
<1>3. ASSUME a \in Managed PROVE CurrentAt(a)'
  <2>1. CurrentAt(a) /\ a \in Hosts /\ Junk \notin Val
    BY <1>3, ArrayAssumption, DeviceAssumption DEF Current
  <2>2. CASE CreateOnHost(a)
    <3>1. ~arrayOnDevice'[a] /\ content'[a] = Junk
      BY <2>2 DEF CreateOnHost, Hold, Kept, TypeOK
    <3> QED
      BY <2>1, <3>1 DEF CurrentAt
  <2>3. CASE DestroyArray(a)
    <3>1. ~arrayOnDevice'[a] /\ content'[a] = Junk
      BY <2>3 DEF DestroyArray, OnDevice, Hold, Kept, TypeOK
    <3> QED
      BY <2>1, <3>1 DEF CurrentAt
  <2>4. CASE \E v \in Val : Assign(a, v)
    <3>1. /\ arrayOnHost[a] /\ arrayOnDevice' = arrayOnDevice
          /\ host'[a] = content'[a]
      BY <2>1, <2>4 DEF Assign, Hold, places, Kept, TypeOK, DeviceTypeOK
    <3> QED
      BY <1>2, <2>1, <3>1 DEF CurrentAt
  <2> QED
    BY <2>2, <2>3, <2>4
<1> QED
  BY <1>1, <1>2, <1>3, OnlyOnCurrent DEF Idle

(* The array is fetched, by the client or because an element is needed.    *)
LEMMA FetchCurrent ==
  ASSUME Kept, Current, NEW a \in Arrays, NEW move, Fetch(a, move),
         \A c \in Arrays \ {a} : content'[c] = content[c],
         a \in Managed => move /\ UNCHANGED content
  PROVE  Current'
<1>1. /\ busy = Idle
      /\ busy' = [op |-> "fetch", a |-> a, move |-> move]
      /\ FetchMoves'
      /\ UNCHANGED <<intended, arrayOnDevice, arrayBuffer>>
  BY DEF Fetch, Free, FetchMoves
<1>2. OnlyOn(a)
  BY <1>1, ArrayAssumption DEF Fetch, OnHost, Intended, OnlyOn, Kept, TypeOK, DeviceTypeOK
<1>3. a \in Managed => CurrentAt(a)'
  BY <1>1 DEF Current, CurrentAt, Fetching, Intended
<1> QED
  BY <1>1, <1>2, <1>3, OnlyOnCurrent

(* It has arrived.                                                         *)
LEMMA FetchReturnsCurrent ==
  ASSUME Kept, InSequence, Current, FetchReturns
  PROVE  Current'
<1>1. PICK a \in Arrays : a = busy.a
  BY DEF FetchReturns, Kept, TypeOK, HostState, ArrayState
<1>2. /\ busy.op = "fetch" /\ busy'.op = "idle"
      /\ UNCHANGED <<host, intended, arrayOnHost, arrayBuffer, content>>
      /\ pending[DefaultQueue] = <<>>
  BY DEF FetchReturns, Idle
<1>3. FetchMoves'
  BY <1>2 DEF FetchMoves
<1>4. host[a] = Intended(a)
  BY <1>1, <1>2 DEF InSequence, FetchUnderWay
<1>5. \A c \in Arrays : c # a => arrayOnDevice'[c] = arrayOnDevice[c]
  BY <1>1 DEF FetchReturns, Release, OnDevice, Kept, TypeOK
<1>6. ASSUME NEW c \in Managed, c # a PROVE CurrentAt(c)'
  <2>1. c \in Arrays /\ ~Fetching(c) /\ ~Fetching(c)'
    BY <1>1, <1>2, <1>6, ArrayAssumption DEF Fetching
  <2> QED
    BY <1>2, <1>5, <1>6, <2>1, OtherCurrent DEF Current, Intended
<1>7. ASSUME a \in Managed PROVE CurrentAt(a)'
  <2>1. busy.move /\ CurrentAt(a) /\ arrayOnDevice[a]
    BY <1>1, <1>2, <1>7 DEF Current, FetchMoves, Kept, FetchedBoth
  <2>2. ~arrayOnDevice'[a]
    BY <1>1, <2>1 DEF FetchReturns, Release, OnDevice, Kept, TypeOK
  <2> QED
    BY <1>2, <1>4, <2>1, <2>2 DEF CurrentAt
<1> QED
  BY <1>3, <1>6, <1>7 DEF Current

(* A kernel takes the array.                                               *)
LEMMA TakenCurrent ==
  ASSUME Kept, Current, NEW a \in Arrays, NEW k \in Kernels,
         OutputTaken(k, a) \/ \E use \in {"in", "inout"} : InputTaken(k, use, a)
  PROVE  Current'
<1>1. /\ busy = Idle /\ busy' = busy /\ FetchMoves'
      /\ UNCHANGED host
      /\ arrayOnHost' = [arrayOnHost EXCEPT ![a] = FALSE]
      /\ ~Fetching(a)
  BY DEF OutputTaken, InputTaken, Passing, Taken, OnHost, Idle, FetchMoves, Fetching
<1>2. CASE \E use \in {"in", "inout"} : InputTaken(k, use, a)
  <2>1. \/ arrayOnDevice[a] /\ UNCHANGED <<intended, arrayOnDevice, arrayBuffer>>
        \/ /\ arrayOnHost[a] /\ ~arrayOnDevice[a]
           /\ \E b \in FreeBuffers : Allocate(a, b, host[a])
    BY <1>2 DEF InputTaken
  <2>2. UNCHANGED content
    BY <1>2 DEF InputTaken
  <2>3. OnlyOn(a)
    BY <1>1, <2>1, <2>2, AllocateOnly DEF Intended, OnlyOn, Kept, TypeOK
  <2>4. ASSUME a \in Managed PROVE CurrentAt(a)'
    <3>1. CurrentAt(a) /\ ~arrayOnHost'[a]
      BY <1>1, <2>4 DEF Current, Kept, TypeOK
    <3> QED
      BY <1>1, <2>1, <2>2, <3>1, AllocateOnly DEF CurrentAt, Intended
  <2> QED
    BY <1>1, <2>3, <2>4, OnlyOnCurrent DEF Idle
<1>3. CASE OutputTaken(k, a)
  <2>1. \/ /\ arrayOnDevice[a] /\ UNCHANGED <<intended, arrayOnDevice, arrayBuffer>>
           /\ Hold(a, Intended(a))
        \/ /\ \E b \in FreeBuffers : Allocate(a, b, Junk)
           /\ Hold(a, Junk)
    BY <1>3 DEF OutputTaken
  <2>2. OnlyOn(a)
    BY <1>1, <2>1, AllocateOnly DEF Intended, Hold, OnlyOn, Kept, TypeOK
  <2>3. ~arrayOnHost'[a] /\ content'[a] = Intended(a)'
    BY <1>1, <2>1, AllocateOnly DEF Intended, Hold, Kept, TypeOK
  <2> QED
    BY <1>1, <2>2, <2>3, OnlyOnCurrent DEF Idle, CurrentAt
<1> QED
  BY <1>2, <1>3

(* A kernel is run: the arrays it writes are on the device.                *)
LEMMA ArrayRunCurrent ==
  ASSUME Kept, Current, NEW k \in Kernels, NEW q \in Queues, NEW fast_read \in BOOLEAN,
         ArrayRun(k, q, fast_read)
  PROVE  Current'
<1>1. PICK v \in Data : Intend(WrittenBy(k), v) /\ busy'.op = "run" /\ busy'.val = v
  BY RunEnqueues DEF Kept
<1>2. UNCHANGED <<host, places>> /\ busy = Idle
  BY DEF ArrayRun, Run
<1>3. FetchMoves'
  BY <1>1 DEF FetchMoves
<1>4. ASSUME NEW a \in Managed PROVE CurrentAt(a)'
  <2>1. a \in Arrays /\ CurrentAt(a) /\ ~Fetching(a) /\ ~Fetching(a)'
    BY <1>1, <1>2, ArrayAssumption DEF Current, Fetching, Idle
  <2>2. content'[a] = IF arrayOnDevice[a] /\ arrayBuffer[a] \in WrittenBy(k)
                      THEN v ELSE content[a]
    BY <1>1, <2>1 DEF ArrayRun
  <2>3. arrayOnDevice[a] =>
          Intended(a)' = IF arrayBuffer[a] \in WrittenBy(k) THEN v ELSE Intended(a)
    BY <1>1, <1>2, <2>1 DEF Intend, Intended, places, Kept, TypeOK, DeviceTypeOK
  <2> QED
    BY <1>2, <2>1, <2>2, <2>3 DEF CurrentAt, places
<1> QED
  BY <1>3, <1>4 DEF Current

(* It returns.                                                             *)
LEMMA RunReturnsCurrent ==
  ASSUME Current, RunReturns, UNCHANGED arrayVars
  PROVE  Current'
<1>1. /\ busy.op = "run" /\ busy'.op = "idle"
      /\ UNCHANGED <<host, intended, arrayOnHost, arrayOnDevice, arrayBuffer, content>>
  BY DEF RunReturns, Idle, arrayVars, places
<1> QED
  BY <1>1 DEF Current, CurrentAt, FetchMoves, Fetching, Intended

(* The device changes the array that is being fetched and no other.        *)
LEMMA ExecuteCurrent ==
  ASSUME Kept, InSequence, Current, NEW q \in Queues, Execute(q), UNCHANGED <<busy, arrayVars>>
  PROVE  Current'
<1>1. UNCHANGED <<busy, intended, arrayOnHost, arrayOnDevice, arrayBuffer, content>>
  BY DEF Execute, arrayVars, places
<1>2. PICK c \in Command : c = Head(pending[q]) /\ c \in Commands(q) /\ c = pending[q][1]
  BY ExecuteElements DEF Commands, Kept, TypeOK
<1>3. \A h \in Hosts : host'[h] = host[h] \/ (busy.op = "fetch" /\ h = busy.a)
  <2>1. c.op = "read" => busy.op = "fetch" /\ c.array = busy.a
    BY <1>2 DEF InSequence, OnlyFetches
  <2> QED
    BY <1>2, <2>1 DEF Execute, Kept, TypeOK, DeviceTypeOK
<1>4. ASSUME NEW a \in Managed PROVE CurrentAt(a)'
  BY <1>1, <1>3, <1>4, ArrayAssumption DEF Current, CurrentAt, Fetching, Intended
<1> QED
  BY <1>1, <1>4 DEF Current, FetchMoves

-----------------------------------------------------------------------------
(* What is done with an array keeps the queues and the arrays in order.    *)
LEMMA ArrayStepCurrent ==
  ASSUME Managed \cap IntArrays = {}, Kept, InSequence, Current,
         NEW a \in Arrays, ArrayStep(a)
  PROVE  InSequence' /\ Current'
<1>1. CASE CreateOnHost(a) \/ DestroyArray(a) \/ \E v \in Val : Assign(a, v)
  <2>1. UNCHANGED <<pending, mem, intended>> /\ busy.op = "idle" /\ busy'.op = "idle"
    BY <1>1, QuietSteps DEF Idle
  <2> QED
    BY <1>1, <2>1, SameSequence, OnHostCurrent
<1>2. CASE FetchFails(a) \/ DeleteFromHost(a) \/ ArrayDeleteFromDevice(a)
  <2>1. UNCHANGED <<pending, mem, intended>> /\ busy.op = "idle" /\ busy'.op = "idle"
    BY <1>2, QuietSteps DEF Idle
  <2> QED
    BY <1>2, <2>1, SameSequence, ByHandCurrent
<1>3. CASE ArrayCreateOnDevice(a) \/ \E move \in BOOLEAN : ArrayToDevice(a, move)
  <2>1. /\ \E b \in FreeBuffers, v \in Data \cup {host[a]} : Allocate(a, b, v)
        /\ busy = Idle /\ UNCHANGED <<pending, busy>>
    BY <1>3 DEF ArrayCreateOnDevice, ArrayToDevice, Data
  <2> QED
    BY <1>3, <2>1, AllocateSequence, ByHandCurrent
<1>4. CASE \E move \in BOOLEAN : ArrayToHost(a, move)
  <2>1. PICK move \in BOOLEAN : ArrayToHost(a, move)
    BY <1>4
  <2>2. a \notin Managed /\ Fetch(a, move) /\ \A c \in Arrays \ {a} : content'[c] = content[c]
    BY <2>1 DEF ArrayToHost, ByHand, Hold, Kept, TypeOK
  <2> QED
    BY <2>2, FetchSequence, FetchCurrent
<1>5. CASE Index(a)
  <2>1. CASE Fetch(a, MovesOnAccess(a)) /\ UNCHANGED content
    <3>1. a \in Managed => MovesOnAccess(a)
      BY DEF MovesOnAccess
    <3> QED
      BY <2>1, <3>1, FetchSequence, FetchCurrent
  <2> QED
    BY <1>1, <1>5, <2>1 DEF Index
<1>6. ASSUME NEW k \in Kernels,
             OutputTaken(k, a) \/ \E use \in {"in", "inout"} : InputTaken(k, use, a)
      PROVE  InSequence' /\ Current'
  <2>1. /\ \/ UNCHANGED <<mem, intended>>
           \/ \E b \in FreeBuffers, v \in Data \cup {host[a]} : Allocate(a, b, v)
        /\ busy = Idle /\ UNCHANGED <<pending, busy>>
    BY <1>6 DEF OutputTaken, InputTaken, Passing, Data
  <2>2. InSequence'
    BY <2>1, AllocateSequence, SameSequence DEF Idle
  <2> QED
    BY <1>6, <2>2, TakenCurrent
<1> QED
  BY <1>1, <1>2, <1>3, <1>4, <1>5, <1>6 DEF ArrayStep

(* Every step does.                                                        *)
LEMMA NextCurrent ==
  ASSUME Managed \cap IntArrays = {}, OneQueue,
         Kept, InSequence, Current, [Next]_<<vars, arrayVars>>
  PROVE  InSequence' /\ Current'
<1>1. ASSUME NEW a \in Arrays, ArrayStep(a) PROVE InSequence' /\ Current'
  BY <1>1, ArrayStepCurrent
<1>2. ASSUME NEW k \in Kernels, NEW q \in Queues, NEW fast_read \in BOOLEAN,
             ArrayRun(k, q, fast_read)
      PROVE  InSequence' /\ Current'
  BY <1>2, ArrayRunSequence, ArrayRunCurrent
<1>3. CASE FetchReturns
  BY <1>3, FetchReturnsSequence, FetchReturnsCurrent
<1>4. CASE RunReturns /\ UNCHANGED arrayVars
  <2>1. UNCHANGED <<pending, mem, intended>> /\ busy.op = "run" /\ busy'.op = "idle"
    BY <1>4 DEF RunReturns, Idle
  <2> QED
    BY <1>4, <2>1, SameSequence, RunReturnsCurrent
<1>5. ASSUME NEW q \in Queues, Execute(q), UNCHANGED <<busy, arrayVars>>
      PROVE  InSequence' /\ Current'
  BY <1>5, ExecuteSequence, ExecuteCurrent
<1>6. CASE UNCHANGED <<vars, arrayVars>>
  <2>1. UNCHANGED <<host, pending, mem, intended, busy, arrayOnHost, arrayOnDevice,
                    arrayBuffer, content>>
    BY <1>6 DEF vars, deviceVars, arrayVars, places
  <2>2. \A q \in Queues : Commands(q)' = Commands(q) /\ Used(q)' = Used(q)
    BY <2>1 DEF Commands, Used
  <2>3. Ordered'
    BY <2>1, QuietOrdered DEF Kept, TypeOK, InSequence
  <2>4. InSequence'
    BY <2>1, <2>2, <2>3 DEF InSequence, DefaultUse, OnlyFetches, FetchUnderWay, Intended
  <2>5. Current'
    BY <2>1 DEF Current, CurrentAt, FetchMoves, Fetching, Intended
  <2> QED
    BY <2>4, <2>5
<1> QED
  BY <1>1, <1>2, <1>3, <1>4, <1>5, <1>6 DEF Next

LEMMA InitCurrent == Init => InSequence /\ Current
<1> SUFFICES ASSUME Init PROVE InSequence /\ Current
  OBVIOUS
<1>1. /\ \A q \in Queues : pending[q] = <<>> /\ Commands(q) = {} /\ Used(q) = {}
      /\ \A b \in Buffers : mem[b] = Junk /\ intended[b] = Junk
      /\ busy.op = "idle"
  BY DEF Init, DeviceInit, WrapperInit, Idle, Commands, Used
<1>2. Ordered
  BY <1>1 DEF Ordered, Separate, InOrder, Settled, Finds
<1>3. InSequence
  BY <1>1, <1>2 DEF InSequence, DefaultUse, OnlyFetches, FetchUnderWay
<1>4. Current
  BY <1>1, ArrayAssumption DEF Init, Current, CurrentAt, FetchMoves
<1> QED
  BY <1>3, <1>4

LEMMA CurrentCorrect ==
  ASSUME Managed \cap IntArrays = {}, OneQueue
  PROVE  Spec => [](Kept /\ InSequence /\ Current)
<1>1. Init => InSequence /\ Current
  BY InitCurrent
<1>2. Kept /\ InSequence /\ Current /\ [Next]_<<vars, arrayVars>> => InSequence' /\ Current'
  BY NextCurrent
<1> QED
  BY <1>1, <1>2, KeptCorrect, PTL DEF Spec

(* An element of a CLArrayFloat left to EasyCL, read through operator[],   *)
(* is the one last assigned or the result of the last run that wrote the   *)
(* array (CLArrayFloat.h, operator[]), on one queue.                       *)
THEOREM ManagedElementsCurrent ==
  ASSUME Managed \cap IntArrays = {}, OneQueue
  PROVE  Spec => []ElementsCurrent
<1>1. Current => ElementsCurrent
  BY DEF Current, CurrentAt, Fetching, Idle, ElementsCurrent
<1> QED
  BY <1>1, CurrentCorrect, PTL

(* A kernel that takes such an array gets what the client put there.       *)
THEOREM ManagedReachDevice ==
  ASSUME Managed \cap IntArrays = {}, OneQueue
  PROVE  Spec => []DeviceCurrent
<1>1. Current => DeviceCurrent
  BY DEF Current, CurrentAt, DeviceCurrent
<1> QED
  BY <1>1, CurrentCorrect, PTL
=============================================================================
