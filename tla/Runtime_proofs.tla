--------------------------- MODULE Runtime_proofs ---------------------------
(***************************************************************************)
(* Theorems about EasyCLRuntime, for every set of arrays, wrappers,        *)
(* kernels, queues and buffers, every arity and every size: its types; who *)
(* owns the device buffers, which wrappers the dirty flags speak about and *)
(* which buffers the parameters name, each under the client rules it needs *)
(* and no other.                                                           *)
(***************************************************************************)
EXTENDS EasyCLRuntime, Device_proofs

(* What attaching a new buffer to a wrapper leaves well formed.            *)
LEMMA AttachType ==
  ASSUME TypeOK, NEW w \in Wrappers, NEW b \in FreeBuffers, Attach(w, b)
  PROVE  /\ mem' \in [Buffers -> Data]
         /\ live' \in SUBSET Buffers
         /\ devicearray' \in [Wrappers -> Buffers \cup {NoBuffer}]
         /\ onDevice' \in [Wrappers -> BOOLEAN]
         /\ \A u \in Wrappers : onDevice'[u] => devicearray'[u] \in Buffers
         /\ deviceDirty' \in [Wrappers -> BOOLEAN]
BY DEF Attach, Create, TypeOK, DeviceTypeOK, WrapperTypeOK, FreeBuffers, Data

-----------------------------------------------------------------------------
(* Each action keeps the state well formed.                                *)

(* The client's own writes.                                                *)
LEMMA EditType ==
  ASSUME TypeOK, NEW h \in Hosts, NEW v \in Val, Edit(h, v)
  PROVE  TypeOK'
BY DEF Edit, TypeOK, DeviceTypeOK, WrapperTypeOK, KernelTypeOK, deviceVars, kernelVars, Data

(* A buffer for a wrapper.                                                 *)
LEMMA CreateOnDeviceType ==
  ASSUME TypeOK, NEW w \in Wrappers, CreateOnDevice(w)
  PROVE  TypeOK'
<1>1. PICK b \in FreeBuffers : Attach(w, b) /\ Intend({b}, Junk)
  BY DEF CreateOnDevice
<1>2. intended' \in [Buffers -> Data]
  BY <1>1, IntendType DEF TypeOK, DeviceTypeOK, Data
<1>3. UNCHANGED <<host, pending, edited, kernelVars, busy>>
  BY DEF CreateOnDevice
<1> QED
  BY <1>1, <1>2, <1>3, AttachType
  DEF TypeOK, DeviceTypeOK, WrapperTypeOK, KernelTypeOK, kernelVars

(* The start of a write, with or without a new buffer.                     *)
LEMMA CopyToDeviceType ==
  ASSUME TypeOK, NEW w \in Wrappers, CopyToDevice(w)
  PROVE  TypeOK'
<1>1. /\ w \in Hosts /\ DefaultQueue \in Queues
      /\ host[w] \in Data
  BY WrapperAssumption, DeviceAssumption DEF TypeOK, DeviceTypeOK
<1>2. /\ busy' = [op |-> "upload", w |-> w]
      /\ UNCHANGED <<host, edited, kernelVars>>
  BY DEF CopyToDevice
<1>3. busy' \in HostState
  BY <1>2 DEF HostState
<1>4. CASE onDevice[w]
  <2>1. devicearray[w] \in Buffers
    BY <1>4 DEF TypeOK, WrapperTypeOK
  <2>2. <<Write(devicearray[w], w)>> \in Seq(Command)
    BY <2>1, <1>1, OneCommand DEF Write, Command
  <2>3. /\ Intend({devicearray[w]}, host[w])
        /\ Enqueue(DefaultQueue, <<Write(devicearray[w], w)>>)
        /\ UNCHANGED <<mem, live, devicearray, onDevice, deviceDirty>>
    BY <1>4 DEF CopyToDevice
  <2>4. pending' \in [Queues -> Seq(Command)]
    BY <2>2, <2>3, <1>1, EnqueueType DEF TypeOK, DeviceTypeOK
  <2>5. intended' \in [Buffers -> Data]
    BY <2>3, <1>1, IntendType DEF TypeOK, DeviceTypeOK
  <2> QED
    BY <2>3, <2>4, <2>5, <1>2, <1>3
    DEF TypeOK, DeviceTypeOK, WrapperTypeOK, KernelTypeOK, kernelVars
<1>5. CASE ~onDevice[w]
  <2>1. PICK b \in FreeBuffers : /\ Attach(w, b)
                                 /\ Intend({b}, host[w])
                                 /\ Enqueue(DefaultQueue, <<Write(b, w)>>)
    BY <1>5 DEF CopyToDevice
  <2>2. <<Write(b, w)>> \in Seq(Command)
    BY <1>1, OneCommand DEF Write, Command, FreeBuffers
  <2>3. pending' \in [Queues -> Seq(Command)]
    BY <2>1, <2>2, <1>1, EnqueueType DEF TypeOK, DeviceTypeOK
  <2>4. intended' \in [Buffers -> Data]
    BY <2>1, <1>1, IntendType DEF TypeOK, DeviceTypeOK
  <2> QED
    BY <2>1, <2>3, <2>4, <1>2, <1>3, AttachType
    DEF TypeOK, DeviceTypeOK, WrapperTypeOK, KernelTypeOK, kernelVars
<1> QED
  BY <1>4, <1>5

(* The start of a read.                                                    *)
LEMMA CopyToHostType ==
  ASSUME TypeOK, NEW w \in Wrappers, CopyToHost(w)
  PROVE  TypeOK'
<1>1. /\ w \in Hosts /\ DefaultQueue \in Queues /\ devicearray[w] \in Buffers
  BY WrapperAssumption, DeviceAssumption DEF TypeOK, WrapperTypeOK, CopyToHost
<1>2. <<Read(devicearray[w], w)>> \in Seq(Command)
  BY <1>1, OneCommand DEF Read, Command
<1>3. pending' \in [Queues -> Seq(Command)]
  BY <1>1, <1>2, EnqueueType DEF TypeOK, DeviceTypeOK, CopyToHost
<1>4. busy' \in HostState
  BY DEF CopyToHost, HostState
<1> QED
  BY <1>3, <1>4
  DEF CopyToHost, TypeOK, DeviceTypeOK, WrapperTypeOK, KernelTypeOK, wrapperVars, kernelVars

(* The blocking calls return.                                              *)
LEMMA TransferReturnsType ==
  ASSUME TypeOK, CopyToDeviceReturns \/ CopyToHostReturns
  PROVE  TypeOK'
<1>1. /\ deviceDirty' = [deviceDirty EXCEPT ![busy.w] = FALSE]
      /\ edited' = edited \ {busy.w}
      /\ busy' = Idle
      /\ UNCHANGED <<host, mem, live, pending, intended, devicearray, onDevice,
                     nextArg, arg, buffers, outputs, wrappersToDirty>>
  BY DEF CopyToDeviceReturns, CopyToHostReturns, deviceVars, kernelVars
<1>2. busy' \in HostState
  BY <1>1 DEF Idle, HostState
<1>3. DeviceTypeOK' /\ KernelTypeOK'
  BY <1>1 DEF TypeOK, DeviceTypeOK, KernelTypeOK
<1>4. deviceDirty' \in [Wrappers -> BOOLEAN]
  BY <1>1 DEF TypeOK, WrapperTypeOK
<1>5. edited' \in SUBSET Wrappers
  BY <1>1 DEF TypeOK, WrapperTypeOK
<1> QED
  BY <1>1, <1>2, <1>3, <1>4, <1>5 DEF TypeOK, WrapperTypeOK

LEMMA CopyToHostThrowsType ==
  ASSUME TypeOK, CopyToHostThrows
  PROVE  TypeOK'
BY DEF CopyToHostThrows, Idle, HostState, TypeOK, DeviceTypeOK, WrapperTypeOK, KernelTypeOK,
       deviceVars, wrapperVars, kernelVars

(* A wrapper leaves the device.                                            *)
LEMMA DetachType ==
  ASSUME TypeOK, NEW w \in Wrappers, DeleteFromDevice(w) \/ Destroy(w)
  PROVE  TypeOK'
<1>1. CASE DeleteFromDevice(w)
  BY <1>1 DEF DeleteFromDevice, Detach,
       TypeOK, DeviceTypeOK, WrapperTypeOK, KernelTypeOK, kernelVars
<1>2. CASE Destroy(w)
  BY <1>2 DEF Destroy, Detach,
       TypeOK, DeviceTypeOK, WrapperTypeOK, KernelTypeOK, kernelVars
<1> QED
  BY <1>1, <1>2

(* The client marks a wrapper dirty.                                       *)
LEMMA ClientMarksDirtyType ==
  ASSUME TypeOK, NEW w \in Wrappers, ClientMarksDirty(w)
  PROVE  TypeOK'
BY DEF ClientMarksDirty, MarkDeviceDirty, TypeOK, DeviceTypeOK, WrapperTypeOK,
       KernelTypeOK, deviceVars, kernelVars

(* A copy between wrappers, whatever the offsets.                          *)
LEMMA CopyToType ==
  ASSUME TypeOK, NEW s \in Wrappers, NEW t \in Wrappers,
         NEW from \in Int, NEW to \in Int, NEW count \in Int,
         CopyTo(s, t, from, to, count)
  PROVE  TypeOK'
<1> DEFINE bs == devicearray[s]
           bt == devicearray[t]
           read == IF count = Size[t] THEN {bs} ELSE {bs, bt}
           reads == {<<b, intended[b]>> : b \in read}
<1>1. bs \in Buffers /\ bt \in Buffers /\ DefaultQueue \in Queues
  BY DeviceAssumption DEF CopyTo, TypeOK, WrapperTypeOK
<1>2. PICK v \in Blends(s, t, count) :
        /\ Enqueue(DefaultQueue, <<Compute(reads, {bt}, v)>>)
        /\ Intend({bt}, v)
  BY DEF CopyTo, EnqueueCopy
<1>3. v \in Data
  <2>1. intended[bs] \in Data
    BY <1>1 DEF TypeOK, DeviceTypeOK
  <2> QED
    BY <2>1, <1>2 DEF Blends, Data
<1>4. reads \in SUBSET (Buffers \X Data)
  BY <1>1 DEF TypeOK, DeviceTypeOK
<1>5. <<Compute(reads, {bt}, v)>> \in Seq(Command)
  BY <1>1, <1>3, <1>4, OneCommand DEF Compute, Command
<1>6. pending' \in [Queues -> Seq(Command)]
  BY <1>1, <1>2, <1>5, EnqueueType DEF TypeOK, DeviceTypeOK
<1>7. intended' \in [Buffers -> Data]
  BY <1>2, <1>3, IntendType DEF TypeOK, DeviceTypeOK
<1> QED
  BY <1>6, <1>7
  DEF CopyTo, EnqueueCopy, MarkDeviceDirty, TypeOK, DeviceTypeOK, WrapperTypeOK,
      KernelTypeOK, kernelVars

(* Setting a parameter.                                                    *)
LEMMA SetArgType ==
  ASSUME TypeOK, NEW k \in Kernels, NEW use, NEW b,
         [use |-> use, buf |-> b] \in Param,
         Accepts(k), SetArg(k, use, b)
  PROVE  /\ DOMAIN arg' = Kernels
         /\ \A j \in Kernels : arg'[j] \in [ArgPositions(j) -> Param]
<1>1. arg[k] \in [ArgPositions(k) -> Param] /\ DOMAIN arg = Kernels
  BY DEF TypeOK, KernelTypeOK
<1>2. [arg[k] EXCEPT ![nextArg[k]] = [use |-> use, buf |-> b]]
        \in [ArgPositions(k) -> Param]
  BY <1>1
<1>3. arg' = [arg EXCEPT ![k] = [arg[k] EXCEPT ![nextArg[k]] = [use |-> use, buf |-> b]]]
  BY DEF SetArg
<1> QED
  BY <1>1, <1>2, <1>3 DEF TypeOK, KernelTypeOK

(* Passing stays within the bound on parameters.                           *)
LEMMA NextArgType ==
  ASSUME TypeOK, NEW k \in Kernels, Passing(k), NextArg(k)
  PROVE  nextArg' \in [Kernels -> 0 .. MaxArgs]
BY KernelAssumption DEF TypeOK, KernelTypeOK, Passing, NextArg

(* Remembering a wrapper to mark dirty.                                    *)
LEMMA ToDirtyType ==
  ASSUME TypeOK, NEW k \in Kernels, NEW w \in Wrappers, ToDirty(k, w)
  PROVE  wrappersToDirty' \in [Kernels -> SUBSET Wrappers]
BY DEF TypeOK, KernelTypeOK, ToDirty

(* A parameter that is no buffer.                                          *)
LEMMA InputValueType ==
  ASSUME TypeOK, NEW k \in Kernels, InputValue(k)
  PROVE  TypeOK'
<1>1. [use |-> "value", buf |-> NoBuffer] \in Param
  BY DEF Param
<1>2. /\ DOMAIN arg' = Kernels
      /\ \A j \in Kernels : arg'[j] \in [ArgPositions(j) -> Param]
  BY <1>1, SetArgType DEF InputValue
<1>3. nextArg' \in [Kernels -> 0 .. MaxArgs]
  BY NextArgType DEF InputValue
<1> QED
  BY <1>2, <1>3 DEF InputValue, TypeOK, DeviceTypeOK, WrapperTypeOK, KernelTypeOK,
                    deviceVars, wrapperVars

(* A wrapper as input, or as both.                                         *)
LEMMA InputWrapperType ==
  ASSUME TypeOK, NEW k \in Kernels, NEW w \in Wrappers,
         Input(k, w) \/ Inout(k, w) \/ InoutBuffer(k, w)
  PROVE  TypeOK'
<1>1. devicearray[w] \in Buffers
  BY DEF Input, Inout, InoutBuffer, TypeOK, WrapperTypeOK
<1>2. \A use \in {"in", "inout", "bare"} : [use |-> use, buf |-> devicearray[w]] \in Param
  BY <1>1 DEF Param
<1>3. /\ DOMAIN arg' = Kernels
      /\ \A j \in Kernels : arg'[j] \in [ArgPositions(j) -> Param]
  BY <1>2, SetArgType DEF Input, Inout, InoutBuffer
<1>4. nextArg' \in [Kernels -> 0 .. MaxArgs]
  BY NextArgType DEF Input, Inout, InoutBuffer
<1>5. wrappersToDirty' \in [Kernels -> SUBSET Wrappers]
  BY ToDirtyType DEF Input, Inout, InoutBuffer, TypeOK, KernelTypeOK
<1> QED
  BY <1>3, <1>4, <1>5 DEF Input, Inout, InoutBuffer, TypeOK, DeviceTypeOK, WrapperTypeOK,
                          KernelTypeOK,
                          deviceVars, wrapperVars

(* A wrapper as output, created on the device if need be.                  *)
LEMMA OutputWrapperType ==
  ASSUME TypeOK, NEW k \in Kernels, NEW w \in Wrappers, OutputWrapper(k, w)
  PROVE  TypeOK'
<1>1. nextArg' \in [Kernels -> 0 .. MaxArgs]
  BY NextArgType DEF OutputWrapper
<1>2. wrappersToDirty' \in [Kernels -> SUBSET Wrappers]
  BY ToDirtyType DEF OutputWrapper
<1>3. UNCHANGED <<host, buffers, outputs, busy>>
  BY DEF OutputWrapper
<1>4. CASE onDevice[w]
  <2>1. /\ SetArg(k, "out", devicearray[w]) /\ Accepts(k)
        /\ UNCHANGED <<deviceVars, wrapperVars>>
    BY <1>4 DEF OutputWrapper
  <2>2. [use |-> "out", buf |-> devicearray[w]] \in Param
    BY <1>4 DEF Param, TypeOK, WrapperTypeOK
  <2>3. /\ DOMAIN arg' = Kernels
        /\ \A j \in Kernels : arg'[j] \in [ArgPositions(j) -> Param]
    BY <2>1, <2>2, SetArgType
  <2> QED
    BY <2>1, <2>3, <1>1, <1>2, <1>3
    DEF TypeOK, DeviceTypeOK, WrapperTypeOK, KernelTypeOK, deviceVars, wrapperVars
<1>5. CASE ~onDevice[w]
  <2>1. PICK b \in FreeBuffers : /\ Attach(w, b) /\ Intend({b}, Junk)
                                 /\ SetArg(k, "out", b)
    BY <1>5 DEF OutputWrapper
  <2>2. [use |-> "out", buf |-> b] \in Param
    BY DEF Param, FreeBuffers
  <2>3. /\ DOMAIN arg' = Kernels
        /\ \A j \in Kernels : arg'[j] \in [ArgPositions(j) -> Param]
    BY <2>1, <2>2, SetArgType DEF OutputWrapper
  <2>4. intended' \in [Buffers -> Data]
    BY <2>1, IntendType DEF TypeOK, DeviceTypeOK, Data
  <2>5. UNCHANGED <<pending, edited>>
    BY <1>5 DEF OutputWrapper
  <2> QED
    BY <2>1, <2>3, <2>4, <2>5, <1>1, <1>2, <1>3, AttachType
    DEF TypeOK, DeviceTypeOK, WrapperTypeOK, KernelTypeOK
<1> QED
  BY <1>4, <1>5

(* ... and refused once it was created.                                    *)
LEMMA OutputWrapperFailsType ==
  ASSUME TypeOK, NEW k \in Kernels, NEW w \in Wrappers, OutputWrapperFails(k, w)
  PROVE  TypeOK'
<1>1. PICK b \in FreeBuffers : Attach(w, b) /\ Intend({b}, Junk)
  BY DEF OutputWrapperFails
<1>2. intended' \in [Buffers -> Data]
  BY <1>1, IntendType DEF TypeOK, DeviceTypeOK, Data
<1>3. UNCHANGED <<host, pending, edited, kernelVars, busy>>
  BY DEF OutputWrapperFails
<1> QED
  BY <1>1, <1>2, <1>3, AttachType
  DEF TypeOK, DeviceTypeOK, WrapperTypeOK, KernelTypeOK, kernelVars

(* A temporary buffer, whatever data it holds.                             *)
LEMMA TemporaryType ==
  ASSUME TypeOK, NEW b \in FreeBuffers, NEW v \in Data, Temporary(b, v)
  PROVE  /\ mem' \in [Buffers -> Data]
         /\ live' \in SUBSET Buffers
         /\ intended' \in [Buffers -> Data]
BY IntendType DEF Temporary, Create, FreeBuffers, TypeOK, DeviceTypeOK

(* Remembering the temporary buffer, and the output it is for.             *)
LEMMA BuffersType ==
  ASSUME TypeOK, NEW k \in Kernels, NEW b \in FreeBuffers,
         buffers' = [buffers EXCEPT ![k] = @ \cup {b}]
  PROVE  buffers' \in [Kernels -> SUBSET Buffers]
BY DEF FreeBuffers, TypeOK, KernelTypeOK

(* The outputs to be read back.                                            *)
LEMMA OutputsType ==
  ASSUME TypeOK, NEW k \in Kernels, NEW b \in FreeBuffers, NEW h \in Hosts,
         outputs' = [outputs EXCEPT ![k] = Append(@, [buf |-> b, array |-> h])]
  PROVE  outputs' \in [Kernels -> Seq(Output)]
<1>1. outputs[k] \in Seq(Output) /\ [buf |-> b, array |-> h] \in Output
  BY DEF TypeOK, KernelTypeOK, FreeBuffers, Output
<1>2. Append(outputs[k], [buf |-> b, array |-> h]) \in Seq(Output)
  BY <1>1
<1> QED
  BY <1>2 DEF TypeOK, KernelTypeOK

(* A plain array as input.                                                 *)
LEMMA InputArrayType ==
  ASSUME TypeOK, NEW k \in Kernels, NEW h \in Hosts, InputArray(k, h)
  PROVE  TypeOK'
<1>1. PICK b \in FreeBuffers : /\ Temporary(b, host[h])
                               /\ SetArg(k, "in", b)
                               /\ buffers' = [buffers EXCEPT ![k] = @ \cup {b}]
  BY DEF InputArray
<1>2. host[h] \in Data /\ [use |-> "in", buf |-> b] \in Param
  BY DEF TypeOK, DeviceTypeOK, Param, FreeBuffers
<1>3. /\ DOMAIN arg' = Kernels
      /\ \A j \in Kernels : arg'[j] \in [ArgPositions(j) -> Param]
  BY <1>1, <1>2, SetArgType DEF InputArray
<1>4. nextArg' \in [Kernels -> 0 .. MaxArgs]
  BY NextArgType DEF InputArray
<1>5. buffers' \in [Kernels -> SUBSET Buffers]
  BY <1>1, BuffersType
<1>6. /\ mem' \in [Buffers -> Data]
      /\ live' \in SUBSET Buffers
      /\ intended' \in [Buffers -> Data]
  BY <1>1, <1>2, TemporaryType
<1> QED
  BY <1>3, <1>4, <1>5, <1>6
  DEF InputArray, TypeOK, DeviceTypeOK, WrapperTypeOK, KernelTypeOK, wrapperVars

(* A plain array as both.                                                  *)
LEMMA InoutArrayType ==
  ASSUME TypeOK, NEW k \in Kernels, NEW h \in Hosts, InoutArray(k, h)
  PROVE  TypeOK'
<1>1. PICK b \in FreeBuffers :
        /\ Temporary(b, host[h])
        /\ SetArg(k, "inout", b)
        /\ buffers' = [buffers EXCEPT ![k] = @ \cup {b}]
        /\ outputs' = [outputs EXCEPT ![k] = Append(@, [buf |-> b, array |-> h])]
  BY DEF InoutArray
<1>2. host[h] \in Data /\ [use |-> "inout", buf |-> b] \in Param
  BY DEF TypeOK, DeviceTypeOK, Param, FreeBuffers
<1>3. /\ DOMAIN arg' = Kernels
      /\ \A j \in Kernels : arg'[j] \in [ArgPositions(j) -> Param]
  BY <1>1, <1>2, SetArgType DEF InoutArray
<1>4. nextArg' \in [Kernels -> 0 .. MaxArgs]
  BY NextArgType DEF InoutArray
<1>5. /\ buffers' \in [Kernels -> SUBSET Buffers]
      /\ outputs' \in [Kernels -> Seq(Output)]
  BY <1>1, BuffersType, OutputsType
<1>6. /\ mem' \in [Buffers -> Data]
      /\ live' \in SUBSET Buffers
      /\ intended' \in [Buffers -> Data]
  BY <1>1, <1>2, TemporaryType
<1> QED
  BY <1>3, <1>4, <1>5, <1>6
  DEF InoutArray, TypeOK, DeviceTypeOK, WrapperTypeOK, KernelTypeOK, wrapperVars

(* A plain array the kernel has no parameter for.                          *)
LEMMA InputArrayFailsType ==
  ASSUME TypeOK, NEW k \in Kernels, NEW h \in Hosts, InputArrayFails(k, h)
  PROVE  TypeOK'
<1>1. PICK b \in FreeBuffers : Temporary(b, host[h])
  BY DEF InputArrayFails
<1>2. host[h] \in Data
  BY DEF TypeOK, DeviceTypeOK
<1>3. /\ mem' \in [Buffers -> Data]
      /\ live' \in SUBSET Buffers
      /\ intended' \in [Buffers -> Data]
  BY <1>1, <1>2, TemporaryType
<1> QED
  BY <1>3 DEF InputArrayFails, TypeOK, DeviceTypeOK, WrapperTypeOK, KernelTypeOK,
              wrapperVars, kernelVars

(* A plain array as output, accepted or not.                               *)
LEMMA OutputArrayType ==
  ASSUME TypeOK, NEW k \in Kernels, NEW h \in Hosts, OutputArray(k, h)
  PROVE  TypeOK'
<1>1. PICK b \in FreeBuffers :
        /\ Temporary(b, Junk)
        /\ IF Accepts(k) THEN SetArg(k, "out", b) ELSE UNCHANGED arg
        /\ buffers' = [buffers EXCEPT ![k] = @ \cup {b}]
        /\ outputs' = [outputs EXCEPT ![k] = Append(@, [buf |-> b, array |-> h])]
  BY DEF OutputArray
<1>2. Junk \in Data /\ [use |-> "out", buf |-> b] \in Param
  BY DEF Data, Param, FreeBuffers
<1>3. /\ DOMAIN arg' = Kernels
      /\ \A j \in Kernels : arg'[j] \in [ArgPositions(j) -> Param]
  <2>1. CASE Accepts(k)
    BY <1>1, <1>2, <2>1, SetArgType
  <2>2. CASE ~Accepts(k)
    BY <1>1, <2>2 DEF TypeOK, KernelTypeOK
  <2> QED
    BY <2>1, <2>2
<1>4. nextArg' \in [Kernels -> 0 .. MaxArgs]
  BY NextArgType DEF OutputArray
<1>5. /\ buffers' \in [Kernels -> SUBSET Buffers]
      /\ outputs' \in [Kernels -> Seq(Output)]
  BY <1>1, BuffersType, OutputsType
<1>6. /\ mem' \in [Buffers -> Data]
      /\ live' \in SUBSET Buffers
      /\ intended' \in [Buffers -> Data]
  BY <1>1, <1>2, TemporaryType
<1> QED
  BY <1>3, <1>4, <1>5, <1>6
  DEF OutputArray, TypeOK, DeviceTypeOK, WrapperTypeOK, KernelTypeOK, wrapperVars

(* Reading an output back is a command.                                    *)
LEMMA ReadBackType ==
  ASSUME NEW o \in Output
  PROVE  ReadBack(o) \in Command
BY DEF Output, ReadBack, Read, Command

(* The buffers a kernel's parameters name, as reads, writes or either.     *)
LEMMA NamedBuffers ==
  ASSUME TypeOK, NEW k \in Kernels
  PROVE  ReadBy(k) \subseteq Buffers /\ WrittenBy(k) \subseteq Buffers
<1>1. arg[k] \in [ArgPositions(k) -> Param]
  BY DEF TypeOK, KernelTypeOK
<1> QED
  BY <1>1 DEF ReadBy, WrittenBy, PassedAs, Param

(* A launch.                                                               *)
LEMMA RunType ==
  ASSUME TypeOK, NEW k \in Kernels, NEW q \in Queues, NEW fast_read \in BOOLEAN,
         Run(k, q, fast_read)
  PROVE  TypeOK'
<1> DEFINE reads == {<<b, intended[b]>> : b \in ReadBy(k)}
           launch(v) == Compute(reads, WrittenBy(k), v)
<1>1. PICK v \in Results(k) :
        /\ Enqueue(q, <<launch(v)>>)
        /\ Intend(WrittenBy(k), v)
        /\ busy' = [op |-> "run", k |-> k, q |-> q, val |-> v,
                    fast |-> fast_read /\ outputs[k] # <<>>, next |-> 1, refused |-> {}]
  BY DEF Run
<1>2. v \in Data
  BY <1>1 DEF Results, Data
<1>3. <<launch(v)>> \in Seq(Command)
  <2>1. reads \in SUBSET (Buffers \X Data)
    BY NamedBuffers DEF TypeOK, DeviceTypeOK
  <2>2. launch(v) \in Command
    BY <2>1, <1>2, NamedBuffers DEF Compute, Command
  <2> QED
    BY <2>2, OneCommand
<1>4. pending' \in [Queues -> Seq(Command)]
  BY <1>1, <1>3, EnqueueType DEF TypeOK, DeviceTypeOK
<1>5. intended' \in [Buffers -> Data]
  BY <1>1, <1>2, IntendType DEF TypeOK, DeviceTypeOK
<1>6. busy' \in HostState
  <2>1. (fast_read /\ outputs[k] # <<>>) \in BOOLEAN
    OBVIOUS
  <2> QED
    BY <1>1, <1>2, <2>1 DEF HostState
<1> QED
  BY <1>4, <1>5, <1>6
  DEF Run, TypeOK, DeviceTypeOK, WrapperTypeOK, KernelTypeOK, wrapperVars, kernelVars

(* While a kernel runs, busy is what run() needs.                          *)
Running == [op : {"run"}, k : Kernels, q : Queues, val : Data,
            fast : BOOLEAN, next : Nat \ {0}, refused : SUBSET (Nat \ {0})]
LEMMA BusyRun ==
  ASSUME TypeOK, busy.op = "run"
  PROVE  busy \in Running
BY DEF TypeOK, WrapperTypeOK, HostState, Running

(* The next read of an output, accepted ...                                *)
LEMMA RunReadsType ==
  ASSUME TypeOK, RunReads
  PROVE  TypeOK'
<1>1. busy \in Running
  BY BusyRun DEF RunReads, Reading
<1>2. outputs[busy.k] \in Seq(Output) /\ busy.next \in 1 .. Len(outputs[busy.k])
  BY <1>1 DEF RunReads, Reading, Running, TypeOK, KernelTypeOK
<1>3. ReadBack(outputs[busy.k][busy.next]) \in Command
  BY <1>2, ReadBackType
<1>4. pending' \in [Queues -> Seq(Command)]
  BY <1>1, <1>3, OneCommand, EnqueueType DEF RunReads, Running, TypeOK, DeviceTypeOK
<1>5. busy' \in Running
  BY <1>1 DEF RunReads, Running
<1> QED
  BY <1>4, <1>5 DEF RunReads, Running, HostState, TypeOK, DeviceTypeOK, WrapperTypeOK,
                    KernelTypeOK, wrapperVars, kernelVars

(* ... or refused.                                                         *)
LEMMA RunReadRefusedType ==
  ASSUME TypeOK, RunReadRefused
  PROVE  TypeOK'
<1>1. busy \in Running
  BY BusyRun DEF RunReadRefused, Reading
<1>2. busy.next \in Nat \ {0} /\ busy.refused \in SUBSET (Nat \ {0})
  BY <1>1 DEF Running
<1>3. busy.refused \cup {busy.next} \in SUBSET (Nat \ {0}) /\ busy.next + 1 \in Nat \ {0}
  BY <1>2
<1>4. busy' \in Running
  BY <1>1, <1>3 DEF RunReadRefused, Running
<1> QED
  BY <1>4 DEF RunReadRefused, Running, HostState, TypeOK, DeviceTypeOK, WrapperTypeOK,
              KernelTypeOK, deviceVars, wrapperVars, kernelVars

(* The end of a run.                                                       *)
LEMMA RunReturnsType ==
  ASSUME TypeOK, RunReturns
  PROVE  TypeOK'
<1>1. busy.k \in Kernels
  BY BusyRun DEF RunReturns, Running
<1>2. DeviceTypeOK'
  BY <1>1 DEF RunReturns, ReleaseBuffers, TypeOK, DeviceTypeOK
<1>3. WrapperTypeOK'
  BY DEF RunReturns, MarkWrappers, TypeOK, WrapperTypeOK, Idle, HostState
<1>4. <<>> \in Seq(Output)
  OBVIOUS
<1>5. KernelTypeOK'
  BY <1>1, <1>4, KernelAssumption DEF RunReturns, ForgetParameters, TypeOK, KernelTypeOK
<1> QED
  BY <1>2, <1>3, <1>5 DEF TypeOK

(* A kernel is deleted and built again.                                    *)
LEMMA DestroyKernelType ==
  ASSUME TypeOK, NEW k \in Kernels, DestroyKernel(k)
  PROVE  TypeOK'
<1>1. <<>> \in Seq(Output) /\ 0 \in 0 .. MaxArgs
  BY KernelAssumption
<1>2. [i \in ArgPositions(k) |-> [use |-> "unset", buf |-> NoBuffer]]
        \in [ArgPositions(k) -> Param]
  BY DEF Param
<1> QED
  BY <1>1, <1>2 DEF DestroyKernel, ForgetParameters, TypeOK, DeviceTypeOK,
                    WrapperTypeOK, KernelTypeOK, deviceVars, wrapperVars

(* finish() starts, and returns.                                           *)
LEMMA FinishType ==
  ASSUME TypeOK, FinishCall \/ FinishReturns
  PROVE  TypeOK'
BY DEF FinishCall, FinishReturns, Idle, HostState, TypeOK, DeviceTypeOK, WrapperTypeOK,
       KernelTypeOK, deviceVars, wrapperVars, kernelVars

(* The device executes a command.                                          *)
LEMMA DeviceStepType ==
  ASSUME TypeOK, NEW q \in Queues, DeviceStep(q)
  PROVE  TypeOK'
<1>1. DeviceTypeOK'
  BY ExecuteType DEF TypeOK, DeviceStep
<1> QED
  BY <1>1 DEF DeviceStep, TypeOK, WrapperTypeOK, KernelTypeOK, wrapperVars, kernelVars

-----------------------------------------------------------------------------
(* The state the program starts in is well formed.                         *)
LEMMA InitType == Init => TypeOK
<1> SUFFICES ASSUME Init PROVE TypeOK
  OBVIOUS
<1>1. DeviceTypeOK
  BY DEF Init, DeviceInit, DeviceTypeOK, Data
<1>2. WrapperTypeOK
  BY DEF Init, WrapperInit, WrapperTypeOK, Idle, HostState
<1>3. KernelTypeOK
  BY KernelAssumption DEF Init, KernelInit, KernelTypeOK, Param
<1> QED
  BY <1>1, <1>2, <1>3 DEF TypeOK

(* Every step keeps the state well formed.                                 *)
LEMMA NextType ==
  ASSUME TypeOK, [Next]_vars
  PROVE  TypeOK'
<1>1. ASSUME NEW h \in Hosts, NEW v \in Val, Edit(h, v) PROVE TypeOK'
  BY <1>1, EditType
<1>2. ASSUME NEW w \in Wrappers, WrapperStep(w) PROVE TypeOK'
  BY <1>2, CreateOnDeviceType, CopyToDeviceType, CopyToHostType, DetachType,
     ClientMarksDirtyType
  DEF WrapperStep, CopyToDeviceFails
<1>3. ASSUME NEW s \in Wrappers, NEW t \in Wrappers, CopyAllTo(s, t) PROVE TypeOK'
  <2>1. Size[s] \in Int
    BY WrapperAssumption
  <2> QED
    BY <2>1, <1>3, CopyToType DEF CopyAllTo
<1>4. ASSUME NEW s \in Wrappers, NEW t \in Wrappers,
             NEW from \in Offsets, NEW to \in Offsets, NEW count \in Offsets,
             CopyTo(s, t, from, to, count)
      PROVE TypeOK'
  <2>1. Offsets \subseteq Int
    BY DEF Offsets
  <2> QED
    BY <2>1, <1>4, CopyToType
<1>5. ASSUME NEW k \in Kernels, KernelStep(k) PROVE TypeOK'
  BY <1>5, InputValueType, InputWrapperType, OutputWrapperType, OutputWrapperFailsType,
     InputArrayType, InputArrayFailsType, OutputArrayType, InoutArrayType, RunType,
     DestroyKernelType
  DEF KernelStep
<1>6. CASE FinishCall
  BY <1>6, FinishType
<1>7. CASE Returns
  BY <1>7, TransferReturnsType, CopyToHostThrowsType, RunReadsType, RunReadRefusedType, RunReturnsType,
     FinishType
  DEF Returns
<1>8. ASSUME NEW q \in Queues, DeviceStep(q) PROVE TypeOK'
  BY <1>8, DeviceStepType
<1>9. CASE UNCHANGED vars
  BY <1>9 DEF vars, deviceVars, wrapperVars, kernelVars,
              TypeOK, DeviceTypeOK, WrapperTypeOK, KernelTypeOK
<1> QED
  BY <1>1, <1>2, <1>3, <1>4, <1>5, <1>6, <1>7, <1>8, <1>9 DEF Next

(* The state is always well formed, in particular a wrapper that says it   *)
(* is on the device has a buffer there (CLWrapper::onDevice, devicearray), *)
(* and every queue holds commands over existing handles and arrays.        *)
THEOREM TypeCorrect == Spec => []TypeOK
<1>1. Init => TypeOK
  BY InitType
<1>2. TypeOK /\ [Next]_vars => TypeOK'
  BY NextType
<1> QED
  BY <1>1, <1>2, PTL DEF Spec

-----------------------------------------------------------------------------
(* Ownership, dirty flags and parameters.                                  *)

(* What is owned exists, and has one owner.                                *)
Ownership ==
  /\ \A w \in OnDevice : devicearray[w] \in live
  /\ \A k \in Kernels : buffers[k] \subseteq live
  /\ \A w \in OnDevice : \A k \in Kernels : devicearray[w] \notin buffers[k]
  /\ \A v, w \in OnDevice : devicearray[v] = devicearray[w] => v = w
  /\ \A j, k \in Kernels : j # k => buffers[j] \cap buffers[k] = {}

(* What exists is owned.                                                   *)
NoLeak == \A b \in live : \/ \E w \in OnDevice : devicearray[w] = b
                          \/ \E k \in Kernels : b \in buffers[k]

(* The owner of a parameter of kernel k.                                   *)
Holds(k, b) == b \in buffers[k] \/ \E w \in OnDevice : devicearray[w] = b

(* The parameters passed since the last run have owners.                   *)
PassedHeld == \A k \in Kernels : \A i \in Passed(k) :
                arg[k][i].use # "value" => Holds(k, arg[k][i].buf)

(* The wrappers a run will mark are on the device.                         *)
MarkedOnDevice == \A k \in Kernels : wrappersToDirty[k] \subseteq OnDevice

(* A wrapper passed to be written is to be marked.                         *)
PassedMarked ==
  \A k \in Kernels : \A i \in Passed(k) : \A w \in OnDevice :
    arg[k][i].use \in {"out", "inout"} /\ arg[k][i].buf = devicearray[w]
      => w \in wrappersToDirty[k]

(* Under "freshArgs" a kernel being run had all its parameters passed.     *)
RunningPassed ==
  Rule("freshArgs") /\ busy.op = "run" => nextArg[busy.k] >= Arity[busy.k]

owners == <<live, devicearray, onDevice, buffers>>

-----------------------------------------------------------------------------
(* How ownership changes.                                                  *)

(* A wrapper gets a new buffer.                                            *)
LEMMA AttachOwns ==
  ASSUME TypeOK, Ownership, NEW w \in Wrappers, ~onDevice[w], NEW b \in FreeBuffers,
         Attach(w, b), UNCHANGED buffers
  PROVE  Ownership' /\ (NoLeak => NoLeak')
<1>1. /\ b \notin live
      /\ live' = live \cup {b}
      /\ devicearray' = [devicearray EXCEPT ![w] = b]
      /\ onDevice' = [onDevice EXCEPT ![w] = TRUE]
      /\ devicearray \in [Wrappers -> Buffers \cup {NoBuffer}]
      /\ onDevice \in [Wrappers -> BOOLEAN]
  BY DEF Attach, Create, FreeBuffers, TypeOK, WrapperTypeOK
<1>2. OnDevice' = OnDevice \cup {w} /\ w \notin OnDevice
  BY <1>1 DEF OnDevice
<1>3. devicearray'[w] = b /\ \A v \in OnDevice : devicearray'[v] = devicearray[v]
  BY <1>1, <1>2 DEF OnDevice
<1>4. Ownership'
  BY <1>1, <1>2, <1>3 DEF Ownership
<1>5. NoLeak => NoLeak'
  BY <1>1, <1>2, <1>3 DEF NoLeak
<1> QED
  BY <1>4, <1>5

(* A kernel gets a temporary buffer.                                       *)
LEMMA TemporaryOwns ==
  ASSUME TypeOK, Ownership, NEW k \in Kernels, NEW b \in FreeBuffers, NEW v,
         Temporary(b, v), buffers' = [buffers EXCEPT ![k] = @ \cup {b}],
         UNCHANGED <<devicearray, onDevice>>
  PROVE  Ownership' /\ (NoLeak => NoLeak')
<1>1. /\ b \notin live
      /\ live' = live \cup {b}
      /\ OnDevice' = OnDevice
      /\ \A j \in Kernels : buffers'[j] = IF j = k THEN buffers[k] \cup {b} ELSE buffers[j]
  BY DEF Temporary, Create, FreeBuffers, OnDevice, TypeOK, KernelTypeOK
<1>2. Ownership'
  BY <1>1 DEF Ownership
<1>3. NoLeak => NoLeak'
  BY <1>1 DEF NoLeak
<1> QED
  BY <1>2, <1>3

(* A wrapper lets its buffer go.                                           *)
LEMMA DetachOwns ==
  ASSUME TypeOK, Ownership, NEW w \in Wrappers, onDevice[w], Detach(w),
         \A v \in Wrappers \ {w} : devicearray'[v] = devicearray[v],
         UNCHANGED buffers
  PROVE  Ownership' /\ (NoLeak => NoLeak')
<1>1. /\ live' = live \ {devicearray[w]}
      /\ OnDevice' = OnDevice \ {w}
      /\ w \in OnDevice
      /\ \A v \in OnDevice' : v \in OnDevice /\ devicearray'[v] = devicearray[v]
  BY DEF Detach, OnDevice, TypeOK, WrapperTypeOK
<1>2. Ownership'
  BY <1>1 DEF Ownership
<1>3. NoLeak => NoLeak'
  BY <1>1 DEF NoLeak
<1> QED
  BY <1>2, <1>3

(* A kernel lets its temporary buffers go, releasing them.                 *)
LEMMA ReleaseOwns ==
  ASSUME TypeOK, Ownership, NEW k \in Kernels, ReleaseBuffers(k), ForgetParameters(k),
         UNCHANGED <<devicearray, onDevice>>
  PROVE  Ownership' /\ (NoLeak => NoLeak')
<1>1. /\ live' = live \ buffers[k]
      /\ OnDevice' = OnDevice
      /\ \A j \in Kernels : buffers'[j] = IF j = k THEN {} ELSE buffers[j]
  BY DEF ReleaseBuffers, ForgetParameters, OnDevice, TypeOK, KernelTypeOK
<1>2. Ownership'
  BY <1>1 DEF Ownership
<1>3. NoLeak => NoLeak'
  BY <1>1 DEF NoLeak
<1> QED
  BY <1>2, <1>3

(* ... or without releasing them.                                          *)
LEMMA ForgetOwns ==
  ASSUME TypeOK, Ownership, NEW k \in Kernels, ForgetParameters(k),
         UNCHANGED <<live, devicearray, onDevice>>
  PROVE  Ownership' /\ (NoLeak /\ buffers[k] = {} => NoLeak')
<1>1. /\ OnDevice' = OnDevice
      /\ \A j \in Kernels : buffers'[j] = IF j = k THEN {} ELSE buffers[j]
  BY DEF ForgetParameters, OnDevice, TypeOK, KernelTypeOK
<1>2. Ownership'
  BY <1>1 DEF Ownership
<1>3. NoLeak /\ buffers[k] = {} => NoLeak'
  BY <1>1 DEF NoLeak
<1> QED
  BY <1>2, <1>3

(* A buffer is created that nobody remembers.                              *)
LEMMA LeakOwns ==
  ASSUME Ownership, NEW b \in FreeBuffers, NEW v, Temporary(b, v),
         UNCHANGED <<devicearray, onDevice, buffers>>
  PROVE  Ownership'
BY DEF Temporary, Create, OnDevice, Ownership

(* Nothing changes hands.                                                  *)
LEMMA SameOwns ==
  ASSUME Ownership, UNCHANGED owners
  PROVE  Ownership' /\ (NoLeak => NoLeak')
BY DEF owners, OnDevice, Ownership, NoLeak

(* What a wrapper does keeps Ownership and leaks nothing.                  *)
LEMMA WrapperStepOwns ==
  ASSUME TypeOK, Ownership, NEW w \in Wrappers, WrapperStep(w)
  PROVE  Ownership' /\ (NoLeak => NoLeak')
<1>1. CASE CreateOnDevice(w) \/ CopyToDeviceFails(w)
  BY <1>1, AttachOwns DEF CreateOnDevice, CopyToDeviceFails, kernelVars
<1>2. CASE CopyToDevice(w)
  BY <1>2, AttachOwns, SameOwns DEF CopyToDevice, kernelVars, owners
<1>3. CASE CopyToHost(w) \/ ClientMarksDirty(w)
  BY <1>3, SameOwns
  DEF CopyToHost, ClientMarksDirty, deviceVars, wrapperVars, kernelVars, owners
<1>4. CASE DeleteFromDevice(w)
  BY <1>4, DetachOwns DEF DeleteFromDevice, kernelVars
<1>5. CASE Destroy(w) /\ onDevice[w]
  <2>1. \A v \in Wrappers \ {w} : devicearray'[v] = devicearray[v]
    BY <1>5 DEF Destroy, TypeOK, WrapperTypeOK
  <2> QED
    BY <1>5, <2>1, DetachOwns DEF Destroy, kernelVars
<1>6. CASE Destroy(w) /\ ~onDevice[w]
  <2>1. /\ OnDevice' = OnDevice /\ live' = live /\ buffers' = buffers
        /\ \A v \in OnDevice : devicearray'[v] = devicearray[v]
    BY <1>6 DEF Destroy, OnDevice, kernelVars, TypeOK, WrapperTypeOK
  <2> QED
    BY <2>1 DEF Ownership, NoLeak
<1> QED
  BY <1>1, <1>2, <1>3, <1>4, <1>5, <1>6 DEF WrapperStep

(* What is done with a kernel keeps Ownership, whatever the client does;   *)
(* two rules are needed for nothing to leak.                               *)
LEMMA KernelStepOwns ==
  ASSUME TypeOK, Ownership, NEW k \in Kernels, KernelStep(k)
  PROVE  /\ Ownership'
         /\ Rule("withinArity") /\ Rule("runPassed") /\ NoLeak => NoLeak'
<1>1. CASE InputValue(k)
  BY <1>1, SameOwns DEF InputValue, deviceVars, wrapperVars, owners
<1>2. CASE DestroyKernel(k)
  BY <1>2, ForgetOwns DEF DestroyKernel, deviceVars, wrapperVars
<1>3. ASSUME NEW w \in Wrappers, Input(k, w) \/ Inout(k, w) \/ InoutBuffer(k, w)
      PROVE  Ownership' /\ (NoLeak => NoLeak')
  BY <1>3, SameOwns DEF Input, Inout, InoutBuffer, deviceVars, wrapperVars, owners
<1>4. ASSUME NEW w \in Wrappers, OutputWrapper(k, w) \/ OutputWrapperFails(k, w)
      PROVE  Ownership' /\ (NoLeak => NoLeak')
  BY <1>4, AttachOwns, SameOwns
  DEF OutputWrapper, OutputWrapperFails, deviceVars, wrapperVars, kernelVars, owners
<1>5. ASSUME NEW h \in Hosts, InputArray(k, h) \/ OutputArray(k, h) \/ InoutArray(k, h)
      PROVE  Ownership' /\ (NoLeak => NoLeak')
  BY <1>5, TemporaryOwns DEF InputArray, OutputArray, InoutArray, wrapperVars
<1>6. ASSUME NEW h \in Hosts, InputArrayFails(k, h)
      PROVE  Ownership' /\ ~Rule("withinArity")
  BY <1>6, LeakOwns DEF InputArrayFails, wrapperVars, kernelVars, Passing, Accepts
<1>7. ASSUME NEW q \in Queues, NEW fast_read \in BOOLEAN, Run(k, q, fast_read)
      PROVE  Ownership' /\ (NoLeak => NoLeak')
  BY <1>7, SameOwns DEF Run, wrapperVars, kernelVars, owners
<1>8. ASSUME DestroyKernel(k), Rule("runPassed"), NoLeak
      PROVE  NoLeak'
  BY <1>8, ForgetOwns DEF DestroyKernel, deviceVars, wrapperVars
<1> QED
  BY <1>1, <1>2, <1>3, <1>4, <1>5, <1>6, <1>7, <1>8 DEF KernelStep

(* Every step keeps Ownership, and NoLeak under these rules.               *)
LEMMA NextOwns ==
  ASSUME TypeOK, Ownership, [Next]_vars
  PROVE  /\ Ownership'
         /\ Rule("withinArity") /\ Rule("runPassed") /\ NoLeak => NoLeak'
<1>1. ASSUME NEW h \in Hosts, NEW v \in Val, Edit(h, v)
      PROVE  Ownership' /\ (NoLeak => NoLeak')
  BY <1>1, SameOwns DEF Edit, deviceVars, kernelVars, owners
<1>2. ASSUME NEW w \in Wrappers, WrapperStep(w)
      PROVE  Ownership' /\ (NoLeak => NoLeak')
  BY <1>2, WrapperStepOwns
<1>3. ASSUME NEW s, NEW t, NEW from, NEW to, NEW count, CopyTo(s, t, from, to, count)
      PROVE  Ownership' /\ (NoLeak => NoLeak')
  BY <1>3, SameOwns DEF CopyTo, kernelVars, owners
<1>4. ASSUME NEW s \in Wrappers, NEW t \in Wrappers, CopyAllTo(s, t)
      PROVE  Ownership' /\ (NoLeak => NoLeak')
  BY <1>4, <1>3 DEF CopyAllTo
<1>5. ASSUME NEW k \in Kernels, KernelStep(k)
      PROVE  /\ Ownership'
             /\ Rule("withinArity") /\ Rule("runPassed") /\ NoLeak => NoLeak'
  BY <1>5, KernelStepOwns
<1>6. ASSUME FinishCall \/ FinishReturns \/ CopyToDeviceReturns \/ CopyToHostReturns
               \/ CopyToHostThrows \/ RunReads \/ RunReadRefused
      PROVE  Ownership' /\ (NoLeak => NoLeak')
  BY <1>6, SameOwns
  DEF FinishCall, FinishReturns, CopyToDeviceReturns, CopyToHostReturns, CopyToHostThrows,
      RunReads, RunReadRefused, deviceVars, wrapperVars, kernelVars, owners
<1>7. ASSUME RunReturns
      PROVE  Ownership' /\ (NoLeak => NoLeak')
  BY <1>7, BusyRun, ReleaseOwns DEF RunReturns, Running
<1>8. ASSUME NEW q \in Queues, DeviceStep(q)
      PROVE  Ownership' /\ (NoLeak => NoLeak')
  BY <1>8, SameOwns DEF DeviceStep, Execute, wrapperVars, kernelVars, owners
<1>9. ASSUME UNCHANGED vars
      PROVE  Ownership' /\ (NoLeak => NoLeak')
  BY <1>9, SameOwns DEF vars, deviceVars, wrapperVars, kernelVars, owners
<1> QED
  BY <1>1, <1>2, <1>3, <1>4, <1>5, <1>6, <1>7, <1>8, <1>9 DEF Next, Returns

(* There is nothing to own at first.                                       *)
LEMMA InitOwns == Init => Ownership /\ NoLeak
BY DEF Init, DeviceInit, WrapperInit, KernelInit, OnDevice, Ownership, NoLeak

(* No buffer is released while a wrapper or a kernel holds it, and none is *)
(* held twice (CLWrapper::devicearray, CLKernel::buffers), whatever rules  *)
(* the client breaks.                                                      *)
THEOREM OwnersKeep == Spec => []Ownership
<1>1. Init => Ownership
  BY InitOwns
<1>2. TypeOK /\ Ownership /\ [Next]_vars => Ownership'
  BY NextOwns
<1> QED
  BY <1>1, <1>2, TypeCorrect, PTL DEF Spec

(* No device buffer leaks and none has two owners, for a client that       *)
(* passes no more parameters than the kernel has and runs the kernel it    *)
(* has passed plain arrays to before deleting it.                          *)
THEOREM OneOwnerEach ==
  ASSUME Rule("withinArity"), Rule("runPassed")
  PROVE  Spec => []OneOwner
<1>1. Init => NoLeak
  BY InitOwns
<1>2. TypeOK /\ Ownership /\ NoLeak /\ [Next]_vars => NoLeak'
  BY NextOwns
<1>3. Ownership /\ NoLeak => OneOwner
  <2> SUFFICES ASSUME Ownership, NoLeak PROVE OneOwner
    OBVIOUS
  <2>1. live = {devicearray[w] : w \in OnDevice} \cup UNION {buffers[k] : k \in Kernels}
    BY DEF Ownership, NoLeak
  <2> QED
    BY <2>1 DEF Ownership, OneOwner
<1> QED
  BY <1>1, <1>2, <1>3, TypeCorrect, OwnersKeep, PTL DEF Spec

-----------------------------------------------------------------------------
(* From here on the client keeps a wrapper on the device from the moment   *)
(* it is passed to a kernel until the run that uses it.                    *)

(* What a step may do to the owners without disturbing the parameters that *)
(* were passed: new buffers, and new owners for them.                      *)
OwnersGrow ==
  /\ OnDevice \subseteq OnDevice'
  /\ \A k \in Kernels : \A b \in Buffers \cup {NoBuffer} : Holds(k, b) => Holds(k, b)'
  /\ \A w \in OnDevice' : \A k \in Kernels :
       Holds(k, devicearray'[w]) => w \in OnDevice /\ devicearray[w] = devicearray'[w]

(* A new buffer of a wrapper is no passed parameter's.                     *)
LEMMA AttachGrows ==
  ASSUME TypeOK, Ownership, NEW w \in Wrappers, ~onDevice[w], NEW b \in FreeBuffers,
         Attach(w, b), UNCHANGED buffers
  PROVE  OwnersGrow
<1>1. /\ b \notin live
      /\ OnDevice' = OnDevice \cup {w} /\ w \notin OnDevice
      /\ devicearray'[w] = b
      /\ \A v \in OnDevice : devicearray'[v] = devicearray[v]
  BY DEF Attach, Create, FreeBuffers, OnDevice, TypeOK, WrapperTypeOK
<1>2. \A k \in Kernels : ~Holds(k, b)
  BY <1>1 DEF Holds, Ownership
<1>3. \A k \in Kernels : \A c \in Buffers \cup {NoBuffer} : Holds(k, c) => Holds(k, c)'
  BY <1>1 DEF Holds
<1> QED
  BY <1>1, <1>2, <1>3 DEF OwnersGrow

(* Nor does a temporary buffer of a kernel take one away.                  *)
LEMMA TemporaryGrows ==
  ASSUME TypeOK, NEW k \in Kernels, NEW b,
         buffers' = [buffers EXCEPT ![k] = @ \cup {b}],
         UNCHANGED <<devicearray, onDevice>>
  PROVE  OwnersGrow
<1>1. /\ OnDevice' = OnDevice
      /\ \A j \in Kernels : buffers[j] \subseteq buffers'[j]
  BY DEF OnDevice, TypeOK, KernelTypeOK
<1>2. \A j \in Kernels : \A c \in Buffers \cup {NoBuffer} : Holds(j, c) => Holds(j, c)'
  BY <1>1 DEF Holds
<1> QED
  BY <1>1, <1>2 DEF OwnersGrow

(* Nothing changes hands.                                                  *)
LEMMA SameGrows ==
  ASSUME UNCHANGED <<devicearray, onDevice, buffers>>
  PROVE  OwnersGrow
BY DEF OwnersGrow, OnDevice, Holds

(* The buffer of a passed parameter is a handle or NoBuffer, and its       *)
(* position one of the kernel's.                                           *)
LEMMA PassedType ==
  ASSUME TypeOK, NEW k \in Kernels, NEW i \in Passed(k)
  PROVE  /\ arg[k][i].buf \in Buffers \cup {NoBuffer}
         /\ i \in ArgPositions(k) /\ i \in Int /\ i < nextArg[k]
         /\ nextArg[k] \in Nat /\ Arity[k] \in Nat
<1>1. arg[k] \in [ArgPositions(k) -> Param] /\ nextArg[k] \in Nat /\ Arity[k] \in Nat
  BY KernelAssumption, WrapperAssumption DEF TypeOK, KernelTypeOK
<1>2. i \in ArgPositions(k) /\ i < nextArg[k]
  BY <1>1 DEF Passed
<1> QED
  BY <1>1, <1>2 DEF Param, ArgPositions

(* The parameters of all kernels after one more was set for k.             *)
LEMMA PassedNext ==
  ASSUME TypeOK, NEW k \in Kernels, Accepts(k), NEW use, NEW c,
         SetArg(k, use, c), NextArg(k), NEW j \in Kernels, NEW i, i \in Passed(j)'
  PROVE  \/ i \in Passed(j) /\ arg'[j][i] = arg[j][i]
         \/ j = k /\ arg'[j][i] = [use |-> use, buf |-> c]
<1>1. /\ \A l \in Kernels : arg[l] \in [ArgPositions(l) -> Param]
      /\ \A l \in Kernels : nextArg[l] \in Nat /\ Arity[l] \in Nat
      /\ DOMAIN arg = Kernels /\ DOMAIN nextArg = Kernels
  BY KernelAssumption, WrapperAssumption DEF TypeOK, KernelTypeOK
<1>2. /\ \A l \in Kernels : nextArg'[l] = IF l = k THEN nextArg[k] + 1 ELSE nextArg[l]
      /\ \A l \in Kernels : l # k => arg'[l] = arg[l]
      /\ arg'[k] = [arg[k] EXCEPT ![nextArg[k]] = [use |-> use, buf |-> c]]
  BY <1>1 DEF SetArg, NextArg
<1>3. DOMAIN arg'[j] = ArgPositions(j) /\ i \in ArgPositions(j) /\ i < nextArg'[j]
  BY <1>1, <1>2 DEF Passed
<1>4. i \in Int /\ nextArg[k] \in ArgPositions(k)
  BY <1>1, <1>3 DEF ArgPositions, Accepts
<1>5. CASE j # k
  BY <1>1, <1>2, <1>3, <1>5 DEF Passed
<1>6. CASE j = k /\ i # nextArg[k]
  BY <1>1, <1>2, <1>3, <1>4, <1>6 DEF Passed
<1>7. CASE j = k /\ i = nextArg[k]
  BY <1>1, <1>2, <1>4, <1>7
<1> QED
  BY <1>5, <1>6, <1>7

(* New owners alone disturb nothing that was passed.                       *)
LEMMA UnpassedBinds ==
  ASSUME TypeOK, PassedHeld, PassedMarked, MarkedOnDevice, OwnersGrow,
         \A j \in Kernels : \A i \in Passed(j)' :
           i \in Passed(j) /\ arg'[j][i] = arg[j][i],
         UNCHANGED wrappersToDirty
  PROVE  PassedHeld' /\ PassedMarked' /\ MarkedOnDevice'
<1>1. PassedHeld'
  <2> SUFFICES ASSUME NEW j \in Kernels, NEW i \in Passed(j)', arg'[j][i].use # "value"
               PROVE  Holds(j, arg[j][i].buf)'
    BY DEF PassedHeld
  <2>1. i \in Passed(j) /\ arg'[j][i] = arg[j][i]
    OBVIOUS
  <2> DEFINE b == arg[j][i].buf
  <2>2. PICK c \in Buffers \cup {NoBuffer} : c = b
    BY <2>1, PassedType
  <2>3. Holds(j, c)
    BY <2>1, <2>2 DEF PassedHeld
  <2>4. Holds(j, c)'
    BY <2>3 DEF OwnersGrow
  <2>5. c = b'
    BY <2>1, <2>2
  <2> QED
    BY <2>4, <2>5 DEF Holds
<1>2. PassedMarked'
  <2> SUFFICES ASSUME NEW j \in Kernels, NEW i \in Passed(j)', NEW w \in OnDevice',
                      arg'[j][i].use \in {"out", "inout"},
                      arg'[j][i].buf = devicearray'[w]
               PROVE  w \in wrappersToDirty'[j]
    BY DEF PassedMarked
  <2>1. i \in Passed(j) /\ arg'[j][i] = arg[j][i]
    OBVIOUS
  <2>2. Holds(j, devicearray'[w])
    BY <2>1 DEF PassedHeld
  <2>3. w \in OnDevice /\ devicearray[w] = devicearray'[w]
    BY <2>2 DEF OwnersGrow
  <2> QED
    BY <2>1, <2>3 DEF PassedMarked
<1>3. MarkedOnDevice'
  BY DEF MarkedOnDevice, OwnersGrow
<1> QED
  BY <1>1, <1>2, <1>3

(* A parameter is passed whose buffer has an owner, and which is marked if *)
(* it is to be written.                                                    *)
LEMMA PassBinds ==
  ASSUME TypeOK, PassedHeld, PassedMarked, OwnersGrow,
         NEW k \in Kernels, Accepts(k), NEW use, NEW c, SetArg(k, use, c), NextArg(k),
         use # "value" => Holds(k, c)',
         use \in {"out", "inout"} =>
           \A w \in OnDevice' : devicearray'[w] = c => w \in wrappersToDirty'[k],
         \A j \in Kernels : wrappersToDirty[j] \subseteq wrappersToDirty'[j]
  PROVE  PassedHeld' /\ PassedMarked'
<1>1. PassedHeld'
  <2> SUFFICES ASSUME NEW j \in Kernels, NEW i \in Passed(j)', arg'[j][i].use # "value"
               PROVE  Holds(j, arg[j][i].buf)'
    BY DEF PassedHeld
  <2>1. CASE i \in Passed(j) /\ arg'[j][i] = arg[j][i]
    <3>1. PICK b \in Buffers \cup {NoBuffer} : b = arg[j][i].buf
      BY <2>1, PassedType
    <3>2. Holds(j, b)
      BY <2>1, <3>1 DEF PassedHeld
    <3>3. Holds(j, b)'
      BY <3>2 DEF OwnersGrow
    <3> QED
      BY <2>1, <3>1, <3>3 DEF Holds
  <2>2. CASE j = k /\ arg'[j][i] = [use |-> use, buf |-> c]
    BY <2>2 DEF Holds
  <2> QED
    BY <2>1, <2>2, PassedNext
<1>2. PassedMarked'
  <2> SUFFICES ASSUME NEW j \in Kernels, NEW i \in Passed(j)', NEW w \in OnDevice',
                      arg'[j][i].use \in {"out", "inout"},
                      arg'[j][i].buf = devicearray'[w]
               PROVE  w \in wrappersToDirty'[j]
    BY DEF PassedMarked
  <2>1. CASE i \in Passed(j) /\ arg'[j][i] = arg[j][i]
    <3>1. Holds(j, devicearray'[w])
      BY <2>1 DEF PassedHeld
    <3>2. w \in OnDevice /\ devicearray[w] = devicearray'[w]
      BY <3>1 DEF OwnersGrow
    <3> QED
      BY <2>1, <3>2 DEF PassedMarked
  <2>2. CASE j = k /\ arg'[j][i] = [use |-> use, buf |-> c]
    BY <2>2
  <2> QED
    BY <2>1, <2>2, PassedNext
<1> QED
  BY <1>1, <1>2

(* The flag of a wrapper that has no device copy is set by the client only. *)
DirtyHere == Rule("markOnDevice") => DirtyOnDevice

Binds == DirtyHere /\ MarkedOnDevice /\ PassedHeld /\ PassedMarked

(* The parameters, and what is to be marked, are as they were.             *)
LEMMA SameBinds ==
  ASSUME TypeOK, Binds, OwnersGrow, DirtyHere', UNCHANGED kernelVars
  PROVE  Binds'
<1>1. \A j \in Kernels : \A i \in Passed(j)' : i \in Passed(j) /\ arg'[j][i] = arg[j][i]
  BY DEF kernelVars, Passed
<1> QED
  BY <1>1, UnpassedBinds DEF Binds, kernelVars

(* A flag that is set on attaching is that of a wrapper on the device.     *)
LEMMA AttachDirty ==
  ASSUME TypeOK, DirtyHere, NEW w \in Wrappers, NEW b, Attach(w, b)
  PROVE  DirtyHere'
BY DEF Attach, DirtyHere, DirtyOnDevice, TypeOK, WrapperTypeOK

(* A wrapper that no passed parameter needs leaves the device.             *)
LEMMA DetachBinds ==
  ASSUME TypeOK, Ownership, Binds, NEW w \in Wrappers, onDevice[w], ~Bound(w), Detach(w),
         \A v \in Wrappers \ {w} : devicearray'[v] = devicearray[v],
         UNCHANGED kernelVars
  PROVE  Binds'
<1>1. /\ OnDevice' = OnDevice \ {w}
      /\ \A v \in OnDevice' : v \in OnDevice /\ devicearray'[v] = devicearray[v]
      /\ deviceDirty' = [deviceDirty EXCEPT ![w] = FALSE]
      /\ onDevice' = [onDevice EXCEPT ![w] = FALSE]
  BY DEF Detach, OnDevice, TypeOK, WrapperTypeOK
<1>2. /\ \A k \in Kernels : w \notin wrappersToDirty[k]
      /\ \A k \in Kernels : \A i \in Passed(k) : arg[k][i].buf # devicearray[w]
  BY DEF Bound, Passed
<1>3. DirtyHere'
  BY <1>1 DEF Binds, DirtyHere, DirtyOnDevice, TypeOK, WrapperTypeOK
<1>4. MarkedOnDevice'
  BY <1>1, <1>2 DEF Binds, MarkedOnDevice, kernelVars
<1>5. PassedHeld'
  <2> SUFFICES ASSUME NEW k \in Kernels, NEW i \in Passed(k), arg[k][i].use # "value"
               PROVE  Holds(k, arg[k][i].buf)'
    BY DEF PassedHeld, Passed, kernelVars
  <2>1. Holds(k, arg[k][i].buf)
    BY DEF Binds, PassedHeld
  <2>2. arg[k][i].buf # devicearray[w]
    BY <1>2
  <2>3. \A v \in OnDevice : v # w => v \in OnDevice' /\ devicearray'[v] = devicearray[v]
    BY <1>1
  <2> QED
    BY <2>1, <2>2, <2>3 DEF Holds, kernelVars
<1>6. PassedMarked'
  BY <1>1 DEF Binds, PassedMarked, Passed, kernelVars
<1> QED
  BY <1>3, <1>4, <1>5, <1>6 DEF Binds

(* The parameters of a kernel are forgotten.                               *)
LEMMA ForgetBinds ==
  ASSUME TypeOK, Binds, NEW k \in Kernels, ForgetParameters(k), DirtyHere',
         UNCHANGED <<devicearray, onDevice>>,
         DOMAIN arg'[k] = ArgPositions(k),
         \A j \in Kernels \ {k} : arg'[j] = arg[j]
  PROVE  Binds'
<1>1. /\ OnDevice' = OnDevice
      /\ \A j \in Kernels \ {k} : /\ buffers'[j] = buffers[j]
                                 /\ wrappersToDirty'[j] = wrappersToDirty[j]
                                 /\ nextArg'[j] = nextArg[j]
      /\ wrappersToDirty'[k] = {} /\ nextArg'[k] = 0
  BY DEF ForgetParameters, OnDevice, TypeOK, KernelTypeOK
<1>2. Passed(k)' = {}
  <2>1. Arity[k] \in Nat
    BY WrapperAssumption
  <2> QED
    BY <2>1, <1>1 DEF Passed, ArgPositions
<1>3. \A j \in Kernels \ {k} : Passed(j)' = Passed(j)
  BY <1>1 DEF Passed
<1>4. MarkedOnDevice'
  BY <1>1 DEF Binds, MarkedOnDevice
<1>5. PassedHeld'
  <2> SUFFICES ASSUME NEW j \in Kernels \ {k}, NEW i \in Passed(j), arg[j][i].use # "value"
               PROVE  Holds(j, arg[j][i].buf)'
    BY <1>2, <1>3 DEF PassedHeld
  <2>1. Holds(j, arg[j][i].buf)
    BY DEF Binds, PassedHeld
  <2> QED
    BY <2>1, <1>1 DEF Holds
<1>6. PassedMarked'
  BY <1>1, <1>2, <1>3 DEF Binds, PassedMarked
<1> QED
  BY <1>4, <1>5, <1>6 DEF Binds

-----------------------------------------------------------------------------
(* What a wrapper does leaves what was passed bound.                       *)
LEMMA WrapperStepBinds ==
  ASSUME TypeOK, Ownership, Binds, Rule("keepBound"), NEW w \in Wrappers, WrapperStep(w)
  PROVE  Binds'
<1>1. CASE CreateOnDevice(w) \/ CopyToDeviceFails(w)
  <2>1. /\ ~onDevice[w] /\ UNCHANGED kernelVars
        /\ \E b \in FreeBuffers : Attach(w, b)
    BY <1>1 DEF CreateOnDevice, CopyToDeviceFails
  <2> QED
    BY <2>1, AttachGrows, AttachDirty, SameBinds DEF Binds, kernelVars
<1>2. CASE CopyToDevice(w)
  <2>1. /\ UNCHANGED kernelVars
        /\ \/ UNCHANGED <<devicearray, onDevice, deviceDirty>>
           \/ ~onDevice[w] /\ \E b \in FreeBuffers : Attach(w, b)
    BY <1>2 DEF CopyToDevice
  <2>2. CASE UNCHANGED <<devicearray, onDevice, deviceDirty>>
    BY <2>1, <2>2, SameGrows, SameBinds DEF Binds, DirtyHere, DirtyOnDevice, kernelVars
  <2> QED
    BY <2>1, <2>2, AttachGrows, AttachDirty, SameBinds DEF Binds, kernelVars
<1>3. CASE CopyToHost(w) \/ ClientMarksDirty(w)
  <2>1. DirtyHere'
    BY <1>3 DEF CopyToHost, ClientMarksDirty, MarkDeviceDirty, Binds, DirtyHere, DirtyOnDevice,
                wrapperVars, TypeOK, WrapperTypeOK
  <2> QED
    BY <1>3, <2>1, SameGrows, SameBinds
    DEF CopyToHost, ClientMarksDirty, wrapperVars, kernelVars
<1>4. CASE DeleteFromDevice(w)
  BY <1>4, DetachBinds DEF DeleteFromDevice
<1>5. CASE Destroy(w) /\ onDevice[w]
  <2>1. \A v \in Wrappers \ {w} : devicearray'[v] = devicearray[v]
    BY <1>5 DEF Destroy, TypeOK, WrapperTypeOK
  <2> QED
    BY <1>5, <2>1, DetachBinds DEF Destroy
<1>6. CASE Destroy(w) /\ ~onDevice[w]
  <2>1. /\ OnDevice' = OnDevice /\ UNCHANGED <<onDevice, kernelVars>>
        /\ \A v \in OnDevice : devicearray'[v] = devicearray[v]
        /\ deviceDirty' = [deviceDirty EXCEPT ![w] = FALSE]
    BY <1>6 DEF Destroy, OnDevice, TypeOK, WrapperTypeOK
  <2>2. DirtyHere'
    BY <2>1 DEF Binds, DirtyHere, DirtyOnDevice, TypeOK, WrapperTypeOK
  <2>3. OwnersGrow
    BY <2>1 DEF OwnersGrow, Holds, kernelVars
  <2> QED
    BY <2>1, <2>2, <2>3, SameBinds
<1> QED
  BY <1>1, <1>2, <1>3, <1>4, <1>5, <1>6 DEF WrapperStep

(* A parameter that is no buffer.                                          *)
LEMMA InputBinds ==
  ASSUME TypeOK, Binds, NEW k \in Kernels, InputValue(k)
  PROVE  Binds'
<1>1. /\ Accepts(k) /\ SetArg(k, "value", NoBuffer) /\ NextArg(k)
      /\ UNCHANGED <<devicearray, onDevice, deviceDirty, buffers, wrappersToDirty>>
  BY DEF InputValue, wrapperVars
<1>2. DirtyHere' /\ MarkedOnDevice'
  BY <1>1 DEF Binds, DirtyHere, DirtyOnDevice, MarkedOnDevice, OnDevice
<1> QED
  BY <1>1, <1>2, SameGrows, PassBinds DEF Binds

(* A wrapper as input, or as both, or its bare buffer.                     *)
LEMMA InputWrapperBinds ==
  ASSUME TypeOK, Ownership, Binds, NEW k \in Kernels, NEW w \in Wrappers,
         Input(k, w) \/ Inout(k, w) \/ InoutBuffer(k, w)
  PROVE  Binds'
<1>1. PICK use \in {"in", "inout", "bare"} :
        /\ SetArg(k, use, devicearray[w])
        /\ use = "inout" => ToDirty(k, w)
        /\ use # "inout" => UNCHANGED wrappersToDirty
  BY DEF Input, Inout, InoutBuffer
<1>2. /\ Accepts(k) /\ NextArg(k) /\ onDevice[w]
      /\ UNCHANGED <<devicearray, onDevice, deviceDirty, buffers>>
  BY DEF Input, Inout, InoutBuffer, wrapperVars
<1>3. w \in OnDevice /\ OnDevice' = OnDevice
  BY <1>2 DEF OnDevice
<1>4. /\ \A j \in Kernels : wrappersToDirty[j] \subseteq wrappersToDirty'[j]
      /\ \A j \in Kernels : wrappersToDirty'[j] \subseteq wrappersToDirty[j] \cup {w}
      /\ use = "inout" => w \in wrappersToDirty'[k]
  BY <1>1 DEF ToDirty, TypeOK, KernelTypeOK
<1>5. DirtyHere' /\ MarkedOnDevice'
  BY <1>2, <1>3, <1>4 DEF Binds, DirtyHere, DirtyOnDevice, MarkedOnDevice
<1>6. PICK c : c = devicearray[w]
  OBVIOUS
<1>7. Holds(k, c)'
  BY <1>2, <1>3, <1>6 DEF Holds
<1>8. \A v \in OnDevice' : devicearray'[v] = c => v = w
  BY <1>2, <1>3, <1>6 DEF Ownership
<1>9. SetArg(k, use, c) /\ OwnersGrow
  BY <1>1, <1>2, <1>6, SameGrows
<1>10. PassedHeld' /\ PassedMarked'
  BY <1>2, <1>4, <1>7, <1>8, <1>9, PassBinds DEF Binds
<1> QED
  BY <1>5, <1>10 DEF Binds

(* A wrapper as output, whose buffer may be a new one.                     *)
LEMMA OutputWrapperBinds ==
  ASSUME TypeOK, Ownership, Binds, NEW k \in Kernels, NEW w \in Wrappers,
         OutputWrapper(k, w)
  PROVE  Binds'
<1>1. /\ Accepts(k) /\ NextArg(k) /\ ToDirty(k, w) /\ UNCHANGED buffers
      /\ w \in OnDevice'
      /\ SetArg(k, "out", devicearray'[w])
      /\ OwnersGrow /\ Ownership' /\ DirtyHere'
  <2>1. CASE onDevice[w]
    <3>1. /\ SetArg(k, "out", devicearray[w])
          /\ UNCHANGED <<live, devicearray, onDevice, deviceDirty, buffers>>
      BY <2>1 DEF OutputWrapper, deviceVars, wrapperVars
    <3> QED
      BY <2>1, <3>1, SameGrows, SameOwns
      DEF OutputWrapper, owners, OnDevice, Binds, DirtyHere, DirtyOnDevice
  <2>2. CASE ~onDevice[w]
    <3>1. PICK b \in FreeBuffers : Attach(w, b) /\ SetArg(k, "out", b)
      BY <2>2 DEF OutputWrapper
    <3>2. devicearray'[w] = b /\ w \in OnDevice'
      BY <3>1 DEF Attach, OnDevice, TypeOK, WrapperTypeOK
    <3> QED
      BY <2>2, <3>1, <3>2, AttachGrows, AttachOwns, AttachDirty DEF OutputWrapper, Binds
  <2> QED
    BY <2>1, <2>2
<1>2. /\ \A j \in Kernels : wrappersToDirty[j] \subseteq wrappersToDirty'[j]
      /\ \A j \in Kernels : wrappersToDirty'[j] \subseteq wrappersToDirty[j] \cup {w}
      /\ w \in wrappersToDirty'[k]
  BY <1>1 DEF ToDirty, TypeOK, KernelTypeOK
<1>3. MarkedOnDevice'
  BY <1>1, <1>2 DEF Binds, MarkedOnDevice, OwnersGrow
<1>4. PICK c : c = devicearray'[w]
  OBVIOUS
<1>5. SetArg(k, "out", c) /\ Holds(k, c)'
  BY <1>1, <1>4 DEF Holds
<1>6. \A v \in OnDevice' : devicearray'[v] = c => v = w
  BY <1>1, <1>4 DEF Ownership
<1>7. PassedHeld' /\ PassedMarked'
  BY <1>1, <1>2, <1>5, <1>6, PassBinds DEF Binds
<1> QED
  BY <1>1, <1>3, <1>7 DEF Binds

(* The wrapper is created, and the parameter refused.                      *)
LEMMA OutputWrapperFailsBinds ==
  ASSUME TypeOK, Ownership, Binds, NEW k \in Kernels, NEW w \in Wrappers,
         OutputWrapperFails(k, w)
  PROVE  Binds'
<1>1. PICK b \in FreeBuffers : Attach(w, b)
  BY DEF OutputWrapperFails
<1> QED
  BY <1>1, AttachGrows, AttachDirty, SameBinds DEF OutputWrapperFails, Binds, kernelVars

(* A plain array, in a new buffer that the kernel holds.                   *)
LEMMA ArrayBinds ==
  ASSUME TypeOK, Ownership, Binds, NEW k \in Kernels, NEW h \in Hosts,
         InputArray(k, h) \/ OutputArray(k, h) \/ InoutArray(k, h)
  PROVE  Binds'
<1>1. PICK b \in FreeBuffers, use \in {"in", "out", "inout"} :
        /\ buffers' = [buffers EXCEPT ![k] = @ \cup {b}]
        /\ IF Accepts(k) THEN SetArg(k, use, b) ELSE UNCHANGED arg
        /\ Temporary(b, host[h]) \/ Temporary(b, Junk)
  BY DEF InputArray, OutputArray, InoutArray
<1>2. NextArg(k) /\ UNCHANGED <<devicearray, onDevice, deviceDirty, wrappersToDirty>>
  BY DEF InputArray, OutputArray, InoutArray, wrapperVars
<1>3. OwnersGrow
  BY <1>1, <1>2, TemporaryGrows
<1>4. DirtyHere' /\ MarkedOnDevice' /\ OnDevice' = OnDevice
  BY <1>2 DEF Binds, DirtyHere, DirtyOnDevice, MarkedOnDevice, OnDevice
<1>5. CASE Accepts(k)
  <2>1. Holds(k, b)'
    BY <1>1 DEF Holds, TypeOK, KernelTypeOK
  <2>2. \A w \in OnDevice' : devicearray'[w] # b
    BY <1>2, <1>4 DEF Ownership, FreeBuffers
  <2> QED
    BY <1>1, <1>2, <1>3, <1>4, <1>5, <2>1, <2>2, PassBinds DEF Binds
<1>6. CASE ~Accepts(k)
  <2>1. \A j \in Kernels : \A i \in Passed(j)' : i \in Passed(j) /\ arg'[j][i] = arg[j][i]
    <3> SUFFICES ASSUME NEW j \in Kernels, NEW i \in Passed(j)'
                 PROVE  i \in Passed(j) /\ arg'[j][i] = arg[j][i]
      OBVIOUS
    <3>1. /\ arg[j] \in [ArgPositions(j) -> Param]
          /\ nextArg \in [Kernels -> 0 .. MaxArgs]
      BY DEF TypeOK, KernelTypeOK
    <3>2. nextArg[j] \in Nat /\ Arity[j] \in Nat
      BY <3>1, KernelAssumption, WrapperAssumption
    <3>3. nextArg'[j] = IF j = k THEN nextArg[j] + 1 ELSE nextArg[j]
      BY <3>1, <1>2 DEF NextArg
    <3>4. /\ arg' = arg /\ DOMAIN arg[j] = 0 .. (Arity[j] - 1)
          /\ nextArg[j] \in Nat /\ Arity[j] \in Nat
          /\ nextArg'[j] = IF j = k THEN nextArg[j] + 1 ELSE nextArg[j]
      BY <1>1, <1>6, <3>1, <3>2, <3>3 DEF ArgPositions
    <3>5. i \in 0 .. (Arity[j] - 1) /\ i < nextArg'[j]
      BY <3>4 DEF Passed
    <3>6. i < nextArg[j]
      BY <3>4, <3>5, <1>6 DEF Accepts
    <3> QED
      BY <3>4, <3>5, <3>6 DEF Passed
  <2> QED
    BY <1>2, <1>3, <1>4, <2>1, UnpassedBinds DEF Binds
<1> QED
  BY <1>5, <1>6

(* What is done with a kernel leaves what was passed bound.                *)
LEMMA KernelStepBinds ==
  ASSUME TypeOK, Ownership, Binds, NEW k \in Kernels, KernelStep(k)
  PROVE  Binds'
<1>1. CASE InputValue(k)
  BY <1>1, InputBinds
<1>2. CASE DestroyKernel(k)
  <2>1. /\ ForgetParameters(k)
        /\ UNCHANGED <<devicearray, onDevice, deviceDirty>>
        /\ DOMAIN arg'[k] = ArgPositions(k)
        /\ \A j \in Kernels \ {k} : arg'[j] = arg[j]
    BY <1>2 DEF DestroyKernel, wrapperVars, TypeOK, KernelTypeOK
  <2>2. DirtyHere'
    BY <2>1 DEF Binds, DirtyHere, DirtyOnDevice
  <2> QED
    BY <2>1, <2>2, ForgetBinds
<1>3. ASSUME NEW w \in Wrappers, Input(k, w) \/ Inout(k, w) \/ InoutBuffer(k, w)
      PROVE  Binds'
  BY <1>3, InputWrapperBinds
<1>4. ASSUME NEW w \in Wrappers, OutputWrapper(k, w) PROVE Binds'
  BY <1>4, OutputWrapperBinds
<1>5. ASSUME NEW w \in Wrappers, OutputWrapperFails(k, w) PROVE Binds'
  BY <1>5, OutputWrapperFailsBinds
<1>6. ASSUME NEW h \in Hosts, InputArray(k, h) \/ OutputArray(k, h) \/ InoutArray(k, h)
      PROVE  Binds'
  BY <1>6, ArrayBinds
<1>7. ASSUME NEW h \in Hosts, InputArrayFails(k, h) PROVE Binds'
  BY <1>7, SameGrows, SameBinds
  DEF InputArrayFails, Binds, DirtyHere, DirtyOnDevice, wrapperVars, kernelVars
<1>8. ASSUME NEW q \in Queues, NEW fast_read \in BOOLEAN, Run(k, q, fast_read) PROVE Binds'
  BY <1>8, SameGrows, SameBinds DEF Run, Binds, DirtyHere, DirtyOnDevice, wrapperVars, kernelVars
<1> QED
  BY <1>1, <1>2, <1>3, <1>4, <1>5, <1>6, <1>7, <1>8 DEF KernelStep

(* A run returns: what it marks is on the device.                          *)
LEMMA RunReturnsBinds ==
  ASSUME TypeOK, Binds, RunReturns
  PROVE  Binds'
<1>1. busy.k \in Kernels
  BY BusyRun DEF RunReturns, Running
<1>2. /\ ForgetParameters(busy.k)
      /\ UNCHANGED <<devicearray, onDevice, arg>>
      /\ DOMAIN arg'[busy.k] = ArgPositions(busy.k)
      /\ \A j \in Kernels \ {busy.k} : arg'[j] = arg[j]
  BY <1>1 DEF RunReturns, TypeOK, KernelTypeOK
<1>3. DirtyHere'
  BY <1>1 DEF RunReturns, MarkWrappers, Binds, DirtyHere, DirtyOnDevice, MarkedOnDevice, OnDevice
<1> QED
  BY <1>1, <1>2, <1>3, ForgetBinds

(* Every step does, under the rule.                                        *)
LEMMA NextBinds ==
  ASSUME TypeOK, Ownership, Binds, Rule("keepBound"), [Next]_vars
  PROVE  Binds'
<1>1. ASSUME NEW h \in Hosts, NEW v \in Val, Edit(h, v) PROVE Binds'
  BY <1>1, SameGrows, SameBinds DEF Edit, Binds, DirtyHere, DirtyOnDevice, kernelVars
<1>2. ASSUME NEW w \in Wrappers, WrapperStep(w) PROVE Binds'
  BY <1>2, WrapperStepBinds
<1>3. ASSUME NEW s, NEW t, NEW from, NEW to, NEW count, CopyTo(s, t, from, to, count)
      PROVE  Binds'
  <2>1. DirtyHere'
    BY <1>3 DEF CopyTo, MarkDeviceDirty, Binds, DirtyHere, DirtyOnDevice, TypeOK, WrapperTypeOK
  <2> QED
    BY <1>3, <2>1, SameGrows, SameBinds DEF CopyTo, kernelVars
<1>4. ASSUME NEW s \in Wrappers, NEW t \in Wrappers, CopyAllTo(s, t) PROVE Binds'
  BY <1>4, <1>3 DEF CopyAllTo
<1>5. ASSUME NEW k \in Kernels, KernelStep(k) PROVE Binds'
  BY <1>5, KernelStepBinds
<1>6. CASE CopyToDeviceReturns \/ CopyToHostReturns
  <2>1. /\ deviceDirty' = [deviceDirty EXCEPT ![busy.w] = FALSE]
        /\ UNCHANGED <<devicearray, onDevice, kernelVars>>
    BY <1>6 DEF CopyToDeviceReturns, CopyToHostReturns
  <2>2. DirtyHere'
    BY <2>1 DEF Binds, DirtyHere, DirtyOnDevice, TypeOK, WrapperTypeOK
  <2> QED
    BY <2>1, <2>2, SameGrows, SameBinds DEF kernelVars
<1>7. CASE CopyToHostThrows \/ FinishCall \/ FinishReturns \/ RunReads \/ RunReadRefused
  BY <1>7, SameGrows, SameBinds
  DEF CopyToHostThrows, FinishCall, FinishReturns, RunReads, RunReadRefused, Binds, DirtyHere, DirtyOnDevice,
      wrapperVars, kernelVars
<1>8. CASE RunReturns
  BY <1>8, RunReturnsBinds
<1>9. ASSUME NEW q \in Queues, DeviceStep(q) PROVE Binds'
  BY <1>9, SameGrows, SameBinds DEF DeviceStep, Binds, DirtyHere, DirtyOnDevice, wrapperVars, kernelVars
<1>10. CASE UNCHANGED vars
  BY <1>10, SameGrows, SameBinds DEF vars, Binds, DirtyHere, DirtyOnDevice, wrapperVars, kernelVars
<1> QED
  BY <1>1, <1>2, <1>3, <1>4, <1>5, <1>6, <1>7, <1>8, <1>9, <1>10 DEF Next, Returns

(* Nothing was passed at first.                                            *)
LEMMA InitBinds == Init => Binds
<1> SUFFICES ASSUME Init PROVE Binds
  OBVIOUS
<1>1. \A k \in Kernels : Passed(k) = {}
  BY WrapperAssumption DEF Init, KernelInit, Passed, ArgPositions
<1> QED
  BY <1>1 DEF Init, WrapperInit, KernelInit, Binds, DirtyHere, DirtyOnDevice, MarkedOnDevice,
              PassedHeld, PassedMarked

(* So it is always.                                                        *)
LEMMA BindsCorrect ==
  ASSUME Rule("keepBound")
  PROVE  Spec => []Binds
<1>1. TypeOK /\ Ownership /\ Binds /\ [Next]_vars => Binds'
  BY NextBinds
<1> QED
  BY <1>1, InitBinds, TypeCorrect, OwnersKeep, PTL DEF Spec

(* A set dirty flag is that of a wrapper with a device copy                *)
(* (CLWrapper::isDeviceDirty), though a run sets it long after the wrapper *)
(* was passed: all that the library does keeps it so, for a client that    *)
(* itself marks only wrappers that have one, which markDeviceDirty() does  *)
(* not ask of it.                                                          *)
THEOREM DirtyIsOnDevice ==
  ASSUME Rule("keepBound"), Rule("markOnDevice")
  PROVE  Spec => []DirtyOnDevice
<1>1. Binds => DirtyOnDevice
  BY DEF Binds, DirtyHere
<1> QED
  BY <1>1, BindsCorrect, PTL

(* A parameter passed since the last run names a buffer that has not been  *)
(* released when the kernel is launched.                                   *)
THEOREM ArgsStayAlive ==
  ASSUME Rule("keepBound")
  PROVE  Spec => []ArgsAlive
<1>1. Ownership /\ Binds => ArgsAlive
  BY DEF Ownership, Binds, PassedHeld, Holds, ArgsAlive
<1> QED
  BY <1>1, BindsCorrect, OwnersKeep, PTL

-----------------------------------------------------------------------------
(* While a kernel is run, nothing more is passed to it.                    *)
LEMMA NextRunning ==
  ASSUME TypeOK, RunningPassed, [Next]_vars
  PROVE  RunningPassed'
<1>1. ASSUME NEW k \in Kernels, NEW q \in Queues, NEW fast_read \in BOOLEAN,
             Run(k, q, fast_read)
      PROVE  RunningPassed'
  BY <1>1 DEF Run, RunningPassed, kernelVars
<1>2. CASE RunReads \/ RunReadRefused
  <2>1. /\ busy'.op = "run" /\ busy'.k = busy.k
        /\ busy.op = "run" /\ UNCHANGED nextArg
    BY <1>2, BusyRun DEF RunReads, RunReadRefused, Reading, Running, kernelVars
  <2> QED
    BY <2>1 DEF RunningPassed
<1>3. ASSUME NEW q \in Queues, DeviceStep(q) PROVE RunningPassed'
  BY <1>3 DEF DeviceStep, RunningPassed, kernelVars
<1>4. CASE UNCHANGED vars
  BY <1>4 DEF vars, RunningPassed, kernelVars
<1>5. ASSUME busy'.op # "run" PROVE RunningPassed'
  BY <1>5 DEF RunningPassed
<1>6. ASSUME busy = Idle, UNCHANGED busy PROVE RunningPassed'
  BY <1>5, <1>6 DEF Idle
<1>7. ASSUME NEW h \in Hosts, NEW v \in Val, Edit(h, v) PROVE RunningPassed'
  BY <1>6, <1>7 DEF Edit
<1>8. ASSUME NEW w \in Wrappers, WrapperStep(w) PROVE RunningPassed'
  BY <1>5, <1>6, <1>8
  DEF WrapperStep, CreateOnDevice, CopyToDevice, CopyToDeviceFails, CopyToHost,
      DeleteFromDevice, Destroy, ClientMarksDirty
<1>9. ASSUME NEW s, NEW t, NEW from, NEW to, NEW count, CopyTo(s, t, from, to, count)
      PROVE  RunningPassed'
  BY <1>6, <1>9 DEF CopyTo
<1>10. ASSUME NEW k \in Kernels, KernelStep(k) PROVE RunningPassed'
  BY <1>1, <1>6, <1>10
  DEF KernelStep, InputValue, DestroyKernel, Input, Inout, InoutBuffer, OutputWrapper,
      OutputWrapperFails, InputArray, InputArrayFails, OutputArray, InoutArray, Passing
<1>11. CASE \/ FinishCall \/ FinishReturns \/ RunReturns
            \/ CopyToDeviceReturns \/ CopyToHostReturns \/ CopyToHostThrows
  BY <1>5, <1>11
  DEF FinishCall, FinishReturns, RunReturns, CopyToDeviceReturns, CopyToHostReturns,
      CopyToHostThrows, Idle
<1> QED
  BY <1>2, <1>3, <1>4, <1>7, <1>8, <1>9, <1>10, <1>11 DEF Next, Returns, CopyAllTo

(* When run() returns, no wrapper on the device that the kernel wrote is   *)
(* clean (CLKernel::run marks wrappersToDirty), for a client that passes   *)
(* every parameter before each run.                                        *)
THEOREM WrittenAreDirty ==
  ASSUME Rule("keepBound"), Rule("freshArgs")
  PROVE  Spec => WrittenMeansDirty
<1>1. Init => RunningPassed
  BY DEF Init, WrapperInit, RunningPassed, Idle
<1>2. TypeOK /\ RunningPassed /\ [Next]_vars => RunningPassed'
  BY NextRunning
<1>3. ASSUME TypeOK, Binds, RunningPassed, RunReturns,
             NEW w \in OnDevice, devicearray[w] \in PassedAs(busy.k, {"out", "inout"})
      PROVE  deviceDirty'[w]
  <2>1. busy.k \in Kernels
    BY <1>3, BusyRun DEF RunReturns, Running
  <2>2. PICK i \in DOMAIN arg[busy.k] : /\ arg[busy.k][i].use \in {"out", "inout"}
                                        /\ arg[busy.k][i].buf = devicearray[w]
    BY <1>3 DEF PassedAs
  <2>3. i \in Passed(busy.k)
    <3>1. /\ i \in 0 .. (Arity[busy.k] - 1) /\ nextArg[busy.k] >= Arity[busy.k]
          /\ Arity[busy.k] \in Nat /\ nextArg[busy.k] \in Nat
      BY <1>3, <2>1, KernelAssumption, WrapperAssumption
      DEF RunReturns, RunningPassed, TypeOK, KernelTypeOK, ArgPositions
    <3> QED
      BY <3>1 DEF Passed
  <2>4. w \in wrappersToDirty[busy.k]
    BY <1>3, <2>1, <2>2, <2>3 DEF Binds, PassedMarked
  <2> QED
    BY <1>3, <2>4 DEF RunReturns, MarkWrappers, OnDevice
<1>4. TypeOK /\ Binds /\ RunningPassed /\ [Next]_vars
        => [RunReturns => \A w \in OnDevice :
              devicearray[w] \in PassedAs(busy.k, {"out", "inout"})
                => deviceDirty'[w]]_vars
  BY <1>3
<1> QED
  BY <1>1, <1>2, <1>4, TypeCorrect, BindsCorrect, PTL DEF Spec, WrittenMeansDirty
=============================================================================
